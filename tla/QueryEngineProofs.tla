-------------------------- MODULE QueryEngineProofs --------------------------
(***************************************************************************)
(* What QueryEngine promises, for every number of rows and meters, every   *)
(* quality of the values, every report and every time zone: no line is     *)
(* wider than the cache, and the result has every row of the period once,  *)
(* in its own entry or one as near as the ids of the lines allow, and with *)
(* the worst quality where it should.                                      *)
(*                                                                         *)
(* The argument: the lines a report is given are the consecutive rows of   *)
(* the period (Ahead); what was handed to it is in its result or in its    *)
(* cache, in order (Covered, InOrder); and the running entry is ahead of   *)
(* the next row by no more than the zeros of a missing one are late, and   *)
(* behind it only as the first row was (Reach).                            *)
(***************************************************************************)
EXTENDS QueryEngine, FiniteSetTheorems, SequenceTheorems, WellFoundedInduction, TLAPS

(* The columns of the lines were given to meters, and what the query saw   *)
(* when it opened the range were so too; a panic is for a line that is     *)
(* wider than the record was when it was read.                             *)
Widths ==
  /\ meters \in Nat /\ given \in Nat /\ widest \in Nat /\ width \in Nat /\ columns \in Nat
  /\ widest <= given
  /\ phase \in {"meta", "lines", "panicked"} => width <= given
  /\ phase \in {"lines", "panicked"} => columns = meters
  /\ phase = "panicked" => width > columns

(* The query begins before anything was read.                              *)
LEMMA WidthsInit == Init => Widths
  BY DEF Init, Widths

(* An import writes a column only when it was given to a meter, and the    *)
(* meta record is read after the range was opened.                         *)
LEMMA WidthsNext == Widths /\ [Next]_vars => Widths'
<1> SUFFICES ASSUME Widths, [Next]_vars
             PROVE  Widths'
  OBVIOUS
<1> USE QueryAssumption DEF Widths, database, reading, caching
<1>1. CASE AddMeter \/ AddMeterFails
  <2>1. meters' \in Nat /\ given' \in Nat /\ given <= given'
    BY <1>1 DEF AddMeter, AddMeterFails, GiveColumn
  <2> QED
    BY <1>1, <2>1 DEF AddMeter, AddMeterFails, GiveColumn, Importing
<1>2. CASE LoseMeters
  BY <1>2 DEF LoseMeters, Importing
<1>3. ASSUME NEW t \in Rows, NEW column \in 1 .. MaxMeters, StoreLine(t, column)
      PROVE  Widths'
  BY <1>3 DEF StoreLine, Importing
<1>4. CASE OpenRange
  BY <1>4 DEF OpenRange
<1>5. ASSUME NEW r \in Reports, ReadMeta(r)
      PROVE  Widths'
  BY <1>5 DEF ReadMeta, EngineContext
<1>6. CASE HandleStartFails
  BY <1>6 DEF HandleStartFails, EngineContext
<1>7. CASE NextRow
  BY <1>7 DEF NextRow
<1>8. CASE Panics
  BY <1>8 DEF Panics
<1>9. CASE AddLine \/ AddToSum \/ CacheLine \/ FlushCache
  BY <1>9 DEF AddLine, AddToSum, CacheLine, FlushCache, Handle
<1>10. CASE HandleEnd
  BY <1>10 DEF HandleEnd
<1>11. CASE UNCHANGED vars
  BY <1>11 DEF vars
<1> QED
  BY <1>1, <1>2, <1>3, <1>4, <1>5, <1>6, <1>7, <1>8, <1>9, <1>10, <1>11
  DEF Next, Import, Query

(* The cache of a query is as wide as every line it adds (addToCache,      *)
(* engine.go 222-249), although an import adds meters and lines while the  *)
(* query reads the rows and the meta record: the query panics only when    *)
(* the record lost a meter or could not be written with it.                *)
THEOREM NoLineTooWide == Spec => []ColumnsFit
<1>1. Widths => ColumnsFit
  BY DEF Widths, ColumnsFit
<1> QED
  BY <1>1, WidthsInit, WidthsNext, PTL DEF Spec

-----------------------------------------------------------------------------
(* Least and greatest rows, and the division of times.                     *)

(* A number is its quotient's multiple and a remainder.                    *)
LEMMA Division ==
  ASSUME NEW d \in Nat \ {0}, NEW n \in Nat
  PROVE  n = d * (n \div d) + (n % d) /\ n % d \in 0 .. d - 1 /\ n \div d \in Nat
  OBVIOUS

(* A set of rows that is not empty has a first and a last one.             *)
LEMMA Bounded ==
  ASSUME NEW S \in SUBSET Rows, S # {}
  PROVE  /\ \E x \in S : \A y \in S : x <= y
         /\ \E x \in S : \A y \in S : x >= y
<1> USE QueryAssumption
<1> DEFINE Below(x) == {y \in S : y <= x}
           Above(x) == {y \in S : y >= x}
           Smaller == StrictSubsetOrdering(S)
<1>0. S \subseteq Nat
  BY DEF Rows
<1>1. IsFiniteSet(S)
  <2>1. IsFiniteSet(Rows)
    BY FS_Interval DEF Rows
  <2> QED
    BY <2>1, FS_Subset
<1>2. FiniteSubsetsOf(S) = SUBSET S /\ IsWellFoundedOn(Smaller, FiniteSubsetsOf(S))
  BY <1>1, FS_FiniteSubsetsOfFinite, FS_StrictSubsetOrderingWellFounded
<1>3. \E x \in S : \A y \in S : x <= y
  <2> DEFINE F == {Below(x) : x \in S}
  <2>1. F \subseteq FiniteSubsetsOf(S) /\ F # {}
    <3>1. \A x \in S : Below(x) \in SUBSET S
      OBVIOUS
    <3> HIDE DEF Below
    <3> QED
      BY <1>2, <3>1
  <2>2. PICK U \in F : \A V \in F : ~ (<<V, U>> \in Smaller)
    <3> HIDE DEF F, Smaller
    <3> QED
      BY <1>2, <2>1, WFMin
  <2>3. PICK x \in S : U = Below(x)
    OBVIOUS
  <2>4. ASSUME NEW y \in S, y < x PROVE FALSE
    <3>1. Below(y) \subseteq Below(x) /\ x \in Below(x) /\ x \notin Below(y)
      <4>1. x \in Nat /\ y \in Nat /\ S \subseteq Nat
        BY <1>0
      <4>2. \A z \in S : z <= y => z <= x
        BY <2>4, <4>1
      <4>3. x <= x /\ ~ (x <= y)
        BY <2>4, <4>1
      <4> QED
        BY <4>2, <4>3
    <3>2. Below(y) \in F /\ Below(y) \in SUBSET S /\ Below(x) \in SUBSET S
      OBVIOUS
    <3>3. <<Below(y), Below(x)>> \in Smaller
      <4> HIDE DEF Below
      <4> QED
        BY <3>1, <3>2 DEF StrictSubsetOrdering
    <3> HIDE DEF Below, F, Smaller
    <3> QED
      BY <2>2, <2>3, <3>2, <3>3
  <2> QED
    BY <1>0, <2>4
<1>4. \E x \in S : \A y \in S : x >= y
  <2> DEFINE F == {Above(x) : x \in S}
  <2>1. F \subseteq FiniteSubsetsOf(S) /\ F # {}
    <3>1. \A x \in S : Above(x) \in SUBSET S
      OBVIOUS
    <3> HIDE DEF Above
    <3> QED
      BY <1>2, <3>1
  <2>2. PICK U \in F : \A V \in F : ~ (<<V, U>> \in Smaller)
    <3> HIDE DEF F, Smaller
    <3> QED
      BY <1>2, <2>1, WFMin
  <2>3. PICK x \in S : U = Above(x)
    OBVIOUS
  <2>4. ASSUME NEW y \in S, y > x PROVE FALSE
    <3>1. Above(y) \subseteq Above(x) /\ x \in Above(x) /\ x \notin Above(y)
      <4>1. x \in Nat /\ y \in Nat /\ S \subseteq Nat
        BY <1>0
      <4>2. \A z \in S : z >= y => z >= x
        BY <2>4, <4>1
      <4>3. x >= x /\ ~ (x >= y)
        BY <2>4, <4>1
      <4> QED
        BY <4>2, <4>3
    <3>2. Above(y) \in F /\ Above(y) \in SUBSET S /\ Above(x) \in SUBSET S
      OBVIOUS
    <3>3. <<Above(y), Above(x)>> \in Smaller
      <4> HIDE DEF Above
      <4> QED
        BY <3>1, <3>2 DEF StrictSubsetOrdering
    <3> HIDE DEF Above, F, Smaller
    <3> QED
      BY <2>2, <2>3, <3>2, <3>3
  <2> QED
    BY <1>0, <2>4
<1> QED
  BY <1>3, <1>4

LEMMA LeastRow ==
  ASSUME NEW S \in SUBSET Rows, S # {}
  PROVE  /\ Least(S) \in S /\ Least(S) \in Nat
         /\ \A y \in S : y \in Nat /\ Least(S) <= y
<1>1. \E x \in S : \A y \in S : x <= y
  BY Bounded
<1>2. Least(S) \in S /\ \A y \in S : Least(S) <= y
  BY <1>1 DEF Least
<1>3. S \subseteq Nat
  BY QueryAssumption DEF Rows
<1> QED
  BY <1>2, <1>3

LEMMA GreatestRow ==
  ASSUME NEW S \in SUBSET Rows, S # {}
  PROVE  /\ Greatest(S) \in S /\ Greatest(S) \in Nat
         /\ \A y \in S : y \in Nat /\ y <= Greatest(S)
<1>1. \E x \in S : \A y \in S : x >= y
  BY Bounded
<1>2. Greatest(S) \in S /\ \A y \in S : Greatest(S) >= y
  BY <1>1 DEF Greatest
<1>3. S \subseteq Nat
  BY QueryAssumption DEF Rows
<1> QED
  BY <1>2, <1>3

(* Products of natural numbers.                                            *)
LEMMA TimesMonotone ==
  ASSUME NEW i \in Nat, NEW j \in Nat, NEW n \in Nat, i <= j
  PROVE  n * i \in Nat /\ n * j \in Nat /\ n * i <= n * j
<1>1. PICK k \in Nat : j = i + k
  <2>1. j - i \in Nat /\ j = i + (j - i)
    OBVIOUS
  <2> QED
    BY <2>1
<1>2. n * j = n * i + n * k
  BY <1>1
<1>3. n * i \in Nat /\ n * k \in Nat
  BY <1>1
<1> QED
  BY <1>2, <1>3

(* The week of a day ends after that day.                                  *)
LEMMA WeekOfDay ==
  ASSUME NEW d \in Nat \ {0}, NEW w \in Nat \ {0}, NEW k \in Nat
  PROVE  /\ d * k \in Nat /\ d * w \in Nat \ {0}
         /\ (d * k) % (d * w) \in Nat /\ (d * k) % (d * w) <= d * k
         /\ ((d * k) % (d * w)) + d <= d * w
<1> DEFINE week == d * w
           day == d * k
           q == day \div week
           m == day % week
<1>1. day \in Nat /\ week \in Nat \ {0}
  <2>1. d * 1 <= d * w /\ d * 1 = d
    BY TimesMonotone
  <2> QED
    BY <2>1
<1>2. day = week * q + m /\ m \in 0 .. week - 1 /\ q \in Nat
  <2> HIDE DEF day, week
  <2> QED
    BY <1>1, Division
<1>3. week * q = d * (w * q) /\ w * q \in Nat
  <2> HIDE DEF q
  <2> QED
    BY <1>2
<1>4. m + d <= week
  <2> HIDE DEF q, m
  <2>1. PICK p \in Nat : p = w * q
    BY <1>3
  <2>2. d * k = d * p + m /\ m \in Nat /\ m < d * w
    BY <1>1, <1>2, <1>3, <2>1
  <2>3. p <= k
    <3>1. SUFFICES ASSUME k + 1 <= p PROVE FALSE
      BY <2>1
    <3>2. d * (k + 1) <= d * p /\ d * (k + 1) = d * k + d
      BY <2>1, <3>1, TimesMonotone
    <3>3. d * p \in Nat /\ d * k \in Nat
      BY <2>1
    <3> QED
      BY <2>2, <3>2, <3>3
  <2>4. PICK n \in Nat : k = p + n
    <3>1. k - p \in Nat /\ k = p + (k - p)
      BY <2>1, <2>3
    <3> QED
      BY <3>1
  <2>5. d * k = d * p + d * n
    BY <2>1, <2>4
  <2>6. m = d * n
    <3>1. d * p \in Nat /\ d * n \in Nat
      BY <2>1, <2>4
    <3> QED
      BY <2>2, <2>5, <3>1
  <2>7. n + 1 <= w
    <3>1. SUFFICES ASSUME w <= n PROVE FALSE
      BY <2>4
    <3>2. d * w <= d * n
      BY <2>4, <3>1, TimesMonotone
    <3> QED
      BY <1>1, <2>2, <2>6, <3>2
  <2>8. d * (n + 1) <= d * w /\ d * (n + 1) = d * n + d
    BY <2>4, <2>7, TimesMonotone
  <2> QED
    BY <2>6, <2>8
<1>5. m <= day
  <2>1. week * q \in Nat
    BY <1>1, <1>2
  <2> HIDE DEF day, week, q, m
  <2> QED
    BY <1>1, <1>2, <2>1
<1> QED
  BY <1>1, <1>2, <1>4, <1>5

(* The first entry begins before the first row; it ends after it when the  *)
(* first row is early enough in its day.                                   *)
LEMMA FirstEntry ==
  ASSUME rows \subseteq Rows, rows # {}, NEW r \in Reports
  PROVE  /\ FirstTime(r) \in Nat /\ FirstTime(r) <= Least(rows)
         /\ Least(rows) % DayLen < r.step => Least(rows) < FirstTime(r) + r.step
<1> DEFINE lo == Least(rows)
           k == DayOf(lo)
           day == DayLen * k
           week == DayLen * WeekDays
<1>1. lo \in Nat /\ DayLen \in Nat \ {0} /\ WeekDays \in Nat \ {0} /\ r.step \in Nat
  <2>1. lo \in Nat
    BY LeastRow
  <2> QED
    BY <2>1, QueryAssumption
<1>2. PICK c \in 0 .. DayLen - 1 : c = lo % DayLen /\ lo = day + c /\ k \in Nat
  <2>1. k = lo \div DayLen
    BY DEF DayOf
  <2> HIDE DEF lo, k
  <2>2. /\ lo = DayLen * (lo \div DayLen) + (lo % DayLen)
        /\ lo % DayLen \in 0 .. DayLen - 1 /\ lo \div DayLen \in Nat
    BY <1>1, Division
  <2> QED
    BY <2>1, <2>2, Zenon
<1>3. day \in Nat /\ k * DayLen = day
  <2> HIDE DEF k
  <2> QED
    BY <1>1, <1>2
<1>4. /\ week \in Nat \ {0} /\ day % week \in Nat /\ day % week <= day
      /\ (day % week) + DayLen <= week
  <2> HIDE DEF k
  <2> QED
    BY <1>1, <1>2, WeekOfDay
<1>5. FirstTime(r) = IF r.align THEN day - (day % r.step) ELSE day
  BY <1>3, Zenon DEF FirstTime
<1>6. PICK m \in Nat : m = day % week
  BY <1>4
<1>7. ASSUME r.align PROVE FirstTime(r) = day - m /\ r.step = week
  <2>1. r.step = WeekDays * DayLen
    BY <1>7, QueryAssumption
  <2>2. WeekDays * DayLen = week
    BY <1>1
  <2> HIDE DEF week, day
  <2> QED
    BY <1>5, <1>6, <1>7, <2>1, <2>2
<1>8. ASSUME ~ r.align PROVE FirstTime(r) = day
  BY <1>5, <1>8
<1>9. /\ FirstTime(r) \in Nat /\ FirstTime(r) <= lo
      /\ c < r.step => lo < FirstTime(r) + r.step
  <2> HIDE DEF lo, k, day, week
  <2>1. m <= day /\ m + DayLen <= week
    BY <1>4, <1>6
  <2>2. CASE r.align
    BY <1>1, <1>2, <1>3, <1>4, <1>6, <1>7, <2>1, <2>2
  <2>3. CASE ~ r.align
    BY <1>1, <1>2, <1>3, <1>8, <2>3
  <2> QED
    BY <2>2, <2>3
<1> QED
  BY <1>2, <1>9, Zenon DEF lo

-----------------------------------------------------------------------------
(* Types.                                                                  *)

(* Nothing is handed to a report before the meta record is read, and none  *)
(* is without rows.                                                        *)
Begun ==
  /\ phase \in {"open", "meta", "failed"} =>
       pt = None /\ todo = <<>> /\ cache = <<>> /\ result = <<>>
  /\ phase \in {"meta", "lines"} => rows # {}
  /\ phase = "lines" => report \in Reports

Entries == [time : Nat, lines : Seq(Lines), qov : 0 .. 3]

Typed == TypeOK /\ Begun

LEMMA Constants ==
  /\ Horizon \in Nat /\ MaxMeters \in Nat \ {0} /\ Rows \subseteq Nat
  /\ Reports \subseteq [kind : Kinds, step : Nat, align : BOOLEAN]
  /\ \A r \in Reports : r.kind = "summary" => r.step = 0
  /\ Shifts \subseteq Nat /\ Quality \in [Rows -> 0 .. 3]
  /\ None \notin Rows
  BY QueryAssumption DEF Rows

(* The lines of a database and the zeros in the place of missing ones.     *)
LEMMA LineType ==
  ASSUME NEW t \in Rows
  PROVE  Line(t) \in Lines
  BY Constants DEF Line, Lines

LEMMA ZeroLineType ==
  ASSUME NEW t \in Rows, shift \in Nat
  PROVE  ZeroLine(t) \in Lines
  BY Constants DEF ZeroLine, Lines

LEMMA ZeroLinesType ==
  ASSUME NEW a \in Rows, NEW t \in Rows, a < t, shift \in Nat
  PROVE  /\ ZeroLines(a, t) \in Seq(Lines)
         /\ Len(ZeroLines(a, t)) = t - a - 1
         /\ \A i \in 1 .. t - a - 1 : ZeroLines(a, t)[i] = ZeroLine(a + i) /\ a + i \in Rows
<1>1. a \in Nat /\ t \in Nat /\ t - a - 1 \in Nat
  BY Constants
<1>2. Cardinality(Missing(a, t)) = t - a - 1
  <2>1. Cardinality(a + 1 .. t - 1) = IF a + 1 > t - 1 THEN 0 ELSE (t - 1) - (a + 1) + 1
    BY <1>1, FS_Interval
  <2> QED
    BY <1>1, <2>1 DEF Missing
<1>3. \A i \in 1 .. t - a - 1 : a + i \in Rows
  BY <1>1, QueryAssumption DEF Rows
<1>4. ZeroLines(a, t) = [i \in 1 .. t - a - 1 |-> ZeroLine(a + i)]
  BY <1>2, Zenon DEF ZeroLines
<1>5. \A i \in 1 .. t - a - 1 : ZeroLine(a + i) \in Lines
  BY <1>3, ZeroLineType
<1> HIDE DEF ZeroLine, ZeroLines, Lines
<1>6. ZeroLines(a, t) \in [1 .. t - a - 1 -> Lines]
  BY <1>4, <1>5
<1> QED
  BY <1>1, <1>3, <1>4, <1>6

(* The worst of two qualities is one.                                      *)
LEMMA QualityType ==
  ASSUME NEW p \in 0 .. 3, NEW q \in 0 .. 3
  PROVE  CalcQoV(p, q) \in 0 .. 3
  BY DEF CalcQoV

LEMMA EntryType ==
  ASSUME NEW t \in Nat, NEW ls \in Seq(Lines), NEW q \in 0 .. 3
  PROVE  /\ Entry(t, ls, q) \in Entries
         /\ Entry(t, ls, q).time = t /\ Entry(t, ls, q).lines = ls
         /\ Entry(t, ls, q).qov = CalcQoV(Neutral, q)
<1>1. CalcQoV(Neutral, q) \in 0 .. 3
  BY QualityType DEF Neutral
<1> QED
  BY <1>1 DEF Entry, Entries

(* What Handle leaves of the lines still to be handed.                     *)
LEMMA HeadAndTail ==
  ASSUME todo \in Seq(Lines), todo # <<>>
  PROVE  /\ line = todo[1] /\ line \in Lines
         /\ Tail(todo) \in Seq(Lines) /\ Len(todo) \in Nat \ {0}
         /\ Len(Tail(todo)) = Len(todo) - 1
         /\ \A i \in 1 .. Len(todo) - 1 : Tail(todo)[i] = todo[i + 1]
  BY DEF line

LEMMA UnreadRow ==
  ASSUME rows \subseteq Rows, Unread # {}
  PROVE  /\ Least(Unread) \in rows /\ Least(Unread) \in Rows
         /\ \A t \in rows : t < Least(Unread) => pt # None /\ ~ (t > pt)
         /\ pt # None => Least(Unread) > pt
<1>1. Unread \subseteq rows /\ Unread \in SUBSET Rows
  BY DEF Unread
<1>2. Least(Unread) \in Unread /\ \A y \in Unread : y \in Nat /\ Least(Unread) <= y
  BY <1>1, LeastRow
<1>3. Least(Unread) \in Rows /\ Rows \subseteq Nat
  BY <1>1, <1>2, Constants
<1>4. PICK u \in Unread : u = Least(Unread) /\ u \in Nat
  BY <1>2
<1>5. ASSUME NEW t \in rows, t < u PROVE t \notin Unread
  <2>1. SUFFICES ASSUME t \in Unread PROVE FALSE
    OBVIOUS
  <2>2. t \in Nat /\ u <= t
    BY <1>2, <1>4, <2>1, Zenon
  <2> QED
    BY <1>4, <1>5, <2>2
<1> QED
  BY <1>1, <1>3, <1>4, <1>5 DEF Unread

LEMMA TypedInit == Init => Typed
<1> SUFFICES ASSUME Init PROVE Typed
  OBVIOUS
<1>1. lines \subseteq Rows /\ rows \subseteq Rows /\ shift \in Shifts /\ period \in Periods
  BY DEF Init
<1>2. widest \in 1 .. MaxMeters /\ meters \in 0 .. MaxMeters /\ given \in 1 .. MaxMeters
  BY Constants DEF Init
<1>3. width \in 0 .. MaxMeters /\ columns \in 0 .. MaxMeters
  BY Constants DEF Init
<1>4. cacheTime = 0 /\ qov = 1 /\ named = FALSE
  BY DEF Init
<1>5. /\ cache = <<>> /\ todo = <<>> /\ result = <<>> /\ pt = None /\ report = None
      /\ phase = "open"
  BY DEF Init
<1>6. cacheTime \in Nat /\ qov \in 0 .. 3
  BY <1>4
<1>7. named \in BOOLEAN
  BY <1>4, Zenon
<1>8. cache \in Seq(Lines) /\ todo \in Seq(Lines) /\ result \in Seq(Entries)
  BY <1>5
<1> QED
  BY <1>1, <1>2, <1>3, <1>5, <1>6, <1>7, <1>8 DEF Typed, TypeOK, Begun, Entries

LEMMA TypedNext == Typed /\ [Next]_vars => Typed'
<1> SUFFICES ASSUME Typed, [Next]_vars
             PROVE  Typed'
  OBVIOUS
<1>1. TypeOK /\ Begun
  BY DEF Typed
<1>2. shift \in Nat /\ rows \subseteq Rows
  BY <1>1, Constants DEF TypeOK
<1> USE DEF TypeOK, Begun, Typed, database, reading, caching
<1>3. CASE AddMeter \/ AddMeterFails \/ LoseMeters
  <2>0. MaxMeters \in Nat \ {0} /\ meters \in 0 .. MaxMeters /\ given \in 1 .. MaxMeters
    BY <1>1, Constants
  <2> DEFINE added == IF meters + 1 > given THEN meters + 1 ELSE given
  <2>1. meters' \in 0 .. MaxMeters /\ given' \in 1 .. MaxMeters
    <3>1. CASE AddMeter \/ AddMeterFails
      <4>1. meters < MaxMeters /\ given' = added /\ meters' \in {meters, meters + 1}
        BY <3>1, Zenon DEF AddMeter, AddMeterFails, GiveColumn
      <4>2. added \in 1 .. MaxMeters /\ meters + 1 \in 0 .. MaxMeters
        BY <2>0, <4>1
      <4> HIDE DEF added
      <4> QED
        BY <2>0, <4>1, <4>2, Zenon
    <3>2. CASE LoseMeters
      <4>1. meters' \in 0 .. meters - 1 /\ given' = given
        BY <3>2 DEF LoseMeters
      <4> QED
        BY <2>0, <4>1
    <3> QED
      BY <1>3, <3>1, <3>2
  <2> HIDE DEF added
  <2> QED
    BY <1>1, <1>3, <2>1 DEF AddMeter, AddMeterFails, LoseMeters, GiveColumn, Importing
<1>4. ASSUME NEW t \in Rows, NEW column \in 1 .. MaxMeters, StoreLine(t, column)
      PROVE  Typed'
  <2>1. lines' \subseteq Rows
    BY <1>1, <1>4 DEF StoreLine
  <2>2. widest' \in 1 .. MaxMeters
    BY <1>1, <1>4 DEF StoreLine
  <2> QED
    BY <1>1, <1>4, <2>1, <2>2 DEF StoreLine, Importing
<1>5. CASE OpenRange
  <2>1. rows' \subseteq Rows
    BY <1>1, <1>5 DEF OpenRange
  <2>2. width' \in 0 .. MaxMeters
    BY <1>1, <1>5, Constants DEF OpenRange
  <2> QED
    BY <1>1, <1>5, <2>1, <2>2 DEF OpenRange
<1>6. ASSUME NEW r \in Reports, ReadMeta(r)
      PROVE  Typed'
  <2>1. FirstTime(r) \in Nat
    BY <1>1, <1>2, <1>6, FirstEntry DEF ReadMeta
  <2>2. columns' \in 0 .. MaxMeters
    BY <1>1, <1>6, Constants DEF ReadMeta, EngineContext
  <2>3. cacheTime' \in Nat /\ cache' = <<>> /\ qov' = 1 /\ named' = FALSE
    BY <1>6, <2>1 DEF ReadMeta, InitCache
  <2>4. /\ phase = "meta" /\ phase' = "lines" /\ report' = r
        /\ UNCHANGED <<lines, widest, meters, given, shift, period, rows, width, pt, todo, result>>
    BY <1>6 DEF ReadMeta
  <2>5. TypeOK'
    <3>1. /\ lines' \subseteq Rows /\ rows' \subseteq Rows /\ shift' \in Shifts
          /\ period' \in Periods /\ report' \in Reports \cup {None}
          /\ pt' \in Rows \cup {None} /\ todo' \in Seq(Lines) /\ result' \in Seq(Entries)
      BY <1>1, <2>4 DEF Entries
    <3>2. /\ widest' \in 1 .. MaxMeters /\ meters' \in 0 .. MaxMeters
          /\ given' \in 1 .. MaxMeters /\ width' \in 0 .. MaxMeters
      BY <1>1, <2>4
    <3>3. cache' \in Seq(Lines) /\ qov' \in 0 .. 3
      BY <2>3
    <3>4. named' \in BOOLEAN
      BY <2>3, Zenon
    <3> QED
      BY <2>2, <2>3, <2>4, <3>1, <3>2, <3>3, <3>4 DEF Entries
  <2>6. Begun'
    BY <1>1, <2>3, <2>4
  <2> QED
    BY <2>5, <2>6
<1>7. CASE HandleStartFails
  BY <1>1, <1>7, Constants DEF HandleStartFails, EngineContext
<1>8. CASE NextRow
  <2>1. PICK t \in Rows : t = Least(Unread) /\ t \in rows /\ (pt # None => t > pt)
    BY <1>2, <1>8, UnreadRow DEF NextRow
  <2>2. pt' = t /\ todo' = Append(IF pt = None THEN <<>> ELSE ZeroLines(pt, t), Line(t))
    BY <1>8, <2>1 DEF NextRow
  <2>3. Line(t) \in Lines
    BY LineType
  <2>4. pt # None => ZeroLines(pt, t) \in Seq(Lines)
    <3>1. SUFFICES ASSUME pt # None PROVE ZeroLines(pt, t) \in Seq(Lines)
      OBVIOUS
    <3>2. pt \in Rows /\ t > pt /\ pt \in Nat /\ t \in Nat
      BY <1>1, <2>1, <3>1, Constants
    <3>3. pt < t
      BY <3>2
    <3> QED
      BY <1>2, <3>2, <3>3, ZeroLinesType
  <2>5. todo' \in Seq(Lines)
    <3>1. (IF pt = None THEN <<>> ELSE ZeroLines(pt, t)) \in Seq(Lines)
      BY <2>4
    <3> QED
      BY <2>2, <2>3, <3>1
  <2> QED
    BY <1>1, <1>8, <2>2, <2>5 DEF NextRow
<1>9. ASSUME Handle
      PROVE  line \in Lines /\ todo' \in Seq(Lines) /\ report \in Reports
  BY <1>1, <1>9, HeadAndTail DEF Handle
<1>10. CASE AddLine
  <2>1. Entry(line.at, <<line>>, line.qov) \in Entries
    <3>1. line.at \in Nat /\ <<line>> \in Seq(Lines) /\ line.qov \in 0 .. 3
      BY <1>9, <1>10 DEF AddLine, Lines
    <3> QED
      BY <3>1, EntryType
  <2>2. result' \in Seq(Entries)
    BY <1>1, <1>10, <2>1 DEF AddLine, Entries
  <2> QED
    BY <1>1, <1>9, <1>10, <2>2 DEF AddLine, Handle, Entries
<1>11. CASE AddToSum
  <2>1. PICK sum \in Entries : sum = IF result = <<>> THEN Entry(0, <<>>, 1) ELSE result[1]
    <3>1. Entry(0, <<>>, 1) \in Entries
      <4>1. 0 \in Nat /\ <<>> \in Seq(Lines) /\ 1 \in 0 .. 3
        OBVIOUS
      <4> QED
        BY <4>1, EntryType
    <3>2. result # <<>> => result[1] \in Entries
      <4>1. result \in Seq(Entries)
        BY <1>1 DEF Entries
      <4> QED
        BY <4>1
    <3> QED
      BY <3>1, <3>2
  <2>2. result' = <<[sum EXCEPT !.lines = Append(@, line)]>>
    BY <1>11, <2>1, Zenon DEF AddToSum
  <2>3. Append(sum.lines, line) \in Seq(Lines)
    BY <1>9, <1>11 DEF AddToSum, Entries
  <2>4. [sum EXCEPT !.lines = Append(@, line)] \in Entries
    BY <2>3 DEF Entries
  <2>5. result' \in Seq(Entries)
    BY <2>2, <2>4
  <2> QED
    BY <1>1, <1>9, <1>11, <2>5 DEF AddToSum, Handle, Entries
<1>12. CASE CacheLine
  <2>1. cache' \in Seq(Lines)
    BY <1>1, <1>9, <1>12 DEF CacheLine
  <2>2. qov' \in 0 .. 3
    BY <1>1, <1>9, <1>12, QualityType DEF CacheLine, Lines
  <2> QED
    BY <1>1, <1>9, <1>12, <2>1, <2>2 DEF CacheLine, Handle
<1>13. CASE FlushCache
  <2>1. report.step \in Nat
    BY <1>9, <1>13, Constants DEF FlushCache
  <2>2. cacheTime' \in Nat
    <3>1. cacheTime' = EntryEnd /\ cacheTime \in Nat
      BY <1>1, <1>13, Zenon DEF FlushCache
    <3> QED
      BY <2>1, <3>1, SMTT(30) DEF EntryEnd
  <2>3. cache' \in Seq(Lines) /\ qov' \in 0 .. 3 /\ named' = FALSE
    BY <1>9, <1>13 DEF FlushCache, Lines
  <2>4. result' \in Seq(Entries)
    <3>1. Entry(cacheTime, cache, qov) \in Entries
      BY <1>1, EntryType
    <3> QED
      BY <1>1, <1>13, <3>1 DEF FlushCache, Entries
  <2> QED
    BY <1>1, <1>9, <1>13, <2>2, <2>3, <2>4 DEF FlushCache, Handle, Entries
<1>14. CASE HandleEnd
  <2>1. Entry(cacheTime, cache, qov) \in Entries
    BY <1>1, EntryType
  <2>2. result' \in Seq(Entries)
    <3>1. result \in Seq(Entries)
      BY <1>1 DEF Entries
    <3>2. Append(result, Entry(cacheTime, cache, qov)) \in Seq(Entries)
      BY <2>1, <3>1
    <3>3. result' \in {Append(result, Entry(cacheTime, cache, qov)), result}
      BY <1>14 DEF HandleEnd
    <3> QED
      BY <3>1, <3>2, <3>3
  <2> QED
    BY <1>1, <1>14, <2>2 DEF HandleEnd, Entries
<1>15. CASE Panics
  BY <1>1, <1>15 DEF Panics
<1>16. CASE UNCHANGED vars
  BY <1>1, <1>16 DEF vars
<1> QED
  BY <1>3, <1>4, <1>5, <1>6, <1>7, <1>8, <1>10, <1>11, <1>12, <1>13, <1>14, <1>15, <1>16
  DEF Next, Import, Query

(* The types of a query, which never reads a row without a line or a       *)
(* report it was not given (HandleStart, HandleLine and HandleEnd).        *)
THEOREM QueryTypeCorrect == Spec => []TypeOK
<1>1. Typed => TypeOK
  BY DEF Typed
<1> QED
  BY <1>1, TypedInit, TypedNext, PTL DEF Spec

-----------------------------------------------------------------------------
(* The lines of a pass are the consecutive rows of the period.             *)

(* A line is real when the database has its row; the zeros are as late as  *)
(* the time zone is east.                                                  *)
GoodLines ==
  {l \in Lines : /\ l.real <=> l.row \in rows
                 /\ l.at = IF l.real THEN l.row ELSE l.row + shift}

GoodEntries == [time : Nat, lines : Seq(GoodLines), qov : 0 .. 3]

(* The first row that was not handed to the report.                        *)
Handed == IF pt = None THEN Least(rows) ELSE pt + 1 - Len(todo)

(* What is read and not handed on ends at the row read last.               *)
Ahead ==
  /\ todo \in Seq(GoodLines)
  /\ pt = None => todo = <<>>
  /\ pt # None => pt \in rows
  /\ Handed \in Nat /\ Least(rows) <= Handed
  /\ \A i \in 1 .. Len(todo) : todo[i].row = Handed + i - 1

Behind == cache \in Seq(GoodLines) /\ result \in Seq(GoodEntries)

RowsIn(ls) == {ls[i].row : i \in {j \in DOMAIN ls : ls[j].real}}

(* A report has every row that was handed to it, in its result or cache.   *)
Covered == {t \in rows : t < Handed} = Reported \cup RowsIn(cache)

(* They are in order, and the cache has the last.                          *)
InOrder ==
  /\ Ascending
  /\ \A i \in DOMAIN result : \A k \in DOMAIN result[i].lines :
       /\ result[i].lines[k].row < Handed
       /\ \A l \in DOMAIN cache : result[i].lines[k].row < cache[l].row
  /\ \A l \in DOMAIN cache : cache[l].row < Handed
  /\ \A k, l \in DOMAIN cache : k < l => cache[k].row < cache[l].row

(* A report without a cache does not use it, a sum is one entry, and a     *)
(* cache without an Id has at most one line, which ended the last entry.   *)
CacheUse ==
  /\ ~ Cached => cache = <<>>
  /\ report.kind = "summary" => Len(result) <= 1
  /\ Cached /\ ~ named => \/ Handed = Least(rows)
                          \/ /\ Len(cache) = 1 /\ cache[1].row = Handed - 1
                             /\ result # <<>> /\ cacheTime <= cache[1].at

(* The line that Handle hands to the report.                               *)
LEMMA Handing ==
  ASSUME Typed, phase = "lines", Ahead, Handle
  PROVE  /\ line \in GoodLines /\ line.row = Handed
         /\ Handed' = Handed + 1 /\ Ahead'
         /\ GoodLines' = GoodLines /\ rows' = rows /\ report' = report /\ shift' = shift
<1>1. /\ rows \subseteq Rows /\ rows # {} /\ todo \in Seq(Lines) /\ todo # <<>>
      /\ pt # None /\ pt \in rows
  BY SMTT(30) DEF Typed, TypeOK, Begun, Handle, Ahead
<1>2. rows' = rows /\ shift' = shift /\ pt' = pt /\ todo' = Tail(todo) /\ report' = report
  BY DEF Handle, database, reading
<1>3. GoodLines' = GoodLines /\ Least(rows)' = Least(rows)
  BY <1>2 DEF GoodLines
<1>4. PICK n \in Nat \ {0} : n = Len(todo)
  BY <1>1, HeadAndTail
<1>5. /\ Tail(todo) \in Seq(Lines) /\ Len(Tail(todo)) = n - 1 /\ line = todo[1]
      /\ \A i \in 1 .. n - 1 : Tail(todo)[i] = todo[i + 1]
  BY <1>1, <1>4, HeadAndTail
<1>6. PICK G : G = GoodLines
  OBVIOUS
<1>7. todo \in Seq(G)
  BY <1>6 DEF Ahead
<1>8. Tail(todo) \in Seq(G) /\ line \in G
  BY <1>1, <1>4, <1>5, <1>7
<1>9. PICK p \in Nat : p = pt
  BY <1>1, Constants
<1>10. Handed = p + 1 - n /\ Handed \in Nat /\ Least(rows) <= Handed
  BY <1>1, <1>4, <1>9 DEF Handed, Ahead
<1>11. Handed' = p + 1 - (n - 1)
  <2>1. Handed' = IF pt' = None THEN Least(rows') ELSE pt' + 1 - Len(todo')
    BY DEF Handed
  <2> QED
    BY <1>1, <1>2, <1>5, <1>9, <2>1
<1>12. \A i \in 1 .. n : todo[i].row = p + 1 - n + i - 1
  BY <1>4, <1>10 DEF Ahead
<1>13. line.row = Handed
  <2>1. todo[1].row = p + 1 - n + 1 - 1
    BY <1>12
  <2> QED
    BY <1>5, <1>10, <2>1
<1>14. \A i \in 1 .. n - 1 : Tail(todo)[i].row = p + 1 - (n - 1) + i - 1
  <2> SUFFICES ASSUME NEW i \in 1 .. n - 1
               PROVE  Tail(todo)[i].row = p + 1 - (n - 1) + i - 1
    OBVIOUS
  <2>1. i + 1 \in 1 .. n
    OBVIOUS
  <2>2. todo[i + 1].row = p + 1 - n + (i + 1) - 1
    BY <1>12, <2>1
  <2> QED
    BY <1>5, <2>2
<1>15. Handed' = Handed + 1 /\ Handed' \in Nat /\ Least(rows) <= Handed'
  <2>1. Least(rows) \in Nat
    BY <1>1, LeastRow
  <2> QED
    BY <1>10, <1>11, <2>1
<1>16. Ahead'
  <2>1. todo' \in Seq(GoodLines')
    BY <1>2, <1>3, <1>6, <1>8
  <2>2. \A i \in 1 .. Len(todo') : todo'[i].row = Handed' + i - 1
    BY <1>2, <1>5, <1>11, <1>14
  <2> QED
    BY <1>1, <1>2, <1>3, <1>15, <2>1, <2>2 DEF Ahead
<1> QED
  BY <1>2, <1>3, <1>6, <1>8, <1>13, <1>15, <1>16

(* A row of the database, and zeros before it in the place of the missing  *)
(* rows.                                                                   *)
LEMMA Reading ==
  ASSUME Typed, Ahead, NextRow
  PROVE  Ahead' /\ Handed' = Handed /\ GoodLines' = GoodLines /\ rows' = rows
<1> DEFINE t == Least(Unread)
<1>1. rows \subseteq Rows /\ rows # {} /\ shift \in Nat
  BY Constants DEF Typed, TypeOK, Begun, NextRow
<1>2. Unread # {} /\ todo = <<>> /\ rows' = rows /\ shift' = shift /\ pt' = t
  BY DEF NextRow, database
<1>3. todo' = Append(IF pt = None THEN <<>> ELSE ZeroLines(pt, t), Line(t))
  BY DEF NextRow
<1>4. GoodLines' = GoodLines /\ Least(rows)' = Least(rows)
  BY <1>2 DEF GoodLines
<1>5. /\ t \in rows /\ t \in Rows /\ t \in Nat /\ t # None
      /\ \A u \in rows : u < t => pt # None /\ ~ (u > pt)
      /\ pt # None => t > pt
  BY <1>1, <1>2, UnreadRow, Constants
<1>6. Least(rows) \in rows /\ Least(rows) \in Nat /\ \A y \in rows : y \in Nat /\ Least(rows) <= y
  BY <1>1, LeastRow
<1> HIDE DEF t
<1>7. Line(t) \in GoodLines /\ Line(t).row = t
  <2>1. Line(t) \in Lines
    BY <1>5, LineType
  <2>2. Line(t).real = TRUE /\ Line(t).row = t /\ Line(t).at = t
    BY DEF Line
  <2> QED
    BY <1>5, <2>1, <2>2, Zenon DEF GoodLines
<1>8. CASE pt = None
  <2>1. t = Least(rows)
    <3>1. ~ (Least(rows) < t)
      BY <1>5, <1>6, <1>8
    <3> QED
      BY <1>5, <1>6, <3>1
  <2>2. todo' = <<Line(t)>>
    BY <1>3, <1>8
  <2>3. Len(todo') = 1 /\ todo'[1] = Line(t)
    BY <2>2
  <2>4. todo' \in Seq(GoodLines')
    <3>1. PICK G : G = GoodLines
      OBVIOUS
    <3>2. Line(t) \in G
      BY <1>7, <3>1
    <3>3. todo' \in Seq(G)
      BY <2>2, <3>2
    <3> QED
      BY <1>4, <3>1, <3>3
  <2>5. Handed' = t
    <3>1. Handed' = IF pt' = None THEN Least(rows') ELSE pt' + 1 - Len(todo')
      BY DEF Handed
    <3> QED
      BY <1>2, <1>5, <2>3, <3>1
  <2>6. Handed = t
    BY <1>8, <2>1 DEF Handed
  <2>7. \A i \in 1 .. Len(todo') : todo'[i].row = Handed' + i - 1
    <3>1. \A i \in 1 .. Len(todo') : i = 1
      BY <2>3
    <3> QED
      BY <1>5, <1>7, <2>3, <2>5, <3>1
  <2>8. Handed' \in Nat /\ Least(rows)' <= Handed' /\ pt' # None /\ pt' \in rows'
    BY <1>2, <1>4, <1>5, <2>1, <2>5
  <2> QED
    BY <1>2, <1>4, <2>4, <2>5, <2>6, <2>7, <2>8 DEF Ahead
<1>9. CASE pt # None
  <2>1. PICK p \in Rows : p = pt /\ p \in rows /\ p \in Nat /\ p < t
    <3>1. pt \in rows /\ pt \in Rows /\ pt \in Nat /\ t > pt
      BY <1>1, <1>5, <1>6, <1>9 DEF Ahead
    <3> QED
      BY <1>5, <3>1
  <2> DEFINE n == t - p - 1
             zeros == ZeroLines(p, t)
  <2>2. /\ zeros \in Seq(Lines) /\ Len(zeros) = n /\ n \in Nat
        /\ \A i \in 1 .. n : zeros[i] = ZeroLine(p + i) /\ p + i \in Rows
    <3>1. n \in Nat
      BY <1>5, <2>1
    <3>2. /\ ZeroLines(p, t) \in Seq(Lines) /\ Len(ZeroLines(p, t)) = t - p - 1
          /\ \A i \in 1 .. t - p - 1 : ZeroLines(p, t)[i] = ZeroLine(p + i) /\ p + i \in Rows
      BY <1>1, <1>5, <2>1, ZeroLinesType, Zenon
    <3> QED
      BY <3>1, <3>2, Zenon
  <2>3. \A i \in 1 .. n : zeros[i] \in GoodLines /\ zeros[i].row = p + i
    <3> SUFFICES ASSUME NEW i \in 1 .. n
                 PROVE  zeros[i] \in GoodLines /\ zeros[i].row = p + i
      OBVIOUS
    <3>1. PICK z \in Rows : z = p + i /\ zeros[i] = ZeroLine(z)
      BY <2>2
    <3>2. z \notin rows
      <4>1. z \in Nat /\ z < t /\ z > p
        BY <1>5, <2>1, <3>1
      <4> QED
        BY <1>5, <2>1, <4>1
    <3>3. ZeroLine(z) \in Lines
      BY <1>1, ZeroLineType
    <3>4. ZeroLine(z).real = FALSE /\ ZeroLine(z).row = z /\ ZeroLine(z).at = z + shift
      BY DEF ZeroLine
    <3>5. ZeroLine(z) \in GoodLines
      <4>1. ZeroLine(z).real <=> ZeroLine(z).row \in rows
        BY <3>2, <3>4
      <4>2. ZeroLine(z).at = IF ZeroLine(z).real THEN ZeroLine(z).row ELSE ZeroLine(z).row + shift
        BY <3>4
      <4> QED
        BY <3>3, <4>1, <4>2, Zenon DEF GoodLines
    <3> QED
      BY <3>1, <3>4, <3>5
  <2>4. todo' = Append(zeros, Line(t))
    BY <1>3, <1>9, <2>1
  <2> HIDE DEF zeros
  <2>5. PICK G : G = GoodLines
    OBVIOUS
  <2>6. zeros \in Seq(G)
    <3>1. zeros \in [1 .. Len(zeros) -> Lines] /\ Len(zeros) = n /\ DOMAIN zeros = 1 .. n
      BY <2>2
    <3>2. zeros \in [1 .. n -> G]
      BY <2>3, <2>5, <3>1
    <3> QED
      BY <2>2, <3>2
  <2>7. /\ todo' \in Seq(G) /\ Len(todo') = n + 1 /\ todo'[n + 1] = Line(t)
        /\ \A i \in 1 .. n : todo'[i] = zeros[i]
    BY <1>7, <2>2, <2>4, <2>5, <2>6
  <2>8. Handed' = p + 1
    <3>1. Handed' = IF pt' = None THEN Least(rows') ELSE pt' + 1 - Len(todo')
      BY DEF Handed
    <3> QED
      BY <1>2, <1>5, <2>1, <2>7, <3>1
  <2>9. Handed = p + 1
    <3>1. Len(todo) = 0
      BY <1>2
    <3> QED
      BY <1>9, <2>1, <3>1 DEF Handed
  <2>10. \A i \in 1 .. Len(todo') : todo'[i].row = Handed' + i - 1
    <3> SUFFICES ASSUME NEW i \in 1 .. n + 1
                 PROVE  todo'[i].row = p + i
      BY <2>1, <2>7, <2>8
    <3>1. CASE i \in 1 .. n
      BY <2>3, <2>7, <3>1
    <3>2. CASE i = n + 1
      <4>1. p + (n + 1) = t
        BY <1>5, <2>1
      <4> QED
        BY <1>7, <2>7, <3>2, <4>1
    <3> QED
      BY <2>2, <3>1, <3>2
  <2>11. Least(rows)' = Least(rows) /\ Least(rows) <= p + 1 /\ p + 1 \in Nat
    BY <1>4, <1>6, <2>1
  <2>12. todo' \in Seq(GoodLines')
    BY <1>4, <2>5, <2>7
  <2> QED
    BY <1>2, <1>4, <1>5, <2>8, <2>9, <2>10, <2>11, <2>12 DEF Ahead
<1> QED
  BY <1>8, <1>9

-----------------------------------------------------------------------------
(* The rows in a report.                                                   *)

LEMMA RowsInAppend ==
  ASSUME NEW ls \in Seq(Lines), NEW l \in Lines
  PROVE  RowsIn(Append(ls, l)) = RowsIn(ls) \cup (IF l.real THEN {l.row} ELSE {})
<1> DEFINE a == Append(ls, l)
           n == Len(ls)
<1>1. /\ n \in Nat /\ DOMAIN ls = 1 .. n /\ DOMAIN a = 1 .. n + 1
      /\ a[n + 1] = l /\ \A i \in 1 .. n : a[i] = ls[i]
  OBVIOUS
<1> HIDE DEF a, n
<1>2. ASSUME NEW t
      PROVE  t \in RowsIn(a) <=> \E i \in 1 .. n + 1 : a[i].real /\ a[i].row = t
  BY <1>1 DEF RowsIn
<1>3. ASSUME NEW t
      PROVE  t \in RowsIn(ls) <=> \E i \in 1 .. n : ls[i].real /\ ls[i].row = t
  BY <1>1 DEF RowsIn
<1>4. /\ n + 1 \in 1 .. n + 1 /\ \A i \in 1 .. n : i \in 1 .. n + 1
      /\ \A i \in 1 .. n + 1 : i \in 1 .. n \/ i = n + 1
  BY <1>1
<1>5. ASSUME NEW t
      PROVE  t \in RowsIn(a) <=> t \in RowsIn(ls) \/ (l.real /\ l.row = t)
  <2>1. (\E i \in 1 .. n + 1 : a[i].real /\ a[i].row = t)
          <=> (\E i \in 1 .. n : a[i].real /\ a[i].row = t) \/ (a[n + 1].real /\ a[n + 1].row = t)
    BY <1>4, Zenon
  <2>2. (\E i \in 1 .. n : a[i].real /\ a[i].row = t)
          <=> \E i \in 1 .. n : ls[i].real /\ ls[i].row = t
    BY <1>1, Zenon
  <2> QED
    BY <1>1, <1>2, <1>3, <2>1, <2>2, Zenon
<1>6. RowsIn(a) = RowsIn(ls) \cup (IF l.real THEN {l.row} ELSE {})
  BY <1>5
<1> QED
  BY <1>6 DEF a

LEMMA RowsInOne ==
  ASSUME NEW l \in Lines
  PROVE  /\ RowsIn(<<>>) = {}
         /\ RowsIn(<<l>>) = IF l.real THEN {l.row} ELSE {}
<1>1. RowsIn(<<>>) = {}
  BY DEF RowsIn
<1>2. Append(<<>>, l) = <<l>> /\ <<>> \in Seq(Lines)
  OBVIOUS
<1>3. RowsIn(Append(<<>>, l)) = RowsIn(<<>>) \cup (IF l.real THEN {l.row} ELSE {})
  BY <1>2, RowsInAppend
<1> QED
  BY <1>1, <1>2, <1>3

(* What an entry adds to a result.                                         *)
LEMMA AppendEntry ==
  ASSUME result \in Seq(Entries), NEW e \in Entries, result' = Append(result, e)
  PROVE  /\ Len(result) \in Nat /\ DOMAIN result = 1 .. Len(result)
         /\ DOMAIN result' = 1 .. Len(result) + 1 /\ Len(result') = Len(result) + 1
         /\ \A i \in 1 .. Len(result) : result'[i] = result[i]
         /\ result'[Len(result) + 1] = e
         /\ \A i \in DOMAIN result' : i \in DOMAIN result \/ i = Len(result) + 1
  OBVIOUS

LEMMA ReportedAppend ==
  ASSUME result \in Seq(Entries), NEW e \in Entries, result' = Append(result, e)
  PROVE  Reported' = Reported \cup RowsIn(e.lines)
<1> DEFINE n == Len(result)
<1>1. /\ n \in Nat /\ DOMAIN result = 1 .. n /\ DOMAIN result' = 1 .. n + 1
      /\ \A i \in 1 .. n : result'[i] = result[i]
      /\ result'[n + 1] = e
  BY AppendEntry
<1> HIDE DEF n
<1>2. Reported' = UNION {RealRows(result'[i]) : i \in 1 .. n + 1}
  BY <1>1 DEF Reported, RealRows
<1>3. Reported = UNION {RealRows(result[i]) : i \in 1 .. n}
  BY <1>1 DEF Reported
<1>4. RealRows(e) = RowsIn(e.lines)
  BY DEF RealRows, RowsIn
<1>5. /\ n + 1 \in 1 .. n + 1 /\ \A i \in 1 .. n : i \in 1 .. n + 1
      /\ \A i \in 1 .. n + 1 : i \in 1 .. n \/ i = n + 1
  BY <1>1
<1>6. ASSUME NEW t
      PROVE  t \in Reported' <=> \E i \in 1 .. n + 1 : t \in RealRows(result'[i])
  BY <1>2
<1>7. ASSUME NEW t
      PROVE  t \in Reported <=> \E i \in 1 .. n : t \in RealRows(result[i])
  BY <1>3
<1>8. ASSUME NEW t
      PROVE  t \in Reported' <=> t \in Reported \/ t \in RowsIn(e.lines)
  <2>1. (\E i \in 1 .. n + 1 : t \in RealRows(result'[i]))
          <=> (\E i \in 1 .. n : t \in RealRows(result'[i])) \/ t \in RealRows(result'[n + 1])
    BY <1>5, Zenon
  <2>2. (\E i \in 1 .. n : t \in RealRows(result'[i])) <=> \E i \in 1 .. n : t \in RealRows(result[i])
    BY <1>1, Zenon
  <2> QED
    BY <1>1, <1>4, <1>6, <1>7, <2>1, <2>2, Zenon
<1> QED
  BY <1>8

(* An entry in order, of later rows, keeps the order.                      *)
LEMMA AscendingAppend ==
  ASSUME result \in Seq(Entries), NEW e \in Entries, result' = Append(result, e),
         Ascending,
         \A k, l \in DOMAIN e.lines : k < l => e.lines[k].row < e.lines[l].row,
         \A i \in DOMAIN result : \A k \in DOMAIN result[i].lines, l \in DOMAIN e.lines :
           result[i].lines[k].row < e.lines[l].row
  PROVE  Ascending'
<1> DEFINE n == Len(result)
<1>1. /\ n \in Nat /\ DOMAIN result = 1 .. n /\ DOMAIN result' = 1 .. n + 1
      /\ \A i \in 1 .. n : result'[i] = result[i]
      /\ result'[n + 1] = e
  BY AppendEntry
<1> HIDE DEF n
<1>2. SUFFICES ASSUME NEW i \in 1 .. n + 1, NEW j \in 1 .. n + 1,
                      NEW k \in DOMAIN result'[i].lines, NEW l \in DOMAIN result'[j].lines,
                      i < j \/ (i = j /\ k < l)
               PROVE  result'[i].lines[k].row < result'[j].lines[l].row
  BY <1>1 DEF Ascending
<1>3. CASE j \in 1 .. n
  <2>1. i \in 1 .. n
    BY <1>1, <1>2, <1>3
  <2> QED
    BY <1>1, <1>2, <1>3, <2>1 DEF Ascending
<1>4. CASE j = n + 1 /\ i \in 1 .. n
  BY <1>1, <1>4
<1>5. CASE j = n + 1 /\ i = n + 1
  <2>1. k < l
    BY <1>1, <1>2, <1>5
  <2> QED
    BY <1>1, <1>5, <2>1
<1> QED
  BY <1>1, <1>3, <1>4, <1>5

-----------------------------------------------------------------------------
(* Every row handed to a report is in it, in order.                        *)

Pass == Ahead /\ Behind /\ Covered /\ InOrder /\ CacheUse

LEMMA GoodTypes ==
  /\ GoodLines \subseteq Lines /\ GoodEntries \subseteq Entries
  /\ \A s \in Seq(GoodLines) : s \in Seq(Lines)
<1>1. GoodLines \subseteq Lines
  BY DEF GoodLines
<1>2. \A s \in Seq(GoodLines) : s \in Seq(Lines)
  <2>1. PICK G : G = GoodLines
    OBVIOUS
  <2>2. \A s \in Seq(G) : s \in Seq(Lines)
    BY <1>1, <2>1
  <2> QED
    BY <2>1, <2>2
<1> QED
  BY <1>1, <1>2 DEF GoodEntries, Entries

LEMMA GoodEntry ==
  ASSUME NEW t \in Nat, NEW ls \in Seq(GoodLines), NEW q \in 0 .. 3
  PROVE  /\ Entry(t, ls, q) \in GoodEntries
         /\ Entry(t, ls, q).time = t /\ Entry(t, ls, q).lines = ls
         /\ Entry(t, ls, q).qov = CalcQoV(Neutral, q)
<1>1. ls \in Seq(Lines)
  BY GoodTypes
<1>2. Entry(t, ls, q) \in Entries /\ Entry(t, ls, q).time = t /\ Entry(t, ls, q).lines = ls
      /\ Entry(t, ls, q).qov = CalcQoV(Neutral, q)
  BY <1>1, EntryType
<1> QED
  BY <1>2 DEF Entry, Entries, GoodEntries

(* What an entry means that is added to the result.                        *)
LEMMA GoodAppend ==
  ASSUME result \in Seq(GoodEntries), NEW e \in GoodEntries, result' = Append(result, e),
         GoodLines' = GoodLines
  PROVE  result' \in Seq(GoodEntries')
<1>1. GoodEntries' = GoodEntries
  BY DEF GoodEntries
<1>2. PICK G : G = GoodEntries
  OBVIOUS
<1>3. result' \in Seq(G)
  BY <1>2
<1> QED
  BY <1>1, <1>2, <1>3

(* A line is a row of the database or stands for a missing one.            *)
LEMMA HandedOn ==
  ASSUME Typed, phase = "lines", Ahead, Handle
  PROVE  {t \in rows : t < Handed + 1}
           = {t \in rows : t < Handed} \cup (IF line.real THEN {line.row} ELSE {})
<1>1. rows \subseteq Nat
  BY Constants DEF Typed, TypeOK
<1>2. PICK h \in Nat : h = Handed
  BY DEF Ahead
<1>3. line \in GoodLines /\ line.row = h
  BY <1>2, Handing
<1>4. line.real <=> h \in rows
  BY <1>3 DEF GoodLines
<1>5. {t \in rows : t < h + 1} = {t \in rows : t < h} \cup {t \in rows : t = h}
  <2>1. \A t \in rows : t < h + 1 <=> t < h \/ t = h
    BY <1>1, <1>2
  <2> QED
    BY <2>1, Zenon
<1>6. {t \in rows : t = h} = IF line.real THEN {line.row} ELSE {}
  BY <1>3, <1>4
<1> QED
  BY <1>2, <1>5, <1>6

(* What the report is given is the next row.                               *)
LEMMA NextLine ==
  ASSUME Typed, phase = "lines", Pass, Handle
  PROVE  /\ line \in Lines /\ line \in GoodLines /\ line.row = Handed /\ line.at \in Nat
         /\ line.qov \in 0 .. 3 /\ <<line>> \in Seq(GoodLines)
         /\ Handed \in Nat /\ Handed' = Handed + 1 /\ Ahead'
         /\ GoodLines' = GoodLines /\ rows' = rows /\ report' = report /\ shift' = shift
         /\ report \in Reports /\ Neutral' = Neutral
         /\ result \in Seq(Entries) /\ cache \in Seq(Lines) /\ cacheTime \in Nat /\ qov \in 0 .. 3
         /\ result \in Seq(GoodEntries) /\ cache \in Seq(GoodLines)
<1>1. /\ line \in GoodLines /\ line.row = Handed /\ Handed' = Handed + 1 /\ Ahead'
      /\ GoodLines' = GoodLines /\ rows' = rows /\ report' = report /\ shift' = shift
  BY Handing DEF Pass
<1>2. line \in Lines /\ line.at \in Nat /\ line.qov \in 0 .. 3
  <2>1. line \in Lines
    BY <1>1, GoodTypes
  <2> QED
    BY <2>1 DEF Lines
<1>3. <<line>> \in Seq(GoodLines)
  <2>1. PICK G : G = GoodLines
    OBVIOUS
  <2>2. <<line>> \in Seq(G)
    BY <1>1, <2>1
  <2> QED
    BY <2>1, <2>2
<1>4. report \in Reports /\ cacheTime \in Nat /\ cache \in Seq(Lines) /\ result \in Seq(Entries)
  BY DEF Typed, Begun, TypeOK, Entries
<1>5. qov \in 0 .. 3
  BY DEF Typed, TypeOK
<1>6. Handed \in Nat /\ result \in Seq(GoodEntries) /\ cache \in Seq(GoodLines)
  BY DEF Pass, Ahead, Behind
<1>7. Neutral' = Neutral
  BY <1>1 DEF Neutral
<1> QED
  BY <1>1, <1>2, <1>3, <1>4, <1>5, <1>6, <1>7

(* The rows of a result that an entry is added to.                         *)
LEMMA RowsBelow ==
  ASSUME result \in Seq(Entries), NEW e \in Entries, result' = Append(result, e),
         NEW h \in Nat,
         \A i \in DOMAIN result : \A k \in DOMAIN result[i].lines : result[i].lines[k].row < h,
         \A k \in DOMAIN e.lines : e.lines[k].row < h + 1
  PROVE  \A i \in DOMAIN result' : \A k \in DOMAIN result'[i].lines :
           result'[i].lines[k].row < h + 1
<1> SUFFICES ASSUME NEW i \in DOMAIN result', NEW k \in DOMAIN result'[i].lines
             PROVE  result'[i].lines[k].row < h + 1
  OBVIOUS
<1>1. CASE i \in DOMAIN result
  <2>1. result'[i] = result[i] /\ result[i] \in Entries
    BY <1>1, AppendEntry
  <2>2. result[i].lines \in Seq(Lines) /\ k \in DOMAIN result[i].lines
    BY <2>1 DEF Entries
  <2>3. result[i].lines[k] \in Lines
    BY <2>2
  <2>4. result[i].lines[k].row \in Nat
    BY <2>3, Constants DEF Lines
  <2>5. result[i].lines[k].row < h
    BY <1>1, <2>2
  <2>6. result[i].lines[k].row < h + 1
    BY <2>4, <2>5
  <2> QED
    BY <2>1, <2>6
<1>2. CASE i = Len(result) + 1
  <2>1. result'[i] = e
    BY <1>2, AppendEntry
  <2> QED
    BY <2>1
<1> QED
  BY <1>1, <1>2, AppendEntry

(* A report without a cache has an entry for the line (AddTo the result).  *)
LEMMA PassAddLine ==
  ASSUME Typed, phase = "lines", Pass, AddLine
  PROVE  Pass'
<1> DEFINE e == Entry(line.at, <<line>>, line.qov)
<1>1. Handle /\ ~ Cached /\ report.kind # "summary" /\ result' = Append(result, e)
      /\ cache' = cache /\ named' = named
  BY DEF AddLine, caching
<1>2. /\ line \in Lines /\ line.row = Handed /\ Handed \in Nat /\ Handed' = Handed + 1 /\ Ahead'
      /\ GoodLines' = GoodLines /\ rows' = rows /\ report' = report
      /\ result \in Seq(Entries) /\ result \in Seq(GoodEntries) /\ cache \in Seq(GoodLines)
  BY <1>1, NextLine
<1>3. e \in GoodEntries /\ e.lines = <<line>> /\ e \in Entries
  <2>1. line.at \in Nat /\ <<line>> \in Seq(GoodLines) /\ line.qov \in 0 .. 3
    BY <1>1, NextLine
  <2>2. PICK ls \in Seq(GoodLines), t \in Nat, q \in 0 .. 3 :
          ls = <<line>> /\ t = line.at /\ q = line.qov
    BY <2>1, Zenon
  <2>3. Entry(t, ls, q) \in GoodEntries /\ Entry(t, ls, q).lines = ls
    BY GoodEntry
  <2>4. e \in GoodEntries /\ e.lines = <<line>>
    BY <2>2, <2>3, Zenon
  <2> HIDE DEF e
  <2> QED
    BY <2>4, GoodTypes
<1>4. cache = <<>>
  BY <1>1 DEF Pass, CacheUse
<1> HIDE DEF e
<1>5. Behind'
  <2>1. result' \in Seq(GoodEntries')
    BY <1>1, <1>2, <1>3, GoodAppend
  <2>2. cache' \in Seq(GoodLines')
    BY <1>1, <1>2
  <2> QED
    BY <2>1, <2>2 DEF Behind
<1>6. Covered'
  <2>1. Reported' = Reported \cup RowsIn(<<line>>)
    BY <1>1, <1>2, <1>3, ReportedAppend
  <2>2. RowsIn(<<line>>) = IF line.real THEN {line.row} ELSE {}
    BY <1>2, RowsInOne
  <2>3. {t \in rows : t < Handed + 1}
          = {t \in rows : t < Handed} \cup (IF line.real THEN {line.row} ELSE {})
    BY <1>1, HandedOn DEF Pass
  <2>4. {t \in rows : t < Handed} = Reported \cup RowsIn(cache)
    BY DEF Pass, Covered
  <2>5. {t \in rows' : t < Handed'} = {t \in rows : t < Handed + 1}
    BY <1>2
  <2> QED
    BY <1>1, <2>1, <2>2, <2>3, <2>4, <2>5 DEF Covered
<1>7. InOrder'
  <2>1. Len(<<line>>) = 1 /\ <<line>>[1] = line /\ DOMAIN <<line>> = {1}
    OBVIOUS
  <2>2. \A k, l \in DOMAIN e.lines : k < l => e.lines[k].row < e.lines[l].row
    BY <1>3, <2>1
  <2>3. \A i \in DOMAIN result : \A k \in DOMAIN result[i].lines : result[i].lines[k].row < Handed
    BY DEF Pass, InOrder
  <2>4. \A l \in DOMAIN e.lines : e.lines[l].row = Handed
    BY <1>2, <1>3, <2>1
  <2>5. Ascending'
    BY <1>1, <1>2, <1>3, <2>2, <2>3, <2>4, AscendingAppend DEF Pass, InOrder
  <2>6. \A i \in DOMAIN result' : \A k \in DOMAIN result'[i].lines : result'[i].lines[k].row < Handed + 1
    <3>1. \A k \in DOMAIN e.lines : e.lines[k].row < Handed + 1
      BY <1>2, <2>4
    <3> QED
      BY <1>1, <1>2, <1>3, <2>3, <3>1, RowsBelow
  <2> QED
    BY <1>1, <1>2, <1>4, <2>5, <2>6 DEF InOrder
<1>8. CacheUse'
  BY <1>1, <1>2, <1>4 DEF CacheUse, Cached
<1> QED
  BY <1>2, <1>5, <1>6, <1>7, <1>8 DEF Pass

(* The sum is one entry, of every line.                                    *)
LEMMA PassAddToSum ==
  ASSUME Typed, phase = "lines", Pass, AddToSum
  PROVE  Pass'
<1>1. Handle /\ report.kind = "summary" /\ cache' = cache /\ named' = named
  BY DEF AddToSum, caching
<1>2. /\ line \in Lines /\ line \in GoodLines /\ line.row = Handed /\ Handed \in Nat
      /\ Handed' = Handed + 1 /\ Ahead' /\ GoodLines' = GoodLines /\ rows' = rows
      /\ report' = report /\ report \in Reports
      /\ result \in Seq(Entries) /\ result \in Seq(GoodEntries) /\ cache \in Seq(GoodLines)
  BY <1>1, NextLine
<1>3. ~ Cached /\ cache = <<>> /\ Len(result) <= 1
  <2>1. ~ Cached
    BY <1>1, <1>2, Constants DEF Cached
  <2> QED
    BY <1>1, <2>1 DEF Pass, CacheUse
<1>4. PICK sum \in GoodEntries :
        /\ sum = IF result = <<>> THEN Entry(0, <<>>, 1) ELSE result[1]
        /\ result = <<>> => sum.lines = <<>>
        /\ result # <<>> => result[1] = sum /\ DOMAIN result = {1}
  <2>1. CASE result = <<>>
    <3>1. 0 \in Nat /\ <<>> \in Seq(GoodLines) /\ 1 \in 0 .. 3
      OBVIOUS
    <3>2. PICK t \in Nat, ls \in Seq(GoodLines), q \in 0 .. 3 : t = 0 /\ ls = <<>> /\ q = 1
      BY <3>1
    <3>3. Entry(t, ls, q) \in GoodEntries /\ Entry(t, ls, q).lines = ls
      BY GoodEntry
    <3>4. Entry(0, <<>>, 1) \in GoodEntries /\ Entry(0, <<>>, 1).lines = <<>>
      BY <3>2, <3>3, Zenon
    <3> QED
      BY <2>1, <3>4, Zenon
  <2>2. CASE result # <<>>
    <3>1. DOMAIN result = {1}
      <4>1. Len(result) \in Nat /\ Len(result) # 0 /\ DOMAIN result = 1 .. Len(result)
        BY <1>2, <2>2
      <4>2. Len(result) = 1
        BY <1>3, <4>1
      <4>3. 1 .. 1 = {1}
        OBVIOUS
      <4> QED
        BY <4>1, <4>2, <4>3
    <3>2. PICK G : G = GoodEntries
      OBVIOUS
    <3>3. result \in Seq(G)
      BY <1>2, <3>2
    <3>4. result[1] \in G
      BY <3>1, <3>3
    <3> QED
      BY <2>2, <3>1, <3>2, <3>4
  <2> QED
    BY <2>1, <2>2
<1> DEFINE e == [sum EXCEPT !.lines = Append(@, line)]
<1>5. result' = <<e>>
  BY <1>4, Zenon DEF AddToSum
<1>6. e \in GoodEntries /\ e.lines = Append(sum.lines, line) /\ sum.lines \in Seq(Lines)
  <2>1. PICK G : G = GoodLines
    OBVIOUS
  <2>2. Append(sum.lines, line) \in Seq(G) /\ sum.lines \in Seq(G)
    BY <1>2, <1>4, <2>1 DEF GoodEntries
  <2>3. sum.lines \in Seq(Lines)
    BY <2>1, <2>2, GoodTypes
  <2> QED
    BY <1>4, <2>1, <2>2, <2>3 DEF GoodEntries
<1> HIDE DEF e
<1>7. DOMAIN result' = {1} /\ result'[1] = e /\ Len(result') = 1
  BY <1>5
<1>8. Behind'
  <2>1. GoodEntries' = GoodEntries
    BY <1>2 DEF GoodEntries
  <2>2. PICK G : G = GoodEntries
    OBVIOUS
  <2>3. result' \in Seq(G)
    BY <1>5, <1>6, <2>2
  <2>4. cache' \in Seq(GoodLines')
    BY <1>1, <1>2
  <2> QED
    BY <2>1, <2>2, <2>3, <2>4 DEF Behind
<1>9. Covered'
  <2>1. Reported = RowsIn(sum.lines)
    <3>1. CASE result = <<>>
      <4>1. Reported = {}
        BY <3>1 DEF Reported
      <4> QED
        BY <1>2, <1>4, <3>1, <4>1, RowsInOne
    <3>2. CASE result # <<>>
      <4>1. Reported = RealRows(sum)
        BY <1>4, <3>2 DEF Reported
      <4> QED
        BY <4>1 DEF RealRows, RowsIn
    <3> QED
      BY <3>1, <3>2
  <2>2. Reported' = RowsIn(e.lines)
    <3>1. Reported' = RealRows(e)
      BY <1>7 DEF Reported, RealRows
    <3> QED
      BY <3>1 DEF RealRows, RowsIn
  <2>3. RowsIn(e.lines) = RowsIn(sum.lines) \cup (IF line.real THEN {line.row} ELSE {})
    BY <1>2, <1>6, RowsInAppend
  <2>4. {t \in rows : t < Handed + 1}
          = {t \in rows : t < Handed} \cup (IF line.real THEN {line.row} ELSE {})
    BY <1>1, HandedOn DEF Pass
  <2>5. {t \in rows : t < Handed} = Reported \cup RowsIn(cache)
    BY DEF Pass, Covered
  <2>6. {t \in rows' : t < Handed'} = {t \in rows : t < Handed + 1}
    BY <1>2
  <2> QED
    BY <1>1, <2>1, <2>2, <2>3, <2>4, <2>5, <2>6 DEF Covered
<1>10. InOrder'
  <2>1. PICK n \in Nat : n = Len(sum.lines)
    BY <1>6
  <2>2. /\ DOMAIN sum.lines = 1 .. n /\ DOMAIN e.lines = 1 .. n + 1
        /\ e.lines[n + 1] = line /\ \A k \in 1 .. n : e.lines[k] = sum.lines[k]
    BY <1>2, <1>6, <2>1
  <2>3. \A k \in 1 .. n : sum.lines[k].row \in Nat /\ sum.lines[k].row < Handed
    <3>1. \A k \in 1 .. n : sum.lines[k] \in Lines
      BY <1>6, <2>1
    <3>2. \A k \in 1 .. n : sum.lines[k].row \in Nat
      BY <3>1, Constants DEF Lines
    <3>3. ASSUME NEW k \in 1 .. n
          PROVE  sum.lines[k].row < Handed
      <4>1. result # <<>> /\ result[1] = sum /\ 1 \in DOMAIN result
        BY <1>4, <2>2
      <4> QED
        BY <2>2, <4>1 DEF Pass, InOrder
    <3> QED
      BY <3>2, <3>3
  <2>4. \A k, l \in 1 .. n : k < l => sum.lines[k].row < sum.lines[l].row
    <3> SUFFICES ASSUME NEW k \in 1 .. n, NEW l \in 1 .. n, k < l
                 PROVE  sum.lines[k].row < sum.lines[l].row
      OBVIOUS
    <3>1. result # <<>> /\ result[1] = sum /\ 1 \in DOMAIN result
      BY <1>4, <2>2
    <3> QED
      BY <2>2, <3>1 DEF Pass, InOrder, Ascending
  <2>5. \A k, l \in 1 .. n + 1 : k < l => e.lines[k].row < e.lines[l].row
    <3> SUFFICES ASSUME NEW k \in 1 .. n + 1, NEW l \in 1 .. n + 1, k < l
                 PROVE  e.lines[k].row < e.lines[l].row
      OBVIOUS
    <3>1. k \in 1 .. n
      BY <2>1
    <3>2. CASE l \in 1 .. n
      BY <2>2, <2>4, <3>1, <3>2
    <3>3. CASE l = n + 1
      BY <1>2, <2>2, <2>3, <3>1, <3>3
    <3> QED
      BY <2>1, <3>2, <3>3
  <2>6. \A k \in 1 .. n + 1 : e.lines[k].row < Handed + 1
    <3> SUFFICES ASSUME NEW k \in 1 .. n + 1
                 PROVE  e.lines[k].row < Handed + 1
      OBVIOUS
    <3>1. CASE k \in 1 .. n
      <4>1. e.lines[k] = sum.lines[k] /\ sum.lines[k].row \in Nat /\ sum.lines[k].row < Handed
        BY <2>2, <2>3, <3>1
      <4> QED
        BY <1>2, <4>1
    <3>2. CASE k = n + 1
      BY <1>2, <2>2, <3>2
    <3> QED
      BY <2>1, <3>1, <3>2
  <2>7. Ascending'
    BY <1>7, <2>2, <2>5 DEF Ascending
  <2>8. cache' = <<>>
    BY <1>1, <1>3
  <2> QED
    BY <1>2, <1>7, <2>2, <2>6, <2>7, <2>8 DEF InOrder
<1>11. CacheUse'
  BY <1>1, <1>2, <1>3, <1>7 DEF CacheUse, Cached
<1> QED
  BY <1>2, <1>8, <1>9, <1>10, <1>11 DEF Pass

(* A line before the end of the running entry is added to the cache.       *)
LEMMA PassCacheLine ==
  ASSUME Typed, phase = "lines", Pass, CacheLine
  PROVE  Pass'
<1>1. Handle /\ Cached /\ result' = result /\ cache' = Append(cache, line) /\ named' = TRUE
  BY DEF CacheLine
<1>2. /\ line \in Lines /\ line \in GoodLines /\ line.row = Handed /\ Handed \in Nat
      /\ Handed' = Handed + 1 /\ Ahead' /\ GoodLines' = GoodLines /\ rows' = rows
      /\ report' = report /\ report \in Reports /\ cache \in Seq(Lines)
      /\ result \in Seq(Entries) /\ result \in Seq(GoodEntries) /\ cache \in Seq(GoodLines)
  BY <1>1, NextLine
<1>3. PICK n \in Nat : n = Len(cache)
  BY <1>2
<1>4. /\ DOMAIN cache = 1 .. n /\ DOMAIN cache' = 1 .. n + 1
      /\ cache'[n + 1] = line /\ \A l \in 1 .. n : cache'[l] = cache[l]
  BY <1>1, <1>2, <1>3
<1>5. Behind'
  <2>1. GoodEntries' = GoodEntries
    BY <1>2 DEF GoodEntries
  <2>2. PICK G : G = GoodLines
    OBVIOUS
  <2>3. cache' \in Seq(G)
    BY <1>1, <1>2, <2>2
  <2> QED
    BY <1>1, <1>2, <2>1, <2>2, <2>3 DEF Behind
<1>6. Covered'
  <2>1. RowsIn(cache') = RowsIn(cache) \cup (IF line.real THEN {line.row} ELSE {})
    BY <1>1, <1>2, RowsInAppend
  <2>2. Reported' = Reported
    BY <1>1 DEF Reported, RealRows
  <2>3. {t \in rows : t < Handed + 1}
          = {t \in rows : t < Handed} \cup (IF line.real THEN {line.row} ELSE {})
    BY <1>1, HandedOn DEF Pass
  <2>4. {t \in rows : t < Handed} = Reported \cup RowsIn(cache)
    BY DEF Pass, Covered
  <2>5. {t \in rows' : t < Handed'} = {t \in rows : t < Handed + 1}
    BY <1>2
  <2> QED
    BY <2>1, <2>2, <2>3, <2>4, <2>5 DEF Covered
<1>7. InOrder'
  <2>1. \A l \in 1 .. n : cache[l].row \in Nat /\ cache[l].row < Handed
    <3>1. \A l \in 1 .. n : cache[l] \in Lines
      BY <1>2, <1>3
    <3>2. \A l \in 1 .. n : cache[l].row \in Nat
      BY <3>1, Constants DEF Lines
    <3> QED
      BY <1>4, <3>2 DEF Pass, InOrder
  <2>2. \A l \in 1 .. n + 1 : cache'[l].row < Handed + 1
    <3> SUFFICES ASSUME NEW l \in 1 .. n + 1
                 PROVE  cache'[l].row < Handed + 1
      OBVIOUS
    <3>1. CASE l \in 1 .. n
      BY <1>2, <1>4, <2>1, <3>1
    <3>2. CASE l = n + 1
      BY <1>2, <1>4, <3>2
    <3> QED
      BY <1>3, <3>1, <3>2
  <2>3. \A k, l \in 1 .. n + 1 : k < l => cache'[k].row < cache'[l].row
    <3> SUFFICES ASSUME NEW k \in 1 .. n + 1, NEW l \in 1 .. n + 1, k < l
                 PROVE  cache'[k].row < cache'[l].row
      OBVIOUS
    <3>1. k \in 1 .. n
      BY <1>3
    <3>2. CASE l \in 1 .. n
      BY <1>4, <3>1, <3>2 DEF Pass, InOrder
    <3>3. CASE l = n + 1
      BY <1>2, <1>4, <2>1, <3>1, <3>3
    <3> QED
      BY <1>3, <3>2, <3>3
  <2>4. ASSUME NEW i \in DOMAIN result, NEW k \in DOMAIN result[i].lines
        PROVE  /\ result[i].lines[k].row < Handed + 1
               /\ \A l \in 1 .. n + 1 : result[i].lines[k].row < cache'[l].row
    <3>1. result[i].lines[k].row < Handed /\ \A l \in 1 .. n : result[i].lines[k].row < cache[l].row
      BY <1>4, <2>4 DEF Pass, InOrder
    <3>2. result[i].lines[k].row \in Nat
      <4>0. result[i] \in Entries
        BY <1>2, <2>4
      <4>1. result[i].lines \in Seq(Lines)
        BY <4>0 DEF Entries
      <4>2. result[i].lines[k] \in Lines
        BY <2>4, <4>1
      <4> QED
        BY <4>2, Constants DEF Lines
    <3>3. ASSUME NEW l \in 1 .. n + 1
          PROVE  result[i].lines[k].row < cache'[l].row
      <4>1. CASE l \in 1 .. n
        BY <1>4, <3>1, <4>1
      <4>2. CASE l = n + 1
        BY <1>2, <1>4, <3>1, <4>2
      <4> QED
        BY <1>3, <4>1, <4>2
    <3> QED
      BY <1>2, <3>1, <3>2, <3>3
  <2>5. Ascending'
    BY <1>1 DEF Pass, InOrder, Ascending
  <2> QED
    BY <1>1, <1>2, <1>4, <2>2, <2>3, <2>4, <2>5 DEF InOrder
<1>8. CacheUse'
  BY <1>1, <1>2 DEF Pass, CacheUse, Cached
<1> QED
  BY <1>2, <1>5, <1>6, <1>7, <1>8 DEF Pass

(* The first line after the running entry ends it and begins the next.     *)
LEMMA PassFlushCache ==
  ASSUME Typed, phase = "lines", Pass, FlushCache
  PROVE  Pass'
<1> DEFINE e == Entry(cacheTime, cache, qov)
<1>1. Handle /\ Cached /\ result' = Append(result, e) /\ cache' = <<line>> /\ named' = FALSE
  BY DEF FlushCache
<1>2. /\ line \in Lines /\ line \in GoodLines /\ line.row = Handed /\ Handed \in Nat
      /\ Handed' = Handed + 1 /\ Ahead' /\ GoodLines' = GoodLines /\ rows' = rows
      /\ report' = report /\ report \in Reports /\ cache \in Seq(Lines)
      /\ result \in Seq(Entries) /\ result \in Seq(GoodEntries)
      /\ <<line>> \in Seq(GoodLines)
  BY <1>1, NextLine
<1>3. e \in GoodEntries /\ e.lines = cache /\ e \in Entries
  <2>1. cacheTime \in Nat /\ cache \in Seq(GoodLines) /\ qov \in 0 .. 3
    BY <1>1, NextLine
  <2>2. e \in GoodEntries /\ e.lines = cache
    BY <2>1, GoodEntry
  <2> HIDE DEF e
  <2> QED
    BY <2>2, GoodTypes
<1> HIDE DEF e
<1>4. DOMAIN cache' = {1} /\ cache'[1] = line /\ Len(cache') = 1
  BY <1>1
<1>5. Behind'
  <2>1. result' \in Seq(GoodEntries')
    BY <1>1, <1>2, <1>3, GoodAppend
  <2> QED
    BY <1>1, <1>2, <2>1 DEF Behind
<1>6. Covered'
  <2>1. Reported' = Reported \cup RowsIn(cache)
    BY <1>1, <1>2, <1>3, ReportedAppend
  <2>2. RowsIn(cache') = IF line.real THEN {line.row} ELSE {}
    BY <1>1, <1>2, RowsInOne
  <2>3. {t \in rows : t < Handed + 1}
          = {t \in rows : t < Handed} \cup (IF line.real THEN {line.row} ELSE {})
    BY <1>1, HandedOn DEF Pass
  <2>4. {t \in rows : t < Handed} = Reported \cup RowsIn(cache)
    BY DEF Pass, Covered
  <2>5. {t \in rows' : t < Handed'} = {t \in rows : t < Handed + 1}
    BY <1>2
  <2> QED
    BY <2>1, <2>2, <2>3, <2>4, <2>5 DEF Covered
<1>7. InOrder'
  <2>1. /\ \A i \in DOMAIN result : \A k \in DOMAIN result[i].lines :
             /\ result[i].lines[k].row < Handed
             /\ \A l \in DOMAIN cache : result[i].lines[k].row < cache[l].row
        /\ \A l \in DOMAIN cache : cache[l].row < Handed
        /\ \A k, l \in DOMAIN cache : k < l => cache[k].row < cache[l].row
        /\ Ascending
    BY DEF Pass, InOrder
  <2>2. Ascending'
    BY <1>1, <1>2, <1>3, <2>1, AscendingAppend
  <2>3. \A i \in DOMAIN result' : \A k \in DOMAIN result'[i].lines : result'[i].lines[k].row < Handed
    <3> SUFFICES ASSUME NEW i \in DOMAIN result', NEW k \in DOMAIN result'[i].lines
                 PROVE  result'[i].lines[k].row < Handed
      OBVIOUS
    <3>1. CASE i \in DOMAIN result
      BY <1>1, <1>2, <1>3, <2>1, <3>1, AppendEntry
    <3>2. CASE i = Len(result) + 1
      BY <1>1, <1>2, <1>3, <2>1, <3>2, AppendEntry
    <3> QED
      BY <1>1, <1>2, <1>3, <3>1, <3>2, AppendEntry
  <2>4. \A k \in DOMAIN e.lines : e.lines[k].row < Handed + 1
    <3> SUFFICES ASSUME NEW k \in DOMAIN cache PROVE cache[k].row < Handed + 1
      BY <1>3
    <3>1. cache[k] \in Lines
      BY <1>2
    <3>2. cache[k].row \in Nat /\ cache[k].row < Handed
      BY <2>1, <3>1, Constants DEF Lines
    <3> QED
      BY <1>2, <3>2
  <2>5. \A i \in DOMAIN result' : \A k \in DOMAIN result'[i].lines : result'[i].lines[k].row < Handed + 1
    BY <1>1, <1>2, <1>3, <2>1, <2>4, RowsBelow
  <2>6. line.row < Handed + 1
    BY <1>2
  <2> QED
    BY <1>2, <1>4, <2>2, <2>3, <2>5, <2>6 DEF InOrder
<1>8. CacheUse'
  <2>1. report.kind # "summary" /\ Handed = Handed' - 1
    BY <1>1, <1>2, Constants DEF Cached
  <2>2. result' # <<>>
    <3>1. Len(result) \in Nat /\ Len(result') = Len(result) + 1
      BY <1>1, <1>2, <1>3, AppendEntry
    <3> QED
      BY <3>1
  <2>3. cacheTime' <= line.at
    <3>1. cacheTime \in Nat /\ report.step \in Nat /\ line.at \in Nat
      BY <1>1, <1>2, NextLine, Constants
    <3>2. cacheTime' = cacheTime + report.step /\ ~ (line.at < cacheTime + report.step)
      BY Zenon DEF FlushCache, Before, EntryEnd
    <3> QED
      BY <3>1, <3>2
  <2> QED
    BY <1>1, <1>2, <1>4, <2>1, <2>2, <2>3 DEF CacheUse, Cached
<1> QED
  BY <1>2, <1>5, <1>6, <1>7, <1>8 DEF Pass

(* Nothing is handed when the report begins.                               *)
LEMMA PassReadMeta ==
  ASSUME Typed, NEW r \in Reports, ReadMeta(r)
  PROVE  Pass'
<1>1. /\ pt' = None /\ todo' = <<>> /\ cache' = <<>> /\ result' = <<>>
      /\ rows' = rows /\ rows # {} /\ rows \subseteq Rows /\ report' = r
  BY DEF Typed, TypeOK, Begun, ReadMeta, InitCache
<1>2. Handed' = Least(rows) /\ Least(rows)' = Least(rows)
  BY <1>1 DEF Handed
<1>3. Least(rows) \in Nat /\ \A t \in rows : t \in Nat /\ Least(rows) <= t
  BY <1>1, LeastRow
<1>4. Len(todo') = 0 /\ Len(cache') = 0 /\ DOMAIN cache' = {} /\ DOMAIN result' = {} /\ Len(result') = 0
  BY <1>1
<1>5. Ahead'
  <2>1. todo' \in Seq(GoodLines')
    <3>1. PICK G : G = GoodLines'
      OBVIOUS
    <3>2. todo' \in Seq(G)
      BY <1>1
    <3> QED
      BY <3>1, <3>2
  <2>2. \A i \in 1 .. Len(todo') : FALSE
    BY <1>4
  <2> QED
    BY <1>1, <1>2, <1>3, <2>1, <2>2 DEF Ahead
<1>6. Behind'
  <2>1. PICK G : G = GoodLines'
    OBVIOUS
  <2>2. PICK E : E = GoodEntries'
    OBVIOUS
  <2>3. cache' \in Seq(G) /\ result' \in Seq(E)
    BY <1>1
  <2> QED
    BY <2>1, <2>2, <2>3 DEF Behind
<1>7. Covered'
  <2>1. Reported' = {} /\ RowsIn(cache') = {}
    BY <1>4 DEF Reported, RealRows, RowsIn
  <2>2. {t \in rows : t < Least(rows)} = {}
    <3>1. \A t \in rows : ~ (t < Least(rows))
      BY <1>3
    <3> QED
      BY <3>1
  <2> QED
    BY <1>1, <1>2, <2>1, <2>2 DEF Covered
<1>8. InOrder'
  BY <1>4 DEF InOrder, Ascending
<1>9. CacheUse'
  BY <1>1, <1>2, <1>4 DEF CacheUse
<1> QED
  BY <1>5, <1>6, <1>7, <1>8, <1>9 DEF Pass

LEMMA PassNextRow ==
  ASSUME Typed, Pass, NextRow
  PROVE  Pass'
<1>1. Ahead' /\ Handed' = Handed /\ GoodLines' = GoodLines /\ rows' = rows
  BY Reading DEF Pass
<1>2. UNCHANGED <<cache, cacheTime, result, named, report>>
  BY DEF NextRow, caching
<1>3. Behind'
  <2>1. GoodEntries' = GoodEntries
    BY <1>1 DEF GoodEntries
  <2> QED
    BY <1>1, <1>2, <2>1 DEF Pass, Behind
<1>4. Covered'
  BY <1>1, <1>2 DEF Pass, Covered, Reported, RealRows
<1>5. InOrder'
  BY <1>1, <1>2 DEF Pass, InOrder, Ascending
<1>6. CacheUse'
  BY <1>1, <1>2 DEF Pass, CacheUse, Cached
<1> QED
  BY <1>1, <1>3, <1>4, <1>5, <1>6 DEF Pass

(* The invariant of a pass: what was handed to the report is in it.        *)
Passing == phase = "lines" => Pass

LEMMA PassingNext == Typed /\ Passing /\ [Next]_vars => Passing'
<1> SUFFICES ASSUME Typed, Passing, [Next]_vars, phase' = "lines"
             PROVE  Pass'
  BY DEF Passing
<1>1. ASSUME phase = "lines" PROVE Pass
  BY <1>1 DEF Passing
<1>2. CASE AddMeter \/ AddMeterFails \/ LoseMeters
  BY <1>2 DEF AddMeter, AddMeterFails, LoseMeters, GiveColumn, Importing
<1>3. ASSUME NEW t \in Rows, NEW column \in 1 .. MaxMeters, StoreLine(t, column)
      PROVE  FALSE
  BY <1>3 DEF StoreLine, Importing
<1>4. CASE OpenRange \/ Panics
  BY <1>4 DEF OpenRange, Panics
<1>5. ASSUME NEW r \in Reports, ReadMeta(r)
      PROVE  Pass'
  BY <1>5, PassReadMeta
<1>6. CASE HandleStartFails
  BY <1>6 DEF HandleStartFails
<1>7. CASE NextRow
  BY <1>1, <1>7, PassNextRow DEF NextRow
<1>8. CASE AddLine
  BY <1>1, <1>8, PassAddLine DEF AddLine, Handle
<1>9. CASE AddToSum
  BY <1>1, <1>9, PassAddToSum DEF AddToSum, Handle
<1>10. CASE CacheLine
  BY <1>1, <1>10, PassCacheLine DEF CacheLine, Handle
<1>11. CASE FlushCache
  BY <1>1, <1>11, PassFlushCache DEF FlushCache, Handle
<1>12. CASE HandleEnd
  BY <1>12 DEF HandleEnd
<1>13. CASE UNCHANGED vars
  <2>1. UNCHANGED <<rows, shift, pt, todo, cache, cacheTime, result, named, report>>
    BY <1>13 DEF vars, database, reading, caching
  <2>2. Pass
    BY <1>1, <1>13 DEF vars
  <2>3. Handed' = Handed /\ GoodLines' = GoodLines /\ GoodEntries' = GoodEntries
    BY <2>1 DEF Handed, GoodLines, GoodEntries
  <2>4. Ahead' /\ Behind'
    BY <2>1, <2>2, <2>3 DEF Pass, Ahead, Behind
  <2>5. Covered'
    BY <2>1, <2>2, <2>3 DEF Pass, Covered, Reported, RealRows
  <2>6. InOrder' /\ CacheUse'
    BY <2>1, <2>2, <2>3 DEF Pass, InOrder, Ascending, CacheUse, Cached
  <2> QED
    BY <2>4, <2>5, <2>6 DEF Pass
<1> QED
  BY <1>2, <1>3, <1>4, <1>5, <1>6, <1>7, <1>8, <1>9, <1>10, <1>11, <1>12, <1>13
  DEF Next, Import, Query

(* At the end every row was handed to the report.                          *)
LEMMA AtEnd ==
  ASSUME Typed, Pass, HandleEnd
  PROVE  /\ rows \subseteq Rows /\ rows # {} /\ report \in Reports
         /\ Greatest(rows) \in rows /\ Greatest(rows) \in Nat
         /\ Handed = Greatest(rows) + 1
         /\ \A t \in rows : t < Handed
         /\ UNCHANGED <<rows, shift, report, cache, named>> /\ phase' = "done"
<1>1. /\ rows \subseteq Rows /\ rows # {} /\ report \in Reports /\ Unread = {} /\ todo = <<>>
      /\ UNCHANGED <<rows, shift, report, cache, named>> /\ phase' = "done"
  BY DEF Typed, TypeOK, Begun, HandleEnd, reading, caching, database
<1>2. Greatest(rows) \in rows /\ \A t \in rows : t \in Nat /\ t <= Greatest(rows)
  BY <1>1, GreatestRow
<1>3. pt # None /\ \A t \in rows : ~ (t > pt)
  BY <1>1 DEF Unread
<1>4. pt \in rows
  BY <1>3 DEF Pass, Ahead
<1>5. PICK g \in Nat : g = Greatest(rows) /\ pt = g
  BY <1>2, <1>3, <1>4
<1>6. Handed = g + 1
  BY <1>1, <1>3, <1>5 DEF Handed
<1>7. \A t \in rows : t < g + 1
  <2> SUFFICES ASSUME NEW t \in rows PROVE t < g + 1
    OBVIOUS
  <2>1. t \in Nat /\ t <= g
    BY <1>2, <1>5
  <2> QED
    BY <2>1
<1> QED
  BY <1>1, <1>2, <1>5, <1>6, <1>7

LEMMA EndsInOrder ==
  ASSUME Typed, Pass, HandleEnd,
         Cached /\ result # <<>> => cacheTime = result[Len(result)].time + report.step
  PROVE  EachRowOnce'
<1> DEFINE e == Entry(cacheTime, cache, qov)
           R == rows
<1>1. /\ Greatest(rows) \in rows /\ Greatest(rows) \in Nat /\ Handed = Greatest(rows) + 1
      /\ \A t \in rows : t < Handed
      /\ UNCHANGED <<rows, shift, report, cache, named>> /\ phase' = "done"
      /\ rows \subseteq Rows /\ rows # {}
  BY AtEnd
<1>2. result' = IF LastEntry THEN Append(result, e) ELSE result
  BY DEF HandleEnd
<1>3. e \in Entries /\ e.lines = cache /\ result \in Seq(Entries) /\ cache \in Seq(GoodLines)
  <2>1. cacheTime \in Nat /\ cache \in Seq(Lines) /\ qov \in 0 .. 3
    BY DEF Typed, TypeOK
  <2>2. result \in Seq(Entries) /\ cache \in Seq(GoodLines)
    BY DEF Typed, TypeOK, Entries, Pass, Behind
  <2> QED
    BY <2>1, <2>2, EntryType
<1> HIDE DEF e
<1>4. rows = Reported \cup RowsIn(cache)
  <2>1. {t \in rows : t < Handed} = rows
    BY <1>1
  <2> QED
    BY <2>1 DEF Pass, Covered
<1>5. Cached' = Cached /\ LastEntry' = LastEntry
  BY <1>1 DEF Cached, LastEntry
<1>6. /\ Ascending
      /\ \A i \in DOMAIN result : \A k \in DOMAIN result[i].lines :
           \A l \in DOMAIN cache : result[i].lines[k].row < cache[l].row
      /\ \A k, l \in DOMAIN cache : k < l => cache[k].row < cache[l].row
  BY DEF Pass, InOrder
<1>7. CASE LastEntry
  <2>1. result' = Append(result, e)
    BY <1>2, <1>7
  <2>2. Reported' = Reported \cup RowsIn(cache)
    BY <1>3, <2>1, ReportedAppend
  <2>3. Ascending'
    BY <1>3, <1>6, <2>1, AscendingAppend
  <2> QED
    BY <1>1, <1>4, <2>1, <2>2, <2>3 DEF EachRowOnce
<1>8. CASE ~ LastEntry
  <2>1. result' = result
    BY <1>2, <1>8
  <2>2. Ascending' /\ Reported' = Reported
    BY <1>6, <2>1 DEF Ascending, Reported, RealRows
  <2>3. CASE ~ Cached
    <3>1. cache = <<>>
      BY <2>3 DEF Pass, CacheUse
    <3>2. RowsIn(cache) = {}
      BY <3>1 DEF RowsIn
    <3> QED
      BY <1>1, <1>4, <1>5, <2>2, <2>3, <3>2 DEF EachRowOnce
  <2>4. CASE Cached
    <3>1. ~ named
      BY <1>8, <2>4 DEF LastEntry
    <3>2. Handed # Least(rows)
      <4>1. Least(rows) \in rows
        BY <1>1, LeastRow
      <4>2. Least(rows) \in Nat /\ Least(rows) < Handed
        BY <1>1, <4>1, LeastRow
      <4> QED
        BY <1>1, <4>2
    <3>3. Len(cache) = 1 /\ cache[1].row = Greatest(rows)
      BY <1>1, <2>4, <3>1, <3>2 DEF Pass, CacheUse
    <3>4. DOMAIN cache = {1} /\ cache[1] \in GoodLines
      <4>1. PICK G : G = GoodLines
        OBVIOUS
      <4>2. cache \in Seq(G)
        BY <1>3, <4>1
      <4>3. Len(cache) = 1
        BY <3>3, Zenon
      <4>4. DOMAIN cache = 1 .. Len(cache) /\ \A i \in 1 .. Len(cache) : cache[i] \in G
        BY <4>2
      <4>5. 1 .. 1 = {1}
        OBVIOUS
      <4> QED
        BY <4>1, <4>3, <4>4, <4>5, Zenon
    <3>5. RowsIn(cache) = {Greatest(rows)}
      <4>1. cache[1].real
        BY <1>1, <3>3, <3>4 DEF GoodLines
      <4> QED
        BY <3>3, <3>4, <4>1 DEF RowsIn
    <3>6. Greatest(rows) \notin Reported
      <4> SUFFICES ASSUME Greatest(rows) \in Reported PROVE FALSE
        OBVIOUS
      <4>1. PICK i \in DOMAIN result : Greatest(rows) \in RealRows(result[i])
        BY DEF Reported
      <4>2. PICK k \in DOMAIN result[i].lines : Greatest(rows) = result[i].lines[k].row
        BY <4>1 DEF RealRows
      <4>3. result[i].lines[k].row < cache[1].row
        BY <1>6, <3>4
      <4> QED
        BY <1>1, <3>3, <4>2, <4>3
    <3>7. Reported = rows \ {Greatest(rows)}
      BY <1>4, <3>5, <3>6
    <3>8. cacheTime <= Greatest(rows) /\ result # <<>>
      <4>1. cache[1].real /\ cache[1].row = Greatest(rows)
        BY <1>1, <3>3, <3>4 DEF GoodLines
      <4>2. cache[1].at = Greatest(rows)
        BY <3>4, <4>1 DEF GoodLines
      <4> QED
        BY <2>4, <3>1, <3>2, <4>2 DEF Pass, CacheUse
    <3>9. report.kind = "loadcurve" /\ cacheTime = result[Len(result)].time + report.step
      BY <1>8, <2>4, <3>8 DEF LastEntry
    <3>10. cacheTime \in Nat
      BY DEF Typed, TypeOK
    <3>11. Greatest(rows) >= result[Len(result)].time + report.step
      BY <1>1, <3>8, <3>9, <3>10
    <3>12. LastLeftOut'
      BY <1>1, <1>5, <2>1, <2>2, <2>4, <3>7, <3>8, <3>9, <3>11 DEF LastLeftOut
    <3> QED
      BY <2>2, <3>12 DEF EachRowOnce
  <2> QED
    BY <2>3, <2>4
<1> QED
  BY <1>7, <1>8

-----------------------------------------------------------------------------
(* The quality of an entry is the worst of its lines.                      *)

WorstOf(q, S) == q \in S /\ \A p \in S : ~ Worse(p, q)

Qualities(ls) == {ls[i].qov : i \in DOMAIN ls}

EntryQuality(e) == WorstOf(e.qov, {Neutral} \cup Qualities(e.lines))

(* The quality of the running entry counts an unknown one as bad.          *)
Worst ==
  /\ QualityIsWorst
  /\ phase = "lines" => WorstOf(qov, {1} \cup Qualities(cache))

(* calcQoV adds a value to those whose worst is known.                     *)
LEMMA CalcWorst ==
  ASSUME NEW S \in SUBSET (0 .. 3), NEW q \in 0 .. 3, NEW p \in 0 .. 3, WorstOf(q, S)
  PROVE  WorstOf(CalcQoV(q, p), S \cup {p})
<1>1. CalcQoV(q, p) \in {q, p}
  BY DEF CalcQoV
<1>2. ~ Worse(q, CalcQoV(q, p)) /\ ~ Worse(p, CalcQoV(q, p))
  BY DEF CalcQoV, Worse
<1>3. ASSUME NEW r \in 0 .. 3, ~ Worse(r, q) PROVE ~ Worse(r, CalcQoV(q, p))
  BY <1>3 DEF CalcQoV, Worse
<1> QED
  BY <1>1, <1>2, <1>3 DEF WorstOf

(* The entry of a load curve, whose quality is unknown at first.           *)
LEMMA NeutralWorst ==
  ASSUME NEW S \in SUBSET (0 .. 3), NEW q \in 0 .. 3, NEW n \in {0, 1}, WorstOf(q, {1} \cup S)
  PROVE  WorstOf(CalcQoV(n, q), {n} \cup S)
<1>1. CASE n = 1
  BY <1>1 DEF CalcQoV, WorstOf
<1>2. CASE n = 0 /\ q = 1
  <2>1. CalcQoV(n, q) = 0
    BY <1>2 DEF CalcQoV
  <2>2. \A p \in S : p = 1
    BY <1>2 DEF WorstOf, Worse
  <2> QED
    BY <1>2, <2>1, <2>2 DEF WorstOf, Worse
<1>3. CASE n = 0 /\ q # 1
  <2>1. CalcQoV(n, q) = q
    BY <1>3 DEF CalcQoV
  <2>2. q \in {n} \cup S /\ \A p \in S : ~ Worse(p, q)
    BY <1>3 DEF WorstOf
  <2>3. ~ Worse(n, q)
    BY <1>3 DEF Worse
  <2> QED
    BY <2>1, <2>2, <2>3 DEF WorstOf
<1> QED
  BY <1>1, <1>2, <1>3

LEMMA QualitiesOf ==
  ASSUME NEW ls \in Seq(Lines), NEW l \in Lines
  PROVE  /\ Qualities(ls) \in SUBSET (0 .. 3) /\ l.qov \in 0 .. 3
         /\ Qualities(<<l>>) = {l.qov}
         /\ Qualities(Append(ls, l)) = Qualities(ls) \cup {l.qov}
<1>1. Qualities(ls) \in SUBSET (0 .. 3)
  <2>1. \A i \in DOMAIN ls : ls[i] \in Lines
    OBVIOUS
  <2> QED
    BY <2>1 DEF Qualities, Lines
<1>2. Qualities(<<l>>) = {l.qov}
  <2>1. DOMAIN <<l>> = {1} /\ <<l>>[1] = l
    OBVIOUS
  <2> QED
    BY <2>1 DEF Qualities
<1>3. Qualities(Append(ls, l)) = Qualities(ls) \cup {l.qov}
  <2> DEFINE a == Append(ls, l)
             n == Len(ls)
  <2>1. /\ n \in Nat /\ DOMAIN ls = 1 .. n /\ DOMAIN a = 1 .. n + 1
        /\ a[n + 1] = l /\ \A i \in 1 .. n : a[i] = ls[i]
    OBVIOUS
  <2> HIDE DEF a, n
  <2>2. /\ n + 1 \in 1 .. n + 1 /\ \A i \in 1 .. n : i \in 1 .. n + 1
        /\ \A i \in 1 .. n + 1 : i \in 1 .. n \/ i = n + 1
    BY <2>1
  <2>3. ASSUME NEW q
        PROVE  /\ q \in Qualities(a) <=> \E i \in 1 .. n + 1 : a[i].qov = q
               /\ q \in Qualities(ls) <=> \E i \in 1 .. n : ls[i].qov = q
    BY <2>1 DEF Qualities
  <2>4. ASSUME NEW q
        PROVE  q \in Qualities(a) <=> q \in Qualities(ls) \/ q = l.qov
    BY <2>1, <2>2, <2>3, Zenon
  <2>5. Qualities(a) = Qualities(ls) \cup {l.qov}
    BY <2>4
  <2> QED
    BY <2>5 DEF a
<1>4. l.qov \in 0 .. 3
  BY DEF Lines
<1> QED
  BY <1>1, <1>2, <1>3, <1>4

(* An entry that is added has the worst quality of its lines.              *)
LEMMA QualityOfEntry ==
  ASSUME NEW t \in Nat, NEW ls \in Seq(Lines), NEW q \in 0 .. 3, WorstOf(q, {1} \cup Qualities(ls))
  PROVE  EntryQuality(Entry(t, ls, q))
<1>1. Qualities(ls) \in SUBSET (0 .. 3)
  <2>1. \A i \in DOMAIN ls : ls[i] \in Lines
    OBVIOUS
  <2> QED
    BY <2>1 DEF Qualities, Lines
<1>2. Neutral \in {0, 1}
  BY DEF Neutral
<1>3. WorstOf(CalcQoV(Neutral, q), {Neutral} \cup Qualities(ls))
  BY <1>1, <1>2, NeutralWorst
<1>4. Entry(t, ls, q).qov = CalcQoV(Neutral, q) /\ Entry(t, ls, q).lines = ls
  BY EntryType
<1> QED
  BY <1>3, <1>4, Zenon DEF EntryQuality

LEMMA QualityAppend ==
  ASSUME result \in Seq(Entries), NEW e \in Entries, result' = Append(result, e),
         QualityIsWorst, EntryQuality(e), report' = report
  PROVE  QualityIsWorst'
<1>1. Neutral' = Neutral
  BY DEF Neutral
<1>2. SUFFICES ASSUME NEW i \in DOMAIN result', report.kind # "summary"
               PROVE  WorstOf(result'[i].qov, {Neutral} \cup Qualities(result'[i].lines))
  BY <1>1, Zenon DEF QualityIsWorst, WorstOf, Qualities
<1>3. CASE i \in DOMAIN result
  <2>1. result'[i] = result[i]
    BY <1>3, AppendEntry
  <2>2. WorstOf(result[i].qov, {Neutral} \cup Qualities(result[i].lines))
    BY <1>2, <1>3, Zenon DEF QualityIsWorst, WorstOf, Qualities
  <2> QED
    BY <2>1, <2>2
<1>4. CASE i = Len(result) + 1
  <2>1. result'[i] = e
    BY <1>4, AppendEntry
  <2> QED
    BY <2>1 DEF EntryQuality
<1> QED
  BY <1>3, <1>4, AppendEntry

LEMMA WorstNext == Typed /\ Worst /\ [Next]_vars => Worst'
<1> SUFFICES ASSUME Typed, Worst, [Next]_vars
             PROVE  Worst'
  OBVIOUS
<1>1. /\ result \in Seq(Entries) /\ cache \in Seq(Lines) /\ cacheTime \in Nat /\ qov \in 0 .. 3
      /\ QualityIsWorst
  BY DEF Typed, TypeOK, Entries, Worst
<1>2. ASSUME phase = "lines" PROVE WorstOf(qov, {1} \cup Qualities(cache))
  BY <1>2 DEF Worst
<1>3. ASSUME Handle
      PROVE  line \in Lines /\ line.at \in Nat /\ line.qov \in 0 .. 3 /\ <<line>> \in Seq(Lines)
  <2>1. line \in Lines
    BY <1>3, HeadAndTail DEF Handle, Typed, TypeOK
  <2> QED
    BY <2>1 DEF Lines
<1>4. ASSUME result' = result, report' = report PROVE QualityIsWorst'
  <2>1. Neutral' = Neutral
    BY <1>4 DEF Neutral
  <2> QED
    BY <1>1, <1>4, <2>1 DEF QualityIsWorst
<1>5. CASE Import
  <2>1. result' = result /\ report' = report /\ phase' = phase /\ phase # "lines"
    BY <1>5 DEF Import, AddMeter, AddMeterFails, LoseMeters, GiveColumn, StoreLine, Importing,
                caching
  <2> QED
    BY <1>4, <2>1 DEF Worst
<1>6. CASE OpenRange \/ HandleStartFails \/ Panics
  <2>1. result' = result /\ report' = report /\ phase' # "lines"
    BY <1>6 DEF OpenRange, HandleStartFails, Panics, caching
  <2> QED
    BY <1>4, <2>1 DEF Worst
<1>7. ASSUME NEW r \in Reports, ReadMeta(r)
      PROVE  Worst'
  <2>1. result' = <<>> /\ cache' = <<>> /\ qov' = 1
    BY <1>7 DEF Typed, Begun, ReadMeta, InitCache
  <2>2. QualityIsWorst'
    BY <2>1 DEF QualityIsWorst
  <2>3. Qualities(cache') = {}
    BY <2>1 DEF Qualities
  <2>4. WorstOf(1, {1})
    BY DEF WorstOf, Worse
  <2>5. WorstOf(qov', {1} \cup Qualities(cache'))
    <3>1. {1} \cup Qualities(cache') = {1}
      BY <2>3
    <3> QED
      BY <2>1, <2>4, <3>1, Zenon
  <2> QED
    BY <2>2, <2>5 DEF Worst
<1>8. CASE NextRow
  <2>1. result' = result /\ report' = report /\ cache' = cache /\ qov' = qov /\ phase = "lines"
    BY <1>8 DEF NextRow, caching
  <2>2. WorstOf(qov', {1} \cup Qualities(cache'))
    BY <1>2, <2>1
  <2> QED
    BY <1>4, <2>1, <2>2 DEF Worst
<1>9. CASE AddLine
  <2> DEFINE e == Entry(line.at, <<line>>, line.qov)
  <2>1. /\ Handle /\ result' = Append(result, e) /\ report' = report /\ cache' = cache
        /\ qov' = qov /\ phase = "lines"
    BY <1>9 DEF AddLine, Handle, caching
  <2>2. WorstOf(line.qov, {1} \cup Qualities(<<line>>))
    <3>1. Qualities(<<line>>) = {line.qov}
      BY <1>3, <2>1, QualitiesOf
    <3> QED
      BY <1>3, <2>1, <3>1 DEF WorstOf, Worse
  <2>3. e \in Entries /\ EntryQuality(e)
    BY <1>3, <2>1, <2>2, EntryType, QualityOfEntry
  <2> HIDE DEF e
  <2>4. QualityIsWorst'
    BY <1>1, <2>1, <2>3, QualityAppend
  <2>5. WorstOf(qov', {1} \cup Qualities(cache'))
    BY <1>2, <2>1
  <2> QED
    BY <2>4, <2>5 DEF Worst
<1>10. CASE AddToSum
  <2>1. /\ report.kind = "summary" /\ report' = report /\ cache' = cache
        /\ qov' = qov /\ phase = "lines"
    BY <1>10 DEF AddToSum, Handle, caching
  <2>2. QualityIsWorst'
    BY <2>1 DEF QualityIsWorst
  <2>3. WorstOf(qov', {1} \cup Qualities(cache'))
    BY <1>2, <2>1
  <2> QED
    BY <2>2, <2>3 DEF Worst
<1>11. CASE CacheLine
  <2>1. /\ Handle /\ result' = result /\ report' = report /\ cache' = Append(cache, line)
        /\ qov' = CalcQoV(qov, line.qov) /\ phase = "lines"
    BY <1>11 DEF CacheLine, Handle
  <2>2. /\ Qualities(cache) \in SUBSET (0 .. 3)
        /\ Qualities(cache') = Qualities(cache) \cup {line.qov}
    BY <1>1, <1>3, <2>1, QualitiesOf
  <2>3. WorstOf(qov', ({1} \cup Qualities(cache)) \cup {line.qov})
    <3>1. {1} \cup Qualities(cache) \in SUBSET (0 .. 3)
      BY <2>2
    <3>2. WorstOf(qov, {1} \cup Qualities(cache))
      BY <1>2, <2>1
    <3>3. WorstOf(CalcQoV(qov, line.qov), ({1} \cup Qualities(cache)) \cup {line.qov})
      BY <1>1, <1>3, <2>1, <3>1, <3>2, CalcWorst
    <3> QED
      BY <2>1, <3>3
  <2>4. ({1} \cup Qualities(cache)) \cup {line.qov} = {1} \cup Qualities(cache')
    BY <2>2
  <2>5. WorstOf(qov', {1} \cup Qualities(cache'))
    BY <2>3, <2>4, Zenon
  <2> QED
    BY <1>4, <2>1, <2>5 DEF Worst
<1>12. CASE FlushCache
  <2> DEFINE e == Entry(cacheTime, cache, qov)
  <2>1. /\ Handle /\ result' = Append(result, e) /\ report' = report /\ cache' = <<line>>
        /\ qov' = line.qov /\ phase = "lines"
    BY <1>12 DEF FlushCache, Handle
  <2>2. e \in Entries /\ EntryQuality(e)
    BY <1>1, <1>2, <2>1, EntryType, QualityOfEntry
  <2> HIDE DEF e
  <2>3. QualityIsWorst'
    BY <1>1, <2>1, <2>2, QualityAppend
  <2>4. WorstOf(qov', {1} \cup Qualities(cache'))
    <3>1. Qualities(cache') = {line.qov}
      BY <1>3, <2>1, QualitiesOf
    <3> QED
      BY <1>3, <2>1, <3>1 DEF WorstOf, Worse
  <2> QED
    BY <2>3, <2>4 DEF Worst
<1>13. CASE HandleEnd
  <2> DEFINE e == Entry(cacheTime, cache, qov)
  <2>1. /\ result' = IF LastEntry THEN Append(result, e) ELSE result
        /\ report' = report /\ phase = "lines" /\ phase' = "done"
    BY <1>13 DEF HandleEnd
  <2>2. e \in Entries /\ EntryQuality(e)
    BY <1>1, <1>2, <2>1, EntryType, QualityOfEntry
  <2> HIDE DEF e
  <2>3. CASE LastEntry
    BY <1>1, <2>1, <2>2, <2>3, QualityAppend DEF Worst
  <2>4. CASE ~ LastEntry
    BY <1>4, <2>1, <2>4 DEF Worst
  <2> QED
    BY <2>3, <2>4
<1>14. CASE UNCHANGED vars
  <2>1. UNCHANGED <<result, report, cache, qov, phase>>
    BY <1>14 DEF vars, caching
  <2>2. phase' = "lines" => WorstOf(qov', {1} \cup Qualities(cache'))
    BY <1>2, <2>1
  <2> QED
    BY <1>4, <2>1, <2>2 DEF Worst
<1> QED
  BY <1>5, <1>6, <1>7, <1>8, <1>9, <1>10, <1>11, <1>12, <1>13, <1>14 DEF Next, Query

-----------------------------------------------------------------------------
(* The entries and the times of their rows.                                *)

(* The rows that the entry with this number, which begins at this time,    *)
(* may have.                                                               *)
Allowed(i, time) ==
  {t \in rows : time <= t + Advance(t) /\ (t < time + report.step \/ Lags(i, t))}

(* n entries are complete, the running one begins at this time, and row h  *)
(* is the next: the running entry has not begun too long ago, unless every *)
(* row so far has completed an entry, and not too late for the last row.   *)
Running(n, time, h) ==
  LET lo == Least(rows) IN
    /\ n <= h - lo
    /\ h = lo => time <= lo
    /\ h # lo => /\ h - 1 < time + report.step \/ n = h - lo
                 /\ n = h - lo => FirstTime(report) + report.step <= lo
                 /\ time <= h - 1 + Advance(h - 1)

(* The times of the entries follow one another.                            *)
Following(res, time) ==
  /\ time = IF res = <<>> THEN FirstTime(report) ELSE res[Len(res)].time + report.step
  /\ \A i \in DOMAIN res :
       res[i].time = IF i = 1 THEN FirstTime(report) ELSE res[i - 1].time + report.step

Holding(res, ls, time) ==
  /\ \A i \in DOMAIN res : RowsIn(res[i].lines) \subseteq Allowed(i, res[i].time)
  /\ RowsIn(ls) \subseteq Allowed(Len(res) + 1, time)

ReachOf(res, ls, time, h) ==
  Following(res, time) /\ Running(Len(res), time, h) /\ Holding(res, ls, time)

Reach == Cached => ReachOf(result, cache, cacheTime, Handed)

(* A report without entries has one for every quarter hour.                *)
TimeOf(t) == IF t \in rows THEN t ELSE t + shift

EveryTime ==
  ~ Cached /\ report.kind # "summary" =>
    /\ Len(result) = Handed - Least(rows)
    /\ \A i \in DOMAIN result : result[i].time = TimeOf(Least(rows) + i - 1)

Timely == phase = "lines" => Reach /\ EveryTime

(* What a pass reads from does not change.                                 *)
LEMMA SameReach ==
  ASSUME UNCHANGED <<rows, report, shift>>,
         Cached => ReachOf(result', cache', cacheTime', Handed')
  PROVE  Reach'
<1>1. Least(rows') = Least(rows)
  OBVIOUS
<1>2. FirstTime(report)' = FirstTime(report)
  BY <1>1 DEF FirstTime
<1>3. \A t : (Least(rows') .. t \subseteq rows') <=> (Least(rows) .. t \subseteq rows)
  BY <1>1
<1> QED
  BY <1>1, <1>2, <1>3 DEF Reach, Cached, ReachOf, Following, Running, Holding, Allowed, Advance, Lags

(* What begins an entry too early, begins the later ones too early.        *)
LEMMA AdvanceGrows ==
  ASSUME rows \subseteq Rows, rows # {}, shift \in Nat, NEW t \in Nat
  PROVE  Advance(t) \in Nat /\ Advance(t + 1) \in Nat /\ Advance(t) <= Advance(t + 1)
<1>1. Least(rows) \in Nat
  BY LeastRow
<1>2. Least(rows) .. t \subseteq Least(rows) .. t + 1
  BY <1>1
<1>3. CASE Least(rows) .. t + 1 \subseteq rows
  BY <1>2, <1>3 DEF Advance
<1>4. CASE ~ (Least(rows) .. t + 1 \subseteq rows)
  BY <1>4 DEF Advance
<1> QED
  BY <1>3, <1>4

(* The facts of a pass that the entries rest on.                           *)
LEMMA PassNumbers ==
  ASSUME Typed, phase = "lines", Pass, Handle, Cached
  PROVE  /\ rows \subseteq Rows /\ rows # {} /\ shift \in Nat /\ report \in Reports
         /\ Least(rows) \in Nat /\ Handed \in Nat /\ Least(rows) <= Handed
         /\ FirstTime(report) \in Nat /\ FirstTime(report) <= Least(rows)
         /\ report.step \in Nat /\ report.step >= 1
         /\ cacheTime \in Nat /\ Len(result) \in Nat
         /\ line.at \in Nat /\ Handed <= line.at
         /\ line.real => line.at = Handed
         /\ line.at <= Handed + Advance(Handed)
         /\ Handed = Least(rows) => line.real
         /\ line.real => Handed \in rows
<1>1. rows \subseteq Rows /\ rows # {} /\ shift \in Nat /\ report \in Reports
  BY Constants DEF Typed, TypeOK, Begun
<1>2. /\ line \in GoodLines /\ line.row = Handed /\ line.at \in Nat /\ Handed \in Nat
      /\ cacheTime \in Nat /\ result \in Seq(Entries)
  BY NextLine
<1>3. Least(rows) \in rows /\ Least(rows) \in Nat /\ Least(rows) <= Handed
  BY <1>1, LeastRow DEF Pass, Ahead
<1>4. FirstTime(report) \in Nat /\ FirstTime(report) <= Least(rows)
  BY <1>1, FirstEntry
<1>5. report.step \in Nat /\ report.step >= 1
  <2>1. report.step \in Nat /\ report.step # 0
    BY <1>1, Constants DEF Cached
  <2> QED
    BY <2>1
<1>6. /\ line.real <=> Handed \in rows
      /\ line.at = IF line.real THEN Handed ELSE Handed + shift
  BY <1>2 DEF GoodLines
<1>7. line.at <= Handed + Advance(Handed) /\ Handed <= line.at
  <2>1. CASE line.real
    <3>1. line.at = Handed
      BY <1>6, <2>1
    <3>2. Advance(Handed) \in Nat
      BY <1>1 DEF Advance
    <3> QED
      BY <1>2, <3>1, <3>2
  <2>2. CASE ~ line.real
    <3>1. Handed \in Least(rows) .. Handed /\ Handed \notin rows
      BY <1>2, <1>3, <1>6, <2>2
    <3>2. Advance(Handed) = shift
      BY <3>1 DEF Advance
    <3> QED
      BY <1>1, <1>2, <1>6, <2>2, <3>2
  <2> QED
    BY <2>1, <2>2
<1> QED
  BY <1>1, <1>2, <1>3, <1>4, <1>5, <1>6, <1>7

LEMMA AppendTo ==
  ASSUME NEW res \in Seq(Entries), NEW e \in Entries
  PROVE  /\ Len(res) \in Nat /\ DOMAIN res = 1 .. Len(res)
         /\ Len(Append(res, e)) = Len(res) + 1
         /\ DOMAIN Append(res, e) = 1 .. Len(res) + 1
         /\ Append(res, e)[Len(res) + 1] = e /\ Append(res, e) # <<>>
         /\ \A i \in 1 .. Len(res) : Append(res, e)[i] = res[i]
         /\ (res = <<>>) <=> (Len(res) = 0)
  OBVIOUS

(* A line of the running entry.                                            *)
LEMMA RunsOn ==
  ASSUME rows \subseteq Rows, rows # {}, shift \in Nat,
         NEW n \in Nat, NEW time \in Nat, NEW h \in Nat, NEW at \in Nat,
         Least(rows) <= h, report.step \in Nat,
         Running(n, time, h), h <= at, at < time + report.step
  PROVE  Running(n, time, h + 1)
<1>1. PICK lo \in Nat : lo = Least(rows)
  BY LeastRow
<1>2. PICK s \in Nat : s = report.step
  OBVIOUS
<1>3. n <= h + 1 - lo /\ h + 1 # lo /\ h + 1 - 1 = h /\ n # h + 1 - lo
  BY <1>1 DEF Running
<1>4. h < time + s
  BY <1>2
<1>5. time <= h + Advance(h)
  <2>1. Advance(h) \in Nat
    BY AdvanceGrows
  <2>2. CASE h = lo
    <3>1. time <= lo
      BY <1>1, <2>2 DEF Running
    <3> QED
      BY <1>1, <2>1, <2>2, <3>1
  <2>3. CASE h # lo
    <3>1. PICK g \in Nat : g = h - 1 /\ h = g + 1
      BY <1>1, <2>3
    <3>2. time <= g + Advance(g)
      BY <1>1, <2>3, <3>1 DEF Running
    <3>3. Advance(g) \in Nat /\ Advance(g) <= Advance(h)
      BY <3>1, AdvanceGrows
    <3> QED
      BY <2>1, <3>1, <3>2, <3>3
  <2> QED
    BY <2>2, <2>3
<1>6. h + 1 # lo => /\ h < time + s \/ n = h + 1 - lo
                    /\ n = h + 1 - lo => FirstTime(report) + s <= lo
                    /\ time <= h + Advance(h)
  BY <1>3, <1>4, <1>5
<1> QED
  BY <1>1, <1>2, <1>3, <1>6 DEF Running

(* A line that begins the next entry.                                      *)
LEMMA RunsOver ==
  ASSUME rows \subseteq Rows, rows # {}, shift \in Nat,
         NEW n \in Nat, NEW time \in Nat, NEW h \in Nat, NEW at \in Nat,
         Least(rows) <= h, report.step \in Nat, report.step >= 1,
         Running(n, time, h), h = Least(rows) => at = h /\ (n = 0 => time = FirstTime(report)),
         at <= h + Advance(h), time + report.step <= at
  PROVE  Running(n + 1, time + report.step, h + 1)
<1>1. PICK lo \in Nat : lo = Least(rows)
  BY LeastRow
<1>2. PICK s \in Nat : s = report.step /\ s >= 1
  OBVIOUS
<1>3. n <= h - lo /\ n + 1 <= h + 1 - lo /\ h + 1 # lo /\ h + 1 - 1 = h
  <2>1. n <= h - lo
    BY <1>1 DEF Running
  <2> QED
    BY <1>1, <2>1
<1>4. time + s <= h + Advance(h)
  <2>1. Advance(h) \in Nat
    BY AdvanceGrows
  <2> QED
    BY <1>2, <2>1
<1>5. h < (time + s) + s \/ n + 1 = h + 1 - lo
  <2>1. CASE h = lo
    BY <1>1, <1>3, <2>1
  <2>2. CASE h # lo
    <3>1. h - 1 < time + s \/ n = h - lo
      BY <1>1, <1>2, <2>2 DEF Running
    <3> QED
      BY <1>1, <1>2, <3>1
  <2> QED
    BY <2>1, <2>2
<1>6. ASSUME n + 1 = h + 1 - lo
      PROVE  FirstTime(report) + s <= lo
  <2>1. CASE h = lo
    <3>1. n = 0 /\ at = h
      BY <1>1, <1>6, <2>1
    <3>2. time = FirstTime(report)
      BY <1>1, <2>1, <3>1
    <3>3. time + s <= lo
      BY <1>2, <2>1, <3>1
    <3> QED
      BY <3>2, <3>3
  <2>2. CASE h # lo
    <3>1. n = h - lo
      BY <1>1, <1>6
    <3> QED
      BY <1>1, <1>2, <2>2, <3>1 DEF Running
  <2> QED
    BY <2>1, <2>2
<1>7. h + 1 # lo => /\ h < (time + s) + s \/ n + 1 = h + 1 - lo
                    /\ n + 1 = h + 1 - lo => FirstTime(report) + s <= lo
                    /\ time + s <= h + Advance(h)
  BY <1>4, <1>5, <1>6
<1> QED
  BY <1>1, <1>2, <1>3, <1>7 DEF Running

(* The row may be in the entry that is running when it was handed.         *)
LEMMA RowAllowed ==
  ASSUME NEW n \in Nat, NEW time \in Nat, NEW h \in rows,
         h \in Nat, Least(rows) \in Nat, Least(rows) <= h,
         Running(n, time, h + 1)
  PROVE  h \in Allowed(n + 1, time)
<1>1. PICK lo \in Nat : lo = Least(rows)
  OBVIOUS
<1>2. h + 1 # lo /\ h + 1 - 1 = h
  BY <1>1
<1>3. /\ h < time + report.step \/ n = h + 1 - lo
      /\ n = h + 1 - lo => FirstTime(report) + report.step <= lo
      /\ time <= h + Advance(h)
  BY <1>1, <1>2 DEF Running
<1>4. n = h + 1 - lo => n + 1 = (h - lo + 1) + 1
  BY <1>1
<1> QED
  BY <1>1, <1>3, <1>4, Zenon DEF Allowed, Lags

LEMMA ReachReadMeta ==
  ASSUME Typed, NEW r \in Reports, ReadMeta(r)
  PROVE  (Reach /\ EveryTime)'
<1>1. /\ pt' = None /\ cache' = <<>> /\ result' = <<>> /\ cacheTime' = FirstTime(r)
      /\ rows' = rows /\ rows # {} /\ rows \subseteq Rows /\ report' = r
  BY DEF Typed, TypeOK, Begun, ReadMeta, InitCache
<1>2. Handed' = Least(rows) /\ Least(rows)' = Least(rows)
  BY <1>1 DEF Handed
<1>3. Least(rows) \in Nat /\ FirstTime(r) \in Nat /\ FirstTime(r) <= Least(rows)
  BY <1>1, LeastRow, FirstEntry
<1>4. DOMAIN result' = {} /\ Len(result') = 0 /\ RowsIn(cache') = {}
  BY <1>1 DEF RowsIn
<1>5. FirstTime(report)' = FirstTime(r)
  BY <1>1 DEF FirstTime
<1>6. Following(result, cacheTime)'
  BY <1>1, <1>4, <1>5 DEF Following
<1>7. Running(Len(result), cacheTime, Handed)'
  <2>1. /\ 0 <= Least(rows) - Least(rows)
        /\ Least(rows) = Least(rows) => FirstTime(r) <= Least(rows)
    BY <1>3
  <2> QED
    BY <1>1, <1>2, <1>4, <2>1 DEF Running
<1>8. Holding(result, cache, cacheTime)'
  BY <1>4 DEF Holding
<1>9. EveryTime'
  BY <1>2, <1>3, <1>4 DEF EveryTime
<1> QED
  BY <1>6, <1>7, <1>8, <1>9 DEF Reach, ReachOf

LEMMA ReachAddLine ==
  ASSUME Typed, phase = "lines", Pass, EveryTime, AddLine
  PROVE  (Reach /\ EveryTime)'
<1> DEFINE e == Entry(line.at, <<line>>, line.qov)
<1>1. Handle /\ ~ Cached /\ report.kind # "summary" /\ result' = Append(result, e)
  BY DEF AddLine
<1>2. /\ line \in GoodLines /\ line.row = Handed
      /\ line.at \in Nat /\ line.qov \in 0 .. 3 /\ <<line>> \in Seq(GoodLines)
      /\ Handed \in Nat /\ Handed' = Handed + 1 /\ rows' = rows /\ report' = report
      /\ shift' = shift /\ result \in Seq(Entries)
  BY <1>1, NextLine
<1>3. e \in Entries /\ e.time = line.at
  <2>0. PICK ls \in Seq(GoodLines), t \in Nat, q \in 0 .. 3 :
          ls = <<line>> /\ t = line.at /\ q = line.qov
    BY <1>2, Zenon
  <2>1. e \in GoodEntries /\ e.time = line.at
    <3>1. Entry(t, ls, q) \in GoodEntries /\ Entry(t, ls, q).time = t
      BY GoodEntry
    <3> QED
      BY <2>0, <3>1, Zenon
  <2> HIDE DEF e
  <2> QED
    BY <2>1, GoodTypes
<1> HIDE DEF e
<1>4. Cached' = Cached /\ Least(rows)' = Least(rows)
  BY <1>2 DEF Cached
<1>5. Reach'
  BY <1>1, <1>4 DEF Reach
<1>6. EveryTime'
  <2>1. /\ Len(result) = Handed - Least(rows)
        /\ \A i \in DOMAIN result : result[i].time = TimeOf(Least(rows) + i - 1)
    BY <1>1 DEF EveryTime
  <2>2. line.at = TimeOf(Handed)
    BY <1>2 DEF GoodLines, TimeOf
  <2>3. PICK lo \in Nat : lo = Least(rows)
    BY LeastRow DEF Typed, TypeOK, Begun
  <2>4. /\ Len(result') = Len(result) + 1 /\ DOMAIN result' = 1 .. Len(result) + 1
        /\ Len(result) \in Nat
        /\ \A i \in 1 .. Len(result) : result'[i] = result[i]
        /\ result'[Len(result) + 1] = e /\ DOMAIN result = 1 .. Len(result)
    BY <1>1, <1>2, <1>3, AppendEntry
  <2>5. Len(result') = Handed' - lo
    BY <1>2, <2>1, <2>3, <2>4
  <2>6. ASSUME NEW i \in DOMAIN result'
        PROVE  result'[i].time = TimeOf(lo + i - 1)
    <3>1. CASE i \in DOMAIN result
      BY <2>1, <2>3, <2>4, <3>1
    <3>2. CASE i = Len(result) + 1
      <4>1. result'[i].time = TimeOf(Handed)
        BY <1>3, <2>2, <2>4, <3>2
      <4>2. lo + i - 1 = Handed
        BY <1>2, <2>1, <2>3, <2>4, <3>2
      <4> QED
        BY <4>1, <4>2
    <3> QED
      BY <2>4, <3>1, <3>2
  <2>7. \A t : TimeOf(t)' = TimeOf(t)
    BY <1>2 DEF TimeOf
  <2> QED
    BY <1>2, <1>4, <2>3, <2>5, <2>6, <2>7 DEF EveryTime, TimeOf
<1> QED
  BY <1>5, <1>6

LEMMA ReachAddToSum ==
  ASSUME Typed, phase = "lines", Pass, AddToSum
  PROVE  (Reach /\ EveryTime)'
<1>1. Handle /\ report.kind = "summary"
  BY DEF AddToSum
<1>2. report' = report /\ report \in Reports
  BY <1>1, NextLine
<1>3. ~ Cached' /\ report'.kind = "summary"
  BY <1>1, <1>2, Constants DEF Cached
<1> QED
  BY <1>3 DEF Reach, EveryTime

LEMMA ReachCacheLine ==
  ASSUME Typed, phase = "lines", Pass, Reach, CacheLine
  PROVE  (Reach /\ EveryTime)'
<1>1. /\ Handle /\ Cached /\ result' = result /\ cache' = Append(cache, line)
      /\ cacheTime' = cacheTime /\ line.at < cacheTime + report.step
  BY DEF CacheLine, Before, EntryEnd
<1>2. /\ line \in Lines /\ line.row = Handed /\ Handed \in Nat /\ Handed' = Handed + 1
      /\ rows' = rows /\ report' = report /\ shift' = shift /\ cache \in Seq(Lines)
  BY <1>1, NextLine
<1>3. /\ rows \subseteq Rows /\ rows # {} /\ shift \in Nat
      /\ Least(rows) \in Nat /\ Least(rows) <= Handed
      /\ report.step \in Nat /\ cacheTime \in Nat /\ Len(result) \in Nat
      /\ line.at \in Nat /\ Handed <= line.at
      /\ line.real => Handed \in rows
  BY <1>1, PassNumbers
<1>4. /\ Following(result, cacheTime) /\ Running(Len(result), cacheTime, Handed)
      /\ Holding(result, cache, cacheTime)
  BY <1>1 DEF Reach, ReachOf
<1>5. Running(Len(result), cacheTime, Handed + 1)
  <2>1. PICK h \in Nat, n \in Nat, at \in Nat : h = Handed /\ n = Len(result) /\ at = line.at
    BY <1>2, <1>3
  <2>2. Running(n, cacheTime, h) /\ h <= at /\ at < cacheTime + report.step
    BY <1>1, <1>3, <1>4, <2>1
  <2>3. Running(n, cacheTime, h + 1)
    BY <1>3, <2>1, <2>2, RunsOn
  <2> QED
    BY <2>1, <2>3
<1>6. RowsIn(cache') = RowsIn(cache) \cup (IF line.real THEN {line.row} ELSE {})
  BY <1>1, <1>2, RowsInAppend
<1>7. line.real => Handed \in Allowed(Len(result) + 1, cacheTime)
  <2>1. PICK h, n : h = Handed /\ n = Len(result)
    OBVIOUS
  <2>2. ASSUME line.real PROVE h \in Allowed(n + 1, cacheTime)
    BY <1>2, <1>3, <1>5, <2>1, <2>2, RowAllowed
  <2> QED
    BY <2>1, <2>2
<1>8. Holding(result, cache', cacheTime)
  BY <1>2, <1>4, <1>6, <1>7 DEF Holding
<1>9. ReachOf(result', cache', cacheTime', Handed')
  BY <1>1, <1>2, <1>4, <1>5, <1>8 DEF ReachOf
<1>10. Reach'
  BY <1>2, <1>9, SameReach
<1> QED
  BY <1>1, <1>2, <1>10 DEF EveryTime, Cached

LEMMA ReachFlushCache ==
  ASSUME Typed, phase = "lines", Pass, Reach, FlushCache
  PROVE  (Reach /\ EveryTime)'
<1> DEFINE e == Entry(cacheTime, cache, qov)
<1>1. /\ Handle /\ Cached /\ result' = Append(result, e) /\ cache' = <<line>>
      /\ cacheTime' = cacheTime + report.step /\ ~ (line.at < cacheTime + report.step)
  BY DEF FlushCache, Before, EntryEnd
<1>2. /\ line \in Lines /\ line.row = Handed /\ Handed \in Nat /\ Handed' = Handed + 1
      /\ rows' = rows /\ report' = report /\ shift' = shift /\ cache \in Seq(Lines)
      /\ result \in Seq(Entries) /\ qov \in 0 .. 3
  BY <1>1, NextLine
<1>3. /\ rows \subseteq Rows /\ rows # {} /\ shift \in Nat
      /\ Least(rows) \in Nat /\ Least(rows) <= Handed
      /\ report.step \in Nat /\ report.step >= 1 /\ cacheTime \in Nat /\ Len(result) \in Nat
      /\ line.at \in Nat /\ line.at <= Handed + Advance(Handed)
      /\ line.real => Handed \in rows
  BY <1>1, PassNumbers
<1>4. Handed = Least(rows) => line.at = Handed
  BY <1>1, PassNumbers
<1>5. /\ Following(result, cacheTime) /\ Running(Len(result), cacheTime, Handed)
      /\ Holding(result, cache, cacheTime)
  BY <1>1 DEF Reach, ReachOf
<1>6. e \in Entries /\ e.time = cacheTime /\ e.lines = cache
  BY <1>2, <1>3, EntryType
<1> HIDE DEF e
<1> DEFINE n == Len(result)
           res == Append(result, e)
           next == cacheTime + report.step
<1>7. /\ DOMAIN result = 1 .. n /\ Len(res) = n + 1 /\ DOMAIN res = 1 .. n + 1
      /\ res[n + 1] = e /\ res # <<>> /\ \A i \in 1 .. n : res[i] = result[i]
      /\ (result = <<>>) <=> (n = 0)
  BY <1>2, <1>6, AppendTo
<1>8. next \in Nat /\ next <= line.at
  BY <1>1, <1>3
<1>9. n = 0 => cacheTime = FirstTime(report)
  BY <1>5, <1>7 DEF Following
<1>10. Running(n + 1, next, Handed + 1)
  BY <1>2, <1>3, <1>4, <1>5, <1>8, <1>9, RunsOver
<1> HIDE DEF n, res
<1>11. n \in Nat /\ n = Len(result)
  BY <1>3 DEF n
<1>12. Following(res, next)
  <2>1. next = res[Len(res)].time + report.step
    BY <1>6, <1>7
  <2>2. ASSUME NEW i \in 1 .. n + 1
        PROVE  res[i].time = IF i = 1 THEN FirstTime(report) ELSE res[i - 1].time + report.step
    <3>1. CASE i \in 1 .. n
      <4>1. i # 1 => i - 1 \in 1 .. n
        BY <1>11, <3>1
      <4>2. result[i].time = IF i = 1 THEN FirstTime(report) ELSE result[i - 1].time + report.step
        BY <1>5, <1>7, <3>1 DEF Following
      <4> QED
        BY <1>7, <3>1, <4>1, <4>2
    <3>2. CASE i = n + 1
      <4>1. res[i].time = cacheTime
        BY <1>6, <1>7, <3>2
      <4>2. CASE n = 0
        BY <1>9, <3>2, <4>1, <4>2
      <4>3. CASE n # 0
        <5>1. i # 1 /\ i - 1 = n /\ n \in 1 .. n
          BY <1>11, <3>2, <4>3
        <5>2. cacheTime = result[n].time + report.step
          BY <1>5, <1>7, <1>11, <4>3 DEF Following
        <5>3. res[n] = result[n]
          BY <1>7, <5>1
        <5> QED
          BY <4>1, <5>1, <5>2, <5>3
      <4> QED
        BY <4>2, <4>3
    <3> QED
      BY <1>11, <3>1, <3>2
  <2> HIDE DEF next
  <2> QED
    BY <1>7, <2>1, <2>2 DEF Following
<1>13. Holding(res, <<line>>, next)
  <2>1. ASSUME NEW i \in 1 .. n + 1
        PROVE  RowsIn(res[i].lines) \subseteq Allowed(i, res[i].time)
    <3>1. CASE i \in 1 .. n
      BY <1>5, <1>7, <3>1 DEF Holding
    <3>2. CASE i = n + 1
      <4>1. RowsIn(cache) \subseteq Allowed(n + 1, cacheTime)
        BY <1>5, <1>11 DEF Holding
      <4> QED
        BY <1>6, <1>7, <3>2, <4>1
    <3> QED
      BY <1>11, <3>1, <3>2
  <2>2. RowsIn(<<line>>) = IF line.real THEN {line.row} ELSE {}
    BY <1>2, RowsInOne
  <2>3. line.real => Handed \in Allowed((n + 1) + 1, next)
    <3> HIDE DEF next
    <3>1. n + 1 \in Nat
      BY <1>11
    <3> QED
      BY <1>2, <1>3, <1>8, <1>10, <3>1, RowAllowed
  <2> HIDE DEF next
  <2> QED
    BY <1>2, <1>7, <2>1, <2>2, <2>3 DEF Holding
<1>14. ReachOf(result', cache', cacheTime', Handed')
  <2>1. result' = res /\ cacheTime' = next
    BY <1>1 DEF res
  <2> HIDE DEF next
  <2> QED
    BY <1>1, <1>2, <1>7, <1>10, <1>12, <1>13, <2>1 DEF ReachOf
<1>15. Reach'
  BY <1>2, <1>14, SameReach
<1> QED
  BY <1>1, <1>2, <1>15 DEF EveryTime, Cached

LEMMA TimelyNext == Typed /\ Passing /\ Timely /\ [Next]_vars => Timely'
<1> SUFFICES ASSUME Typed, Passing, Timely, [Next]_vars, phase' = "lines"
             PROVE  (Reach /\ EveryTime)'
  BY DEF Timely
<1>1. ASSUME phase = "lines" PROVE Pass /\ Reach /\ EveryTime
  BY <1>1 DEF Passing, Timely
<1>2. CASE Import
  BY <1>2 DEF Import, AddMeter, AddMeterFails, LoseMeters, GiveColumn, StoreLine, Importing
<1>3. CASE OpenRange \/ HandleStartFails \/ HandleEnd \/ Panics
  BY <1>3 DEF OpenRange, HandleStartFails, HandleEnd, Panics
<1>4. ASSUME NEW r \in Reports, ReadMeta(r)
      PROVE  (Reach /\ EveryTime)'
  BY <1>4, ReachReadMeta
<1>5. ASSUME Handed' = Handed, UNCHANGED <<rows, shift, cacheTime, cache, result, report>>,
             Reach, EveryTime
      PROVE  (Reach /\ EveryTime)'
  <2>1. Reach'
    BY <1>5, SameReach DEF Reach
  <2>2. EveryTime'
    BY <1>5 DEF EveryTime, TimeOf, Cached
  <2> QED
    BY <2>1, <2>2
<1>6. CASE NextRow
  <2>1. Handed' = Handed
    BY <1>1, <1>6, Reading DEF NextRow, Pass
  <2> QED
    BY <1>1, <1>5, <1>6, <2>1 DEF NextRow, caching, database
<1>7. CASE AddLine
  BY <1>1, <1>7, ReachAddLine DEF AddLine, Handle
<1>8. CASE AddToSum
  BY <1>1, <1>8, ReachAddToSum DEF AddToSum, Handle
<1>9. CASE CacheLine
  BY <1>1, <1>9, ReachCacheLine DEF CacheLine, Handle
<1>10. CASE FlushCache
  BY <1>1, <1>10, ReachFlushCache DEF FlushCache, Handle
<1>11. CASE UNCHANGED vars
  <2>1. Handed' = Handed /\ phase = "lines"
    BY <1>11 DEF vars, reading, Handed
  <2> QED
    BY <1>1, <1>5, <1>11, <2>1 DEF vars, database, reading, caching
<1> QED
  BY <1>2, <1>3, <1>4, <1>6, <1>7, <1>8, <1>9, <1>10, <1>11 DEF Next, Query

-----------------------------------------------------------------------------
(* The results of a query.                                                 *)

LEMMA EndsInReach ==
  ASSUME Typed, Pass, Reach, HandleEnd
  PROVE  RowsInReach'
<1> DEFINE e == Entry(cacheTime, cache, qov)
<1>1. UNCHANGED <<rows, shift, report>>
  BY AtEnd
<1>2. result' = IF LastEntry THEN Append(result, e) ELSE result
  BY DEF HandleEnd
<1>3. e \in Entries /\ e.time = cacheTime /\ e.lines = cache /\ result \in Seq(Entries)
  <2>1. cacheTime \in Nat /\ cache \in Seq(Lines) /\ qov \in 0 .. 3 /\ result \in Seq(Entries)
    BY DEF Typed, TypeOK, Entries
  <2> QED
    BY <2>1, EntryType
<1> HIDE DEF e
<1>4. SUFFICES ASSUME Cached, NEW i \in DOMAIN result'
               PROVE  /\ result'[i].time = IF i = 1 THEN FirstTime(report)
                                           ELSE result'[i - 1].time + report.step
                      /\ RowsIn(result'[i].lines) \subseteq Allowed(i, result'[i].time)
  <2>1. /\ Cached' = Cached /\ FirstTime(report)' = FirstTime(report)
        /\ Least(rows') = Least(rows)
    BY <1>1 DEF Cached, FirstTime
  <2>2. ASSUME NEW j \in DOMAIN result', NEW t \in RealRows(result'[j]),
               t \in Allowed(j, result'[j].time)
        PROVE  /\ result'[j].time <= t + Advance(t)'
               /\ t < result'[j].time + report.step \/ Lags(j, t)'
    BY <1>1, <2>1, <2>2 DEF Allowed, Advance, Lags
  <2> QED
    BY <1>1, <2>1, <2>2 DEF RowsInReach, RealRows, RowsIn
<1>5. Following(result, cacheTime) /\ Holding(result, cache, cacheTime)
  BY <1>4 DEF Reach, ReachOf
<1>6. PICK n \in Nat : n = Len(result)
  BY <1>3
<1>7. ASSUME NEW j \in 1 .. n
      PROVE  /\ result[j].time = IF j = 1 THEN FirstTime(report)
                                 ELSE result[j - 1].time + report.step
             /\ RowsIn(result[j].lines) \subseteq Allowed(j, result[j].time)
  <2>1. j \in DOMAIN result
    BY <1>3, <1>6
  <2> QED
    BY <1>5, <2>1 DEF Following, Holding
<1>8. DOMAIN result = 1 .. n
  BY <1>3, <1>6
<1>9. CASE ~ LastEntry
  BY <1>2, <1>4, <1>7, <1>8, <1>9
<1>10. CASE LastEntry
  <2>1. /\ DOMAIN result' = 1 .. n + 1 /\ result'[n + 1] = e
        /\ \A j \in 1 .. n : result'[j] = result[j]
        /\ (result = <<>>) <=> (n = 0)
    BY <1>2, <1>3, <1>6, <1>10, AppendTo
  <2>2. CASE i \in 1 .. n
    <3>1. i # 1 => i - 1 \in 1 .. n
      BY <1>6, <2>2
    <3> QED
      BY <1>7, <2>1, <2>2, <3>1
  <2>3. CASE i = n + 1
    <3>1. result'[i].time = cacheTime /\ result'[i].lines = cache
      BY <1>3, <2>1, <2>3
    <3>2. RowsIn(cache) \subseteq Allowed(i, cacheTime)
      BY <1>5, <1>6, <2>3 DEF Holding
    <3>3. CASE n = 0
      BY <1>5, <2>1, <2>3, <3>1, <3>2, <3>3 DEF Following
    <3>4. CASE n # 0
      <4>1. i # 1 /\ i - 1 = n /\ n \in 1 .. n
        BY <1>6, <2>3, <3>4
      <4>2. cacheTime = result[n].time + report.step
        BY <1>5, <1>6, <2>1, <3>4 DEF Following
      <4> QED
        BY <2>1, <3>1, <3>2, <4>1, <4>2
    <3> QED
      BY <3>3, <3>4
  <2> QED
    BY <1>4, <1>6, <2>1, <2>2, <2>3
<1> QED
  BY <1>9, <1>10

LEMMA EndsWithoutGaps ==
  ASSUME Typed, Pass, EveryTime, HandleEnd
  PROVE  GapsFilled'
<1>1. /\ rows \subseteq Rows /\ rows # {} /\ Greatest(rows) \in Nat
      /\ Handed = Greatest(rows) + 1 /\ UNCHANGED <<rows, shift, report>>
  BY AtEnd
<1>2. Cached' = Cached
  BY <1>1 DEF Cached
<1> DEFINE n == Greatest(rows) - Least(rows) + 1
           times == [i \in 1 .. n |-> LET t == Least(rows) + i - 1
                                      IN  IF t \in rows THEN t ELSE t + shift]
<1>3. GapsFilled' <=> (~ Cached /\ report.kind # "summary" =>
                         [i \in DOMAIN result' |-> result'[i].time] = times)
  <2>1. phase' = "done"
    BY AtEnd
  <2> QED
    BY <1>1, <1>2, <2>1, Zenon DEF GapsFilled
<1>4. SUFFICES ASSUME ~ Cached, report.kind # "summary"
               PROVE  [i \in DOMAIN result' |-> result'[i].time] = times
  BY <1>3, Zenon
<1>5. result' = result
  BY <1>4 DEF HandleEnd, LastEntry
<1>6. /\ Len(result) = Handed - Least(rows)
      /\ \A i \in DOMAIN result : result[i].time = TimeOf(Least(rows) + i - 1)
  BY <1>4 DEF EveryTime
<1>7. Least(rows) \in Nat
  BY <1>1, LeastRow
<1>8. Len(result) = n
  BY <1>1, <1>6, <1>7
<1>9. DOMAIN result' = 1 .. n
  <2>1. result \in Seq(Entries)
    BY DEF Typed, TypeOK, Entries
  <2> QED
    BY <1>5, <1>8, <2>1
<1>10. \A i \in DOMAIN result' : result'[i].time = TimeOf(Least(rows) + i - 1)
  BY <1>5, <1>6
<1> HIDE DEF n
<1> QED
  BY <1>9, <1>10, Zenon DEF TimeOf

(* What a report has at the end.                                           *)
Ended == EachRowOnce /\ RowsInReach /\ GapsFilled

(* Nothing happens to a report that is at its end.                         *)
LEMMA EndedNext == Typed /\ Passing /\ Timely /\ Ended /\ [Next]_vars => Ended'
<1> SUFFICES ASSUME Typed, Passing, Timely, Ended, [Next]_vars, phase' = "done", rows' # {}
             PROVE  Ended'
  BY DEF Ended, EachRowOnce, RowsInReach, GapsFilled
<1>1. CASE HandleEnd
  <2>1. Pass /\ Reach /\ EveryTime
    BY <1>1 DEF HandleEnd, Passing, Timely
  <2>2. Cached /\ result # <<>> => cacheTime = result[Len(result)].time + report.step
    BY <2>1 DEF Reach, ReachOf, Following
  <2> QED
    BY <1>1, <2>1, <2>2, EndsInOrder, EndsInReach, EndsWithoutGaps DEF Ended
<1>2. CASE UNCHANGED vars
  <2>1. UNCHANGED <<phase, rows, shift, report, result>>
    BY <1>2 DEF vars, database, reading, caching
  <2>2. Cached' = Cached
    BY <2>1 DEF Cached
  <2>3. Ascending' = Ascending /\ Reported' = Reported
    BY <2>1 DEF Ascending, Reported, RealRows
  <2>4. LastLeftOut' = LastLeftOut
    BY <2>1, <2>2, <2>3 DEF LastLeftOut
  <2>5. EachRowOnce' <=> EachRowOnce
    BY <2>1, <2>3, <2>4 DEF EachRowOnce
  <2>6. RowsInReach' <=> RowsInReach
    <3>1. Least(rows') = Least(rows) /\ FirstTime(report)' = FirstTime(report)
      BY <2>1 DEF FirstTime
    <3>2. \A i \in DOMAIN result : RealRows(result'[i]) = RealRows(result[i])
      BY <2>1
    <3>3. \A t : (Least(rows') .. t \subseteq rows') <=> (Least(rows) .. t \subseteq rows)
      BY <2>1, <3>1
    <3> QED
      BY <2>1, <2>2, <3>1, <3>2, <3>3 DEF RowsInReach, Advance, Lags
  <2>7. GapsFilled' <=> GapsFilled
    BY <2>1, <2>2 DEF GapsFilled
  <2> QED
    BY <2>5, <2>6, <2>7 DEF Ended
<1>3. CASE Import
  BY <1>3 DEF Import, AddMeter, AddMeterFails, LoseMeters, GiveColumn, StoreLine, Importing
<1>4. CASE OpenRange
  BY <1>4 DEF OpenRange
<1>5. ASSUME NEW r \in Reports, ReadMeta(r)
      PROVE  FALSE
  BY <1>5 DEF ReadMeta
<1>6. CASE HandleStartFails \/ Panics
  BY <1>6 DEF HandleStartFails, Panics
<1>7. CASE NextRow
  BY <1>7 DEF NextRow
<1>8. CASE AddLine \/ AddToSum \/ CacheLine \/ FlushCache
  BY <1>8 DEF AddLine, AddToSum, CacheLine, FlushCache, Handle
<1> QED
  BY <1>1, <1>2, <1>3, <1>4, <1>5, <1>6, <1>7, <1>8 DEF Next, Query

(* The inductive invariant of a query.                                     *)
IInv == Typed /\ Passing /\ Worst /\ Timely /\ Ended

(* It holds for every set of rows, quality, report, time zone and number   *)
(* of meters: a report has exactly the rows that the loop of Query has     *)
(* handed to it (engine.go 285-322), its cache has the last of them, and   *)
(* the running entry is at most as far ahead of the next row as the zeros  *)
(* of a missing one say, and as far behind it as the first row was late.   *)
THEOREM QueryInductive == Spec => []IInv
<1>1. Init => IInv
  <2> SUFFICES ASSUME Init PROVE IInv
    OBVIOUS
  <2>1. phase = "open" /\ result = <<>>
    BY DEF Init
  <2>2. Typed
    BY TypedInit
  <2>3. Passing /\ Timely /\ Ended
    BY <2>1 DEF Passing, Timely, Ended, EachRowOnce, RowsInReach, GapsFilled
  <2>4. Worst
    BY <2>1 DEF Worst, QualityIsWorst
  <2> QED
    BY <2>2, <2>3, <2>4 DEF IInv
<1>2. IInv /\ [Next]_vars => IInv'
  BY TypedNext, PassingNext, WorstNext, TimelyNext, EndedNext, Zenon DEF IInv
<1> QED
  BY <1>1, <1>2, PTL DEF Spec

(* A report has every row of the period once and in order, but for the     *)
(* last one of a load curve that comes after the end of its last entry;    *)
(* the entries follow one another; no row is counted more than the time    *)
(* shift too early, and that only behind a missing row, nor too late, but  *)
(* for the rows that move on a report whose first entry is over before the *)
(* first row; a report without entries has one for every quarter hour; and *)
(* no entry hides the worst of its qualities (Cache.CacheLine, engine.go   *)
(* 181-198, and the loop of Query, 289-322).                               *)
THEOREM EntriesHaveTheirRows == Spec => []EntriesOfRows
<1>1. IInv => EntriesOfRows
  BY DEF IInv, Ended, Worst, EntriesOfRows
<1> QED
  BY <1>1, QueryInductive, PTL

=============================================================================
