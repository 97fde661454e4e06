-------------------------- MODULE MCPeriodReports --------------------------
(* Small instances of PeriodReports: three days of two quarter hours, with *)
(* all others of the period without lines, at several places of it.        *)
EXTENDS PeriodReports

CONSTANTS House, Flat, Absent

MCColumns == [m \in {House, Flat} |-> IF m = House THEN 0 ELSE 1]

MCQuality == <<1, 1, 2, 0, 3, 1>>
Qualities == [t \in Rows |-> MCQuality[t + 1]]

OnDays(s) == [d \in 0 .. Days - 1 |-> s[d + 1]]
Calendar(kind, week, month) == [kind |-> kind, week |-> OnDays(week), month |-> OnDays(month)]
MCCalendars ==
  {Calendar("M", <<27, 27, 27>>, <<7, 7, 7>>),
   Calendar("Q", <<53, 1, 2>>, <<1, 1, 1>>),      \* begins in week 53 of the year before
   Calendar("Q", <<40, 52, 1>>, <<10, 12, 12>>),  \* ends in week 1 of the next year
   Calendar("H", <<52, 1, 2>>, <<1, 1, 1>>),
   Calendar("H", <<27, 52, 1>>, <<7, 12, 12>>),
   Calendar("Y", <<1, 26, 53>>, <<1, 6, 12>>)}

(* Times of a day: midnight, noon, and 23:59:59.                           *)
Begin(d) == 2 * Midnight(d)
Noon(d)  == 2 * Midnight(d) + DayLen
End(d)   == 2 * Midnight(d + 1) - 1

Request(m, from, until) == [meter |-> m, from |-> from, until |-> until]
MCAskings ==
  {<<Request(House, Begin(0), Begin(2))>>,
   <<Request(Flat, Begin(0), End(1))>>,
   <<Request(House, Begin(-9), Begin(0)), Request(House, Begin(1), End(9))>>,  \* changes hands
   <<Request(Flat, Noon(0), Noon(2)), Request(House, Noon(1), End(1))>>,
   <<Request(House, Begin(-9), End(-1))>>,                     \* not of the period
   <<Request(House, Begin(0), Begin(2)), Request(Absent, Begin(0), Begin(2))>>}

=============================================================================
