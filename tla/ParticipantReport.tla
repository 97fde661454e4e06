-------------------------- MODULE ParticipantReport --------------------------
(***************************************************************************)
(* calculation/EEGCalculationV2.go: the energy of participants over a      *)
(* month, a quarter, a half or a whole year.  The lines of a day are added *)
(* up, and at the end of a day the sums are added to the participants that *)
(* own a meter on this day: to their summary and to the entry of the day,  *)
(* week or month (Intermediate).                                           *)
(***************************************************************************)
EXTENDS SourceLines

CONSTANT Calendars  \* where a period is: its kind ("M", "Q", "H" or "Y"), and
                    \* the ISO weeks and the months of its days

VARIABLES
  stage,     \* where the calculation is: "begin", "lines", "done"
  calendar,  \* the kind of period and where it is
  asked,     \* the meters of the participants, with their first and last day
  unread,    \* what the iterator has still to return
  day,       \* the time that stands for the running day
  daySum,    \* the lines of this day
  report     \* per request the summary and the entries

reportVars == <<stage, calendar, asked, unread, day, daySum, report>>

Larger(a, b) == IF a < b THEN b ELSE a

(* Mutation of Slot: Go's remainder of a negative number, not the modulus. *)
Slot_Remainder(d) ==
  LET weeks == calendar.week[d] - calendar.week[0]
  IN  IF calendar.kind = "M" THEN d + 1 ELSE Larger(weeks, 1)

(* switchIntermediate: which entry the day d belongs to.  A year that      *)
(* begins in its first week has its first two weeks in one entry.          *)
Slot(d) ==
  LET weeks  == calendar.week[d] - calendar.week[0]
      months == calendar.month[d] - calendar.month[0]
  IN  CASE calendar.kind = "M" -> d + 1
        [] calendar.kind = "Q" -> Larger(weeks % 52, 1)
        [] calendar.kind = "H" -> Larger(weeks % 53, 1)
        [] calendar.kind = "Y" -> Larger((months % 12) + 1, 1)

(* EnsureIntermediatValueSlice, and the sum in the entry.                  *)
AddToSlot(slots, i, values) ==
  [j \in 1 .. Larger(Len(slots), i) |->
     (IF j <= Len(slots) THEN slots[j] ELSE <<>>) \o (IF j = i THEN values ELSE <<>>)]

(* Whether the running day is one of a request: its times, truncated to    *)
(* midnights, enclose the one that stands for the day.                     *)
Owned(r) ==
  /\ r.meter \in DOMAIN Columns
  /\ Midnight(DayAt(r.from)) <= day /\ day <= Midnight(DayAt(r.until))

(* appendEnergyToParticipantMeter, at the end of a day.                    *)
DayAdded ==
  [i \in DOMAIN asked |->
     IF Owned(asked[i])
     THEN LET values == ValuesIn(daySum, asked[i].meter)
          IN  [summary |-> report[i].summary \o values,
               slots   |-> AddToSlot(report[i].slots, Slot(DayOf(day)), values)]
     ELSE report[i]]

-----------------------------------------------------------------------------
ReportInit ==
  /\ stage = "begin"
  /\ calendar \in Calendars
  /\ unread = <<>> /\ day = 0 /\ daySum = <<>>
  /\ report = [i \in DOMAIN asked |-> [summary |-> <<>>, slots |-> <<>>]]

(* The iterator over the period; the first day is the first of the period. *)
BeginReport ==
  /\ stage = "begin"
  /\ unread' = Sorted(lines)
  /\ stage' = "lines"
  /\ UNCHANGED <<calendar, asked, day, daySum, report>>

(* calcDailyScope: a line of the running day, or the first of another one, *)
(* whose time then stands for the day.                                     *)
AddLineToDay ==
  /\ stage = "lines" /\ unread # <<>>
  /\ DayOf(Head(unread)) = DayOf(day)
  /\ daySum' = Append(daySum, Head(unread))
  /\ unread' = Tail(unread)
  /\ UNCHANGED <<stage, calendar, asked, day, report>>

NextDay ==
  /\ stage = "lines" /\ unread # <<>>
  /\ DayOf(Head(unread)) # DayOf(day)
  /\ report' = DayAdded
  /\ daySum' = <<Head(unread)>>
  /\ day' = Head(unread)
  /\ unread' = Tail(unread)
  /\ UNCHANGED <<stage, calendar, asked>>

EndReport ==
  /\ stage = "lines" /\ unread = <<>>
  /\ report' = DayAdded
  /\ stage' = "done"
  /\ UNCHANGED <<calendar, asked, unread, day, daySum>>

ReportNext == BeginReport \/ AddLineToDay \/ NextDay \/ EndReport

=============================================================================
