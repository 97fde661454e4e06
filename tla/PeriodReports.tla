---------------------------- MODULE PeriodReports ----------------------------
(***************************************************************************)
(* The two reports on the energy of participants over a period: the one    *)
(* the web application asks for (ParticipantReport) and the workbook       *)
(* (EnergyExport), made one after the other from the same lines.  They add *)
(* up the same values in different ways: by days, and line by line.        *)
(***************************************************************************)
EXTENDS ParticipantReport, EnergyExport, SequencesExt

CONSTANT Askings  \* what the participants ask for: sequences of Requests

ASSUME ReportsAssumption ==
  /\ Askings \subseteq Seq(Requests)
  /\ \A c \in Calendars : /\ c.kind \in {"M", "Q", "H", "Y"}
                          /\ c.week \in [0 .. Days - 1 -> 1 .. 53]
                          /\ c.month \in [0 .. Days - 1 -> 1 .. 12]

(* The weeks of a quarter or a half, and the months of a year, ascend but  *)
(* for one turn of the year, and none of them comes twice.                 *)
RunsOn(number, round) ==
  \E turn \in 1 .. Days :
    /\ \A d, e \in 0 .. Days - 1 :
         d <= e /\ (e < turn \/ turn <= d) => number[d] <= number[e]
    /\ \A d \in 0 .. turn - 1 : number[d] < number[0] + round
    /\ \A d \in turn .. Days - 1 : number[d] < number[0]

ASSUME CalendarAssumption ==
  \A c \in Calendars : /\ c.kind \in {"Q", "H"} => RunsOn(c.week, 52)
                       /\ c.kind = "Y" => RunsOn(c.month, 12)

database == <<lines, joined>>
vars == <<database, reportVars, exportVars>>

Init ==
  /\ lines \in SUBSET Rows
  /\ joined \in {Midnight(d) : d \in 0 .. Days - 1}
  /\ asked \in Askings
  /\ cps = asked
  /\ ReportInit
  /\ ExportInit

Next ==
  \/ ReportNext /\ UNCHANGED <<database, exportVars>>
  \/ stage = "done" /\ ExportNext /\ UNCHANGED <<database, reportVars>>

Spec == Init /\ [][Next]_vars

-----------------------------------------------------------------------------
TypeOK ==
  /\ lines \subseteq Rows
  /\ joined \in Nat
  /\ stage \in {"begin", "lines", "done"} /\ calendar \in Calendars
  /\ asked \in Seq(Requests) /\ unread \in Seq(Rows) /\ daySum \in Seq(Rows)
  /\ day \in Rows
  /\ report \in [DOMAIN asked -> [summary : Seq(Rows), slots : Seq(Seq(Rows))]]
  /\ xstage \in {"begin", "lines", "done", "empty", "panic"}
  /\ cps \in Seq(Requests) /\ toRead \in Seq(Rows) /\ previous \in Rows \cup {-1}
  /\ total \in [DOMAIN cps -> Seq(Rows)]
  /\ complete \in [DOMAIN cps -> BOOLEAN]
  /\ marks \in [DOMAIN cps -> SUBSET {0, 2, 3}]
  /\ sheet \in Seq([at : Rows, cells : [DOMAIN cps -> BOOLEAN]])
  /\ log \in Seq([at : Rows, zero : BOOLEAN, width : Nat, qov : 0 .. 3])
  /\ logSheet \in Seq(SUBSET ((DOMAIN cps) \X (0 .. 3)))

(* The time that stands for a day is that of its first line, and counts    *)
(* against the midnight of the last day; only the first day of the period  *)
(* has its midnight for certain.                                           *)
LacksMidnight(d) == d # 0 /\ Midnight(d) \notin lines

(* The days of a request, but the last one when it lacks its midnight.     *)
DayCounts(r, d) ==
  /\ DayAt(r.from) <= d /\ d <= DayAt(r.until)
  /\ d = DayAt(r.until) => ~LacksMidnight(d)

RowsOwned(r) == ValuesIn(Sorted({t \in lines : DayCounts(r, DayOf(t))}), r.meter)

(* A participant's summary is all the energy of his meter on the days from *)
(* the one his time begins in to the one it ends in, each value once, also *)
(* where a meter changes hands within the period (calcDailyScope and       *)
(* appendEnergyToParticipantMeter, EEGCalculationV2.go 211-238 and         *)
(* 400-452).  It lacks all of his last day when the line of its midnight   *)
(* is missing.                                                             *)
SummaryIsOwned ==
  stage = "done" =>
    \A i \in DOMAIN asked :
      asked[i].meter \in DOMAIN Columns => report[i].summary = RowsOwned(asked[i])

(* The entries of days, weeks or months are in the order of time over      *)
(* every end of a year and together make the summary; those of a month     *)
(* hold each the values of one day (switchIntermediate and                 *)
(* EnsureIntermediatValueSlice, EEGCalculationV2.go 252-338, 340-388).     *)
EntriesMakeSummary ==
  \A i \in DOMAIN asked :
    LET slots == report[i].slots IN
      /\ FlattenSeq(slots) = report[i].summary
      /\ calendar.kind = "M" =>
           \A j \in DOMAIN slots : \A n \in DOMAIN slots[j] : DayOf(slots[j][n]) = j - 1

(* The sheet of energy has a row for every quarter hour from the first     *)
(* line to the last, in order (EnergyRunner.run, EnergyExport.go 261-284). *)
Least(S) == CHOOSE x \in S : \A y \in S : x <= y
Greatest(S) == CHOOSE x \in S : \A y \in S : x >= y

SheetHasEveryQuarter ==
  xstage = "done" =>
    [n \in DOMAIN sheet |-> sheet[n].at] = Sorted(Least(lines) .. Greatest(lines))

(* The sum of a participant in the summary is the sum of his cells in the  *)
(* sheet of energy, but for values of quality 0, whose cells are blank     *)
(* (SummarySheet.go 59-112, EnergyExport.go 323-376).                      *)
SumOfCells ==
  xstage \in {"lines", "done"} =>
    \A i \in DOMAIN cps :
      LET counted == {n \in DOMAIN total[i] : Quality[total[i][n]] # 0}
          shown   == PickedAt(sheet, {n \in DOMAIN sheet : sheet[n].cells[i]})
      IN  PickedAt(total[i], counted) = [n \in DOMAIN shown |-> shown[n].at]

(* A participant's data is complete exactly if no line of the log is in    *)
(* his period for a doubtful value of his (SummarySheet.go 77-80,          *)
(* checkQoV), provided that the lines have his column, those of zeros too: *)
(* these are as wide as there are participants in the export.              *)
CompleteIsUnlogged ==
  xstage \in {"lines", "done"} =>
    \A i \in DOMAIN cps :
      LET r == cps[i] IN
        Column(r) < Len(cps) /\ (\A t \in lines : Active(r, t) => Column(r) < Width(t))
          => (complete[i] <=> \A n \in DOMAIN log : Active(r, log[n].at) => QoVOf(r, log[n]) = 1)

(* The marks of a participant in the summary are the qualities that his    *)
(* values are labelled with in the log, and he has none exactly if his     *)
(* data is complete (SummarySheet.go 77-112 against QoVSheet.go 142-231).  *)
MarksAreLogged ==
  xstage = "done" =>
    \A i \in DOMAIN cps :
      /\ marks[i] = {q \in {0, 2, 3} : \E n \in DOMAIN logSheet : <<i, q>> \in logSheet[n]}
      /\ complete[i] <=> marks[i] = {}

(* The application and the workbook report the same energy for a time from *)
(* one midnight to another (calculation against IsLineDateOutOfRange,      *)
(* timeUtils.go 149-152), each value once.  For other times only the       *)
(* application counts what its first day had before, and only the workbook *)
(* what comes after the last day, up to a day after the time's end, and a  *)
(* last day without a line at midnight.                                    *)
ReportsAgree ==
  xstage = "done" =>
    \A i \in DOMAIN asked :
      LET r         == asked[i]
          last      == DayAt(r.until)
          inReport  == ToSet(report[i].summary)
          inSummary == ToSet(total[i])
      IN  /\ report[i].summary = Sorted(inReport) /\ total[i] = Sorted(inSummary)
          /\ inReport \ inSummary = {t \in inReport : t < FirstRow(r.from)}
          /\ inSummary \ inReport =
               {t \in inSummary : /\ t < FirstRow(r.until) + DayLen
                                  /\ \/ DayOf(t) > last
                                     \/ DayOf(t) = last /\ LacksMidnight(last)}

(* The report of a participant counts each value of his once, in the       *)
(* summary and in its entries (EEGCalculationV2.go 244-452).               *)
ReportCountsOnce == SummaryIsOwned /\ EntriesMakeSummary

(* The sheets of the workbook agree: rows, cells, sums, marks and the log  *)
(* of doubtful values (EnergyExport.go 237-376, SummarySheet.go 59-112).   *)
WorkbookAgrees ==
  SheetHasEveryQuarter /\ SumOfCells /\ CompleteIsUnlogged /\ MarksAreLogged

=============================================================================
