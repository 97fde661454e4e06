---------------------------- MODULE EnergyExport ----------------------------
(***************************************************************************)
(* excel/EnergyExport.go: the workbook of a period.  Each line, and a line *)
(* of zeros for each that is missing, is given to the sheet "Summary"      *)
(* (SummarySheet.go), which adds up the energy of each participant and     *)
(* says whether it is complete, and to "Energiedaten" (EnergySheet.go),    *)
(* which has a row per line and keeps the lines of doubtful quality for a  *)
(* third sheet, the "QoV Log" (QoVSheet.go), which labels their values.     *)
(***************************************************************************)
EXTENDS SourceLines

VARIABLES
  xstage,    \* "begin", "lines", "done", "empty" (no rows) or "panic"
  cps,       \* the meters of the participants, with their first and last day
  toRead,    \* what the iterator has still to return
  previous,  \* the time of the row read last, -1 before the first
  total,     \* per participant the lines added up in the summary
  complete,  \* per participant the answer to "Daten vollständig?"
  marks,     \* per participant the qualities marked in the summary: L0, L2, L3
  sheet,     \* the rows of the sheet of energy: a time and a cell each
  log,       \* the lines of the log
  logSheet   \* its rows: which participant's value is labelled with what

exportVars ==
  <<xstage, cps, toRead, previous, total, complete, marks, sheet, log, logSheet>>

(* A line of zeros has a column for each participant, and quality 0.       *)
RealLine(t) == [at |-> t, zero |-> FALSE, width |-> Width(t), qov |-> Quality[t]]
ZeroLine(t) == [at |-> t, zero |-> TRUE, width |-> Len(cps), qov |-> 0]

(* Mutation of Active: a participant's values end with his time.           *)
Active_Midnight(r, t) == FirstRow(r.from) <= t /\ t <= FirstRow(r.until)

(* IsLineDateOutOfRange, which truncates nothing: 86 340 000 ms are        *)
(* 23 hours and 59 minutes.                                                *)
Active(r, t) == FirstRow(r.from) <= t /\ t <= FirstRow(r.until) + DayLen - 1

Column(r) == Columns[r.meter]

(* GetInt: the quality of a column the line does not have is 0.            *)
QoVOf(r, ln) == IF Column(r) < ln.width THEN ln.qov ELSE 0

(* SummarySheet.handleLine.                                                *)
Summed(ln) ==
  [i \in DOMAIN cps |->
     IF Active(cps[i], ln.at) /\ Column(cps[i]) < ln.width /\ ~ln.zero
     THEN Append(total[i], ln.at) ELSE total[i]]

(* The quality counts where the line has the column.                       *)
StillComplete(ln) ==
  [i \in DOMAIN cps |->
     complete[i] /\ (~Active(cps[i], ln.at) \/ ln.width <= Column(cps[i]) \/ ln.qov = 1)]

(* QoVSum: a quality other than 1 is marked where the line has the column. *)
Marked(ln) ==
  [i \in DOMAIN cps |->
     marks[i] \cup {q \in {0, 2, 3} :
                     Active(cps[i], ln.at) /\ Column(cps[i]) < ln.width /\ ln.qov = q}]

(* Mutation of Cells: values of quality 3 are left out as well.            *)
Cells_NoL3(ln) ==
  [i \in DOMAIN cps |-> Active(cps[i], ln.at) /\ QoVOf(cps[i], ln) \in 1 .. 2]

(* addLine: which of the participants have a value in the row.             *)
Cells(ln) == [i \in DOMAIN cps |-> Active(cps[i], ln.at) /\ QoVOf(cps[i], ln) \in 1 .. 3]

(* addLineQoV: the label of each value the line has.                       *)
Labelled(ln) ==
  {i \in DOMAIN cps : Active(cps[i], ln.at) /\ Column(cps[i]) < ln.width} \X {ln.qov}

(* checkQoV.                                                               *)
Doubtful(ln) == \E i \in DOMAIN cps : Active(cps[i], ln.at) /\ QoVOf(cps[i], ln) # 1

-----------------------------------------------------------------------------
(* Mutation of ExportInit: no participant has an answer yet.               *)
ExportInit_Unknown ==
  /\ xstage = "begin"
  /\ toRead = <<>> /\ previous = -1
  /\ total = [i \in DOMAIN cps |-> <<>>]
  /\ complete = <<>>
  /\ marks = [i \in DOMAIN cps |-> {}]
  /\ sheet = <<>> /\ log = <<>> /\ logSheet = <<>>

(* createRunnerContext: who has values at all may be complete.             *)
ExportInit ==
  /\ xstage = "begin"
  /\ toRead = <<>> /\ previous = -1
  /\ total = [i \in DOMAIN cps |-> <<>>]
  /\ complete = [i \in DOMAIN cps |-> cps[i].meter \in DOMAIN Columns]
  /\ marks = [i \in DOMAIN cps |-> {}]
  /\ sheet = <<>> /\ log = <<>> /\ logSheet = <<>>

(* initSheets: addHeaderV2 looks up every meter in the meta record and     *)
(* dereferences what it finds.                                             *)
InitSheetsPanics ==
  /\ xstage = "begin"
  /\ \E i \in DOMAIN cps : cps[i].meter \in Strangers
  /\ xstage' = "panic"
  /\ UNCHANGED <<cps, toRead, previous, total, complete, marks, sheet, log, logSheet>>

InitSheets ==
  /\ xstage = "begin"
  /\ \A i \in DOMAIN cps : cps[i].meter \notin Strangers
  /\ toRead' = Sorted(lines)
  /\ xstage' = IF lines = {} THEN "empty" ELSE "lines"
  /\ UNCHANGED <<cps, previous, total, complete, marks, sheet, log, logSheet>>

HandleLine(ln) ==
  /\ total' = Summed(ln)
  /\ complete' = StillComplete(ln)
  /\ marks' = Marked(ln)
  /\ sheet' = Append(sheet, [at |-> ln.at, cells |-> Cells(ln)])
  /\ log' = IF Doubtful(ln) THEN Append(log, ln) ELSE log

Gap == previous # -1 /\ Head(toRead) # previous + 1

(* The loop of run: a line of zeros, which is one quarter hour further     *)
(* than the last, or the row read.                                         *)
FillGap ==
  /\ xstage = "lines" /\ toRead # <<>> /\ Gap
  /\ HandleLine(ZeroLine(previous + 1))
  /\ previous' = previous + 1
  /\ UNCHANGED <<xstage, cps, toRead, logSheet>>

HandleRow ==
  /\ xstage = "lines" /\ toRead # <<>> /\ ~Gap
  /\ HandleLine(RealLine(Head(toRead)))
  /\ previous' = Head(toRead)
  /\ toRead' = Tail(toRead)
  /\ UNCHANGED <<xstage, cps, logSheet>>

(* closeSheets, and the sheet of the log with a row for each of its lines. *)
EndExport ==
  /\ xstage = "lines" /\ toRead = <<>>
  /\ xstage' = "done"
  /\ logSheet' = [n \in DOMAIN log |-> Labelled(log[n])]
  /\ UNCHANGED <<cps, toRead, previous, total, complete, marks, sheet, log>>

ExportNext == InitSheetsPanics \/ InitSheets \/ FillGap \/ HandleRow \/ EndExport

=============================================================================
