\* All sets of lines of three days, six sets of requests, every kind of
\* period.  The reports end, so deadlock is not checked.
CONSTANTS
  Days = 3
  DayLen = 2
  House = House
  Flat = Flat
  Absent = Absent
  Columns <- MCColumns
  Strangers = {Absent}
  Quality <- Qualities
  Calendars <- MCCalendars
  Askings <- MCAskings
SPECIFICATION Spec
INVARIANTS TypeOK ReportCountsOnce WorkbookAgrees ReportsAgree
CHECK_DEADLOCK FALSE
