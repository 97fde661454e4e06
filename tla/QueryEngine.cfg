\* All sets of lines of a day and a half, all periods and reports, in UTC and
\* two quarter hours east of it, while an import adds a meter and lines.  The
\* query ends, so deadlock is not checked.
CONSTANTS
  Horizon = 6
  HourLen = 2
  DayLen = 4
  WeekDays = 2
  Month = 2
  HalfYear = 4
  Reports <- AllReports
  Shifts = {0, 2}
  Quality <- Qualities
  MaxMeters = 2
  None = None
SPECIFICATION Spec
INVARIANTS TypeOK ColumnsFit EntriesOfRows HoursOfDays
CHECK_DEADLOCK FALSE
