\* Two consumers, each with one message for the two days at the end of summer
\* time, the first of them of 25 hours.
CONSTANTS
  a = a  b = b  g = g
  Meters = {a, b}
  Dir <- MCDir
  DayLen = 4
  ChangeAt = 1
  FlushSize = 2
  Midnights = {0, 5, 9}
  Horizon = 9
  Batches <- SwitchBatches
  Faults = {}
  Never = Never
SPECIFICATION PeriodSpec
INVARIANT ValuesStored
CHECK_DEADLOCK FALSE
