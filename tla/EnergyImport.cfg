\* Two messages or three for two consumers and a generator, each of one or two days
\* of 24 hours, or two of a consumer for the days about the end of summer time, of
\* which the third has an hour of two intervals twice; the writes of the lines and of
\* the period of a part may fail.  The worker is done at the end, so deadlock is not
\* checked.
CONSTANTS
  a = a  b = b  g = g
  Meters = {a, b, g}
  Dir <- MCDir
  DayLen = 3
  ChangeAt = 1
  FlushSize = 2
  Midnights = {0, 3, 6, 11}
  Horizon = 12
  Batches <- ImportBatches
  Faults = {"lines", "period"}
  Never = Never
SPECIFICATION PeriodSpec
INVARIANTS TypeOK MessageStored 
PROPERTY ImplementsEnergyStore
CHECK_DEADLOCK FALSE
