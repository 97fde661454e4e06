\* An upload of any of six sheets while two messages are imported; writes may
\* fail, and the process may die once.  Everything is imported at the end, so
\* deadlock is not checked.
CONSTANTS
  a = a  b = b  g = g
  Meters = {a, b, g}
  Dir <- MCDir
  DayLen = 3
  ChangeAt = 0
  FlushSize = 1
  Midnights = {0, 3}
  Horizon = 6
  Batches <- MCBatches
  Faults = {"lines", "meta", "period"}
  Never = Never
  Files <- MCFiles
  MaxUploads = 1
  MaxCrashes = 1
  NoFile = NoFile
SPECIFICATION WorkbookSpec
INVARIANTS WorkbookTypeOK ColumnsOwned SheetReadings
PROPERTY MetersKeepTheirs
CHECK_DEADLOCK FALSE
