\* Three consumers and a producer, values of one code or of all for two rows, and
\* two commands.  Everything may have been imported and all commands run, so
\* deadlock is not checked.
CONSTANTS
  a = a  b = b  c = c  g = g
  Meters = {a, b, c, g}
  Dir <- MCDir
  Rows = {1, 2}
  Reading <- MCReading
  Messages <- MCMessages
  MaxCommands = 2
  Idle = Idle
SPECIFICATION Spec
INVARIANTS MaintenanceTypeOK ColumnsApart ReadingsFollow ReportIsSum
PROPERTY ImportsStayApart
CHECK_DEADLOCK FALSE
