\* Three goroutines, two communities with two objects each: waiting, hand-over,
\* idle close and re-open; any open or close may fail, and main() closes the
\* pool while goroutines are still inside it.  One community is first used in
\* the run.  The process stops in the end, so deadlock is not checked.
CONSTANTS
  g1 = g1  g2 = g2  g3 = g3  g4 = g4  ec1 = ec1  ec2 = ec2
  s1 = s1  s2 = s2  h1 = h1  h2 = h2  h3 = h3  h4 = h4  h5 = h5
  Clients = {g1, g2, g3}
  ECs = {ec1, ec2}
  Slots = {s1, s2}
  Handles = {h1, h2, h3, h4}
  Nil = Nil
  Main = Main
  Warm = {ec1}
  Faults = {"open", "close"}
  Shutdown = TRUE

SPECIFICATION Spec
SYMMETRY Symmetry
INVARIANTS TypeOK PoolConsistent CleanExit
PROPERTY ImplementsLease
CHECK_DEADLOCK FALSE
