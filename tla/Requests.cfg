\* Two goroutines, each serving requests or being a worker, for a community with
\* one object; a signal may come at any time.  The process stops in the
\* end, so deadlock is not checked.
CONSTANTS
  c1 = c1  c2 = c2  ec1 = ec1  s1 = s1  h1 = h1  h2 = h2
  Clients = {c1, c2}
  ECs = {ec1}
  Slots = {s1}
  Handles = {h1, h2}
  Nil = Nil
  Main = Main
  Warm = {ec1}
  Faults = {}
  Shutdown = TRUE
  Handlers <- MCHandlers
SPECIFICATION RequestsFairSpec
INVARIANTS RequestsTypeOK OneTrueAnswer OrderlyShutdown
PROPERTIES NothingStuck ShutdownCompletes
CHECK_DEADLOCK FALSE
