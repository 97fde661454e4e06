\* A close that has seen the channel full waits for dpo.mu while another
\* goroutine takes an object and the handle.
CONSTANTS
  g1 = g1  g2 = g2  g3 = g3  g4 = g4  ec1 = ec1  ec2 = ec2
  s1 = s1  s2 = s2  h1 = h1  h2 = h2  h3 = h3  h4 = h4  h5 = h5
  Clients = {g1, g2}
  ECs = {ec1}
  Slots = {s1, s2}
  Handles = {h1, h2, h3}
  Nil = Nil
  Main = Main
  Warm = {ec1}
  Faults = {}
  Shutdown = FALSE
SPECIFICATION Spec
INVARIANT HolderHasDatabase
