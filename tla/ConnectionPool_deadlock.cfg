\* Two goroutines more than the community has objects.  The goroutines end up
\* waiting for each other; TLC reports that as the property, not as a deadlock.
CONSTANTS
  g1 = g1  g2 = g2  g3 = g3  g4 = g4  ec1 = ec1  ec2 = ec2
  s1 = s1  s2 = s2  h1 = h1  h2 = h2  h3 = h3  h4 = h4  h5 = h5
  Clients = {g1, g2, g3, g4}
  ECs = {ec1}
  Slots = {s1, s2}
  Handles = {h1, h2}
  Nil = Nil
  Main = Main
  Warm = {ec1}
  Faults = {}
  Shutdown = FALSE
SPECIFICATION FairSpec
PROPERTY GetReturns
CHECK_DEADLOCK FALSE
