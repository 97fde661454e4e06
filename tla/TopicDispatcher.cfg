\* Two tenants, three messages, job channels of one, one failing open and one
\* loss of the connection, after which one message may be delivered again; the
\* shutdown may come at any time.  The process ends, so deadlock is not checked.
CONSTANTS
  m1 = m1  m2 = m2  m3 = m3
  ta = ta  tb = tb  ec1 = ec1  ec2 = ec2
  Messages = {m1, m2, m3}
  Tenants = {ta, tb}
  ECs = {ec1, ec2}
  TenantOf <- MCTenantOf
  EcOf <- MCEcOf
  Garbled = {m2}
  Refused = {}
  QueueCap = 1
  PoolSize = 2
  MaxFaults = 1
  MaxLosses = 1
  Again = {m1}
  Nil = Nil
SPECIFICATION FairSpec
INVARIANTS TypeOK AcceptedInOrder ClosedBeforePool
PROPERTIES EveryMessageExecuted StoragesReleased ShutdownEnds
CHECK_DEADLOCK FALSE
