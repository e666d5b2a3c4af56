\* The daemon started and stopped once while one client process checks
\* its version and makes one request, and may be killed once.
CONSTANTS
  w1 = w1
  w2 = w2
  l1 = l1
  l2 = l2
  c1 = c1
  None = None
  Workers <- MCWorkers
  Loops <- MCLoops
  Interruptible <- MCInterruptible
  Clients <- MCClients
  MaxInsts = 2
  MaxRetry = 2
  ServerCompatible = TRUE
  MaxKills = 1
SPECIFICATION Spec
INVARIANTS
  TypeOK
  NoEmptyDequeue
  InstancesCounted
PROPERTIES
  RequestsServed
  StopReturnsUnlessOrphaned
  RequestsReturn
\* Every client may be done and the daemon stopped or never started.
CHECK_DEADLOCK FALSE
