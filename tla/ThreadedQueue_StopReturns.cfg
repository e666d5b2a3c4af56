\* stop () while a submission loop is inside add ().
CONSTANTS
  w1 = w1
  w2 = w2
  l1 = l1
  l2 = l2
  r1 = r1
  r2 = r2
  None = None
  Workers <- MCWorkers
  Loops <- MCLoops
  Interruptible <- MCInterruptible
  Reqs <- MCReqs
SPECIFICATION Spec
PROPERTIES
  StopReturns
\* After stop () returns, or before start () with no request accepted, the
\* daemon may simply do nothing more.
CHECK_DEADLOCK FALSE
