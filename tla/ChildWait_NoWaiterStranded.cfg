\* PROC_CLEARWAIT (1) with two wait4 callers queued and a one-slot child
\* table (PSIZE 2): the scan skips the node after the one it unlinks and
\* then empties the queue.
CONSTANTS
  w1 = w1
  w2 = w2
  Kids <- MCKids
  Waiters <- MCTwoWaiters
  Patterns <- MCPatterns
  MyPgid = 1
  PSIZE = 2
  NZOMBIES = 2
  SigchldIgn = TRUE
  MaxWaits = 1
  MaxInterrupts = 1
  MaxClears = 0
  MaxExec = 0
  MaxStops = 0
  MaxTerminate = 0
SPECIFICATION Spec
INVARIANT NoWaiterStranded
CHECK_DEADLOCK FALSE
