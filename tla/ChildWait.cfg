\* Children, reaper and one wait4 caller: exec hand-off, stop and setpgid
\* of two children; the zombie table holds one zombie (NZOMBIES 2), so a
\* second one is reaped at once.  One sigaction on SIGCHLD may discard the
\* pending SIGCHLD.  One PROC_CLEARWAIT (1): an interrupt or proc_terminate.
CONSTANTS
  w1 = w1
  w2 = w2
  Kids <- MCKids
  Waiters <- MCOneWaiter
  Patterns <- MCPatterns
  MyPgid = 1
  PSIZE = 3
  NZOMBIES = 2
  SigchldIgn = FALSE
  MaxWaits = 1
  MaxInterrupts = 1
  MaxClears = 1
  MaxExec = 1
  MaxStops = 1
  MaxTerminate = 1
SPECIFICATION Spec
INVARIANTS TypeOK ChildInOneTable ZombieMeansExited ReapedOnce
PROPERTIES TerminationNoticed WaiterServedUnlessCleared
\* The process may stop spawning and waiting: every thread then blocks.
CHECK_DEADLOCK FALSE
