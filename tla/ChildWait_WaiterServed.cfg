\* sigaction (SIGCHLD, SIG_DFL) between the reaper's SIGCHLD and wait_sig
\* taking it: the rescan that would serve a blocked wait4 caller is lost.
CONSTANTS
  w1 = w1
  w2 = w2
  Kids <- MCKids
  Waiters <- MCOneWaiter
  Patterns <- MCPatterns
  MyPgid = 1
  PSIZE = 3
  NZOMBIES = 2
  SigchldIgn = FALSE
  MaxWaits = 1
  MaxInterrupts = 1
  MaxClears = 1
  MaxExec = 1
  MaxStops = 1
  MaxTerminate = 0
SPECIFICATION Spec

PROPERTIES WaiterServed
\* The process may stop spawning and waiting: every thread then blocks.
CHECK_DEADLOCK FALSE
