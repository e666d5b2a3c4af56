\* Two threads race on the first gettimeofday of the process.
CONSTANTS
  t1 = t1
  t2 = t2
  Threads <- MCThreads
  W = 3
  HB = 14
  FACTOR = 20000
  Boot = 6
  MaxTime = 10
  MaxCalls = 1
SPECIFICATION Spec
INVARIANT
  GtodAccurate
\* Once both calls are made and the clock is used up nothing more happens.
CHECK_DEADLOCK FALSE
