\* setitimer while the win thread holds a WM_TIMER of the previous timer.
CONSTANTS
  UBits = 16
  Values <- MCValues
  Intervals <- MCIntervals
  MaxCalls = 3
SPECIFICATION Spec
INVARIANT
  ArmedWhilePending
\* Once the calls and the clock are used up the program does nothing more.
CHECK_DEADLOCK FALSE
