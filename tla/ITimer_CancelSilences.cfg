\* A periodic timer, then a cancel while the win thread handles its
\* WM_TIMER.
CONSTANTS
  UBits = 16
  Values <- MCValues
  Intervals <- MCIntervals
  MaxCalls = 3
SPECIFICATION Spec
INVARIANT
  CancelSilences
\* Once the calls and the clock are used up the program does nothing more.
CHECK_DEADLOCK FALSE
