\* The main thread and one other, two sig_send calls each, one of them
\* possibly made during dll_crt0_1.
CONSTANTS
  mt = mt
  ot = ot
  Threads <- MCThreads
  Main = mt
  Budget = 2
  NRelease = 20
SPECIFICATION Spec
INVARIANT HandshakeSound
\* After exit, or with the calls used up, the threads stop.
CHECK_DEADLOCK FALSE
