\* Signal calls of two threads and a remote sender; the signal thread's
\* start and teardown against a sig_send of the main and another thread;
\* two timer calls against the win thread; two environment calls and one
\* spawn, from either start of environ_init; kill_pgrp against exits, stops
\* and setpgid of the other processes; two gettimeofday calls of one thread;
\* one call of utime, utimes, times, time or ftime; two threads exiting;
\* a parent's environ_init and its child's; three group database calls;
\* two wait4 callers against the reaper and proc_terminate; three
\* processes allocating, opening and releasing ttys.
CONSTANTS
  tm = tm
  tn = tn
  pr = pr
  NoOptKey = NoOptKey
  NoGrpFile = NoGrpFile
  Threads <- MCThreads
  Main = tm
  Remote <- MCRemote
  UserSigs <- MCUserSigs
  MaskChoices <- MCMaskChoices
  ActSigs <- MCActSigs
  Budget <- MCBudget
SPECIFICATION ProcSpec
INVARIANTS
  ProcTypeOK
  NoSignalLost
  SelfLast
  ReachesStableMembers
  SuccessMeansAllSignalled
  GtodAccurateBeforeWrap
  ReadyBeforeNotify
  HandshakeWaiterReleased
  UtimeRoundTrip
  ChildTimesInTicks
  StagesOnce
  ExportRoundTrip
  GroupListsMatchPosix
  WaitReapedOnce
  ScanMatchesReference
PROPERTIES
  SyncSendReturns
  EnvRefinesMap
  ChildEnvCurrent
  ExitCompletes
\* Once the calls, the clock and the spawn are used up the timer,
\* environment and clock parts do nothing more, and every tty process may
\* have exited.
CHECK_DEADLOCK FALSE
