SPECIFICATION FairSpec
CONSTANTS
  Procs = {p1, p2}
  Threads = {1, 2, 3}
  MaxKills = 2
  Pools = {0, 1}
  NoProc = NoProc
  NoThread = NoThread
  MaxRunning = 2
  MaxMissed = 1
CHECK_DEADLOCK FALSE
INVARIANTS
  ReturnsOnce
  PendingCoversCalls
  ThreadsAccounted
  KilledWhileInRegion
PROPERTIES
  TakenCallsReturn
  CallsReturn
