SPECIFICATION FairSpec
CONSTANTS
  Scheds = {s1, s2}
  Procs = {p1, p2, p3}
  NotProcess = NotProcess
INVARIANTS
  TypeOK
  MutualExclusion
  ScheduledOnce
  NeverLost
PROPERTIES
  ImplementsSemaphore
  EventuallyGranted
