CONSTANTS
  s1 = s1
  s2 = s2
  p1 = p1
  p2 = p2
  p3 = p3
  Scheds = {s1, s2}
  Procs = {p2, p3}
  NotProcess = NotProcess
  NoBatch = NoBatch
  MaxCalls = 2
  Starts <- StartP2
  Affinities <- TiesItself
  Size = 1
  Ppd = 1
  MaxDisp = 1
  PoolSize = 4
SPECIFICATION FairSpec
INVARIANTS
  AffinityRespected
PROPERTIES
  EventuallyRuns
