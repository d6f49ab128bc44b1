SPECIFICATION TimerSpec
CONSTANTS
  c1 = c1
  t1 = t1
  t2 = t2
  w = w
  r = r
  Scheds = {s1, s2}
  Procs = {w, r}
  Chans = {c1}
  Timers = {t1, t2}
  Nodes = {1, 2, 3}
  NotProcess = NotProcess
  Skip = Skip
  None = None
  Junk = Junk
  Wrap = 8
  Lag = 1
  TinDelays = {0}
  Writer <- MCWriter
  Reader <- MCReader
  Ops <- MCOps
  Alts <- MCAlts
  Delay <- MCDelay
  ReaderAlts <- TimersLast
SYMMETRY SchedSymmetry
INVARIANTS
  NeverScheduledTwice
  NodeNotReused
  TimerReferencesCounted
PROPERTIES
  NobodyEarly
