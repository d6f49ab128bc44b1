SPECIFICATION TimerFairSpec
CONSTANTS
  c1 = c1
  t1 = t1
  t2 = t2
  w = w
  r = r
  Scheds = {s1, s2}
  Procs = {w, r}
  Chans = {c1}
  Timers = {t1}
  Nodes = {1, 2}
  NotProcess = NotProcess
  Skip = Skip
  None = None
  Junk = Junk
  Wrap = 4
  Lag = 0
  TinDelays = {0}
  Writer <- MCWriter
  Reader <- MCReader
  Ops <- MCOps
  Alts <- MCAlts
  Delay <- MCDelay
  ReaderAlts <- OneTimer
PROPERTIES
  EverybodyWakes
