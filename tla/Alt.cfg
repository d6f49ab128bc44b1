SPECIFICATION FairSpec
CONSTANTS
  c1 = c1
  c2 = c2
  w1 = w1
  w2 = w2
  r = r
  Scheds = {s1, s2, s3}
  Procs = {w1, w2, r}
  Chans = {c1, c2}
  NotProcess = NotProcess
  Timers = {}
  Skip = Skip
  None = None
  Junk = Junk
  ReaderOps = {"in", "xin", "alt"}
  Writer <- MCWriter
  Reader <- MCReader
  Ops <- MCOps
  Alts <- MCAlts
  ReaderAlts <- SafeAlts
INVARIANTS
  NeverScheduledTwice
  StateWordNotReused
  ReferencesCounted
  SelectedByPriority
PROPERTIES
  ImplementsRendezvous
  AltSelects
  PartnersMeet
