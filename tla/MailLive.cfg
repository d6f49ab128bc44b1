SPECIFICATION FairSpec
CONSTANTS
  s1 = s1
  s2 = s2
  s3 = s3
  p1 = p1
  p2 = p2
  Scheds = {s1, s2}
  Procs = {p1, p2}
  NotProcess = NotProcess
  Bscs = {b1}
  First = s1
  Main = p1
  Affinities <- Moving
  Callers = {}
  PipeSize = 1
CHECK_DEADLOCK FALSE
INVARIANTS
  NoFalseDeadlock
PROPERTIES
  MailDelivered
  DeadlockReported
