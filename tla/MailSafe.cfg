SPECIFICATION Spec
CONSTANTS
  s1 = s1
  s2 = s2
  s3 = s3
  p1 = p1
  p2 = p2
  Scheds = {s1, s2}
  Procs = {p1, p2}
  NotProcess = NotProcess
  Bscs = {b1, b2}
  First = s2
  Main = p1
  Affinities <- SameHome
  Callers = {p1, p2}
  PipeSize = 1
SYMMETRY BscSymmetry
CHECK_DEADLOCK FALSE
INVARIANTS
  NobodySleepsOverMail
PROPERTIES
  ImplementsScheduling
