SPECIFICATION FairSpec
CONSTANTS
  Scheds = {s1, s2}
  Procs = {p1, p2, p3}
  Members = {p1, p2}
  NotProcess = NotProcess
INVARIANTS
  TypeOK
  CountExact
  NoHeadForgotten
PROPERTIES
  ImplementsBarrier
  EveryoneGetsThrough
