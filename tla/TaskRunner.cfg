CONSTANTS
  t1 = t1
  t2 = t2
  t3 = t3
  o1 = o1
  None = None
  Tasks = {t1, t2, t3}
  Others = {o1}
  Cap = 1
  QueueMax = 3
  MaxTurns = 2
  QueueFaults = FALSE
  Criteria = {}
  Scratch = {}
SPECIFICATION Spec
SYMMETRY Symmetry
INVARIANTS
  RunnerIsSound
  HeldIsCurrent
  NothingStranded
  NothingUnderAbandon
  NeverIdleWithWork
