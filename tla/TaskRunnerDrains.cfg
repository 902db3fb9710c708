CONSTANTS
  t1 = t1
  t2 = t2
  t3 = t3
  o1 = o1
  None = None
  Tasks = {t1, t2}
  Others = {o1}
  Cap = 1
  QueueMax = 2
  MaxTurns = 1
  QueueFaults = FALSE
  Criteria = {}
  Scratch = {t1}
SPECIFICATION Spec
PROPERTIES
  DrainEnds
