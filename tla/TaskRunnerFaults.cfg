CONSTANTS
  t1 = t1
  t2 = t2
  t3 = t3
  o1 = o1
  None = None
  Tasks = {t1, t2}
  Others = {o1}
  Cap = 1
  QueueMax = 2
  MaxTurns = 2
  QueueFaults = TRUE
  Criteria = {t1, t2}
  Scratch = {}
SPECIFICATION Spec
SYMMETRY Symmetry
PROPERTIES
  ShippedStays
  TurnsRunOnce
