SPECIFICATION Spec
CONSTANTS
  Pollers = {p1, p2}
  Waiters = {w1, w2, w3}
  Cap = 2
INVARIANTS
  Accounted
  NoLostWakeup
PROPERTIES
  NoOvertaking
  ParkedAnswered
  ImplementsSemaphore
