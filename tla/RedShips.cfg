SPECIFICATION Spec
CONSTANTS
  Judged = {"j1"}
  Mechanical = {"m1"}
  Late = "late"
INVARIANT RedIsNeverOk
CHECK_DEADLOCK FALSE
