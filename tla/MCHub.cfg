SPECIFICATION HubSpec
CONSTANTS
  Parts = {"delivery thrown", "gate", "ticket", "outbox",
           "issue", "issue restarted", "issue opted",
           "requests", "requests lost"}
  Judged = {"j1"}
  Mechanical = {"m1"}
  Late = "late"
  MaxTurns = 2
  MaxFaults = 2
  MaxItems = 4
  BatchMax = 2
  MaxLost = 3
  Overlap = FALSE
  Tears = FALSE
CHECK_DEADLOCK FALSE
INVARIANTS
  MergeIsEarned
  ReportsAreKept
PROPERTIES
  OthersSeeWhatIs
