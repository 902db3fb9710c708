SPECIFICATION EngineSpec
CONSTANTS
  Parts = {"queue", "queue shut", "journal", "journal shared", "journal opaque",
           "loop", "loop faults", "tickets", "tickets faults", "lock",
           "lock window", "workspace"}
  Junk = Junk
  FixRounds = 2
  FixTurns = 7
  FaultyFixTurns = 9
  FixFaults = 2
  LineTasks = 3
  LineTicketed = {1, 3}
  LineFaults = 1
  LineCrashes = 1
  WindowTakes = 3
  WindowOpen = TRUE
  HoldersAge = TRUE
  WorkspacePids = {"p1", "p2", "p3"}
  MaxBoots = 5
  BootsOverlap = FALSE
  Callers = {"a", "b", "c"}
  Procs = {"p", "q"}
  ProcOf <- TwoProcesses
  MaxTakes = 4
  MaxFaults = 2
  Window = FALSE
  Grace = FALSE
CHECK_DEADLOCK FALSE
INVARIANTS
  FilesAreKept
  RoundsBounded
  HoldLeavesNoTrace
  LockExcludes
  OwnersAreReal
PROPERTIES
  DamageIsContained
  CompareKeepsToItself
