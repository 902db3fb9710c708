SPECIFICATION MachineSpec
CONSTANTS
  Parts = {"daemon", "pidfile", "pidfile gap", "house", "watchdog", "run",
           "orderly run", "proxies"}
  Tasks = {"t1", "t2"}
  Foreign = {"f"}
  Old = {"t1"}
  Keep = 0
  Edits = FALSE
  Gestures = TRUE
  Crashes = TRUE
  Daemons = {"d1", "d2", "d3"}
  Callers = {"c1", "c2"}
  PidfileGap = TRUE
  Legacy = TRUE
  Dialects = {"claude", "opencode", "bytes"}
  Inactivity = 3
  ToolBudget = 5
  Heartbeat = 2
  Configured = 4
  Escalation = 4
  MaxTools = 2
  Losses = TRUE
  Paths = {"host", "cage"}
  Helpers = TRUE
  RunRaces = TRUE
CHECK_DEADLOCK FALSE
INVARIANTS
  HouseInOrder
  CutsHaveCause
PROPERTIES
  CleansItsOwnOnly
  HelpersAreKnown
