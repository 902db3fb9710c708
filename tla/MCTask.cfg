SPECIFICATION TaskSpec
CONSTANTS
  Parts = {"checks", "checks cut", "checks by hand", "branches",
           "branches by hand", "branches wait", "runbook", "runbook shared", "boxes",
           "boxes cold", "boxes by hand", "boxes apart", "boxes swept", "costs", "costs at the limit"}
  MaxTurns = 3
  Persons = FALSE
  MicroVm = TRUE
  Refuses = FALSE
  Ends = {"drain"}
  Tasks = {"a", "b"}
  MaxCommits = 2
  BranchTurns = 2
  MaxHands = 0
  MaxCrashes = 1
  MaxSuffix = 3
  Proposals = {"x", "y"}
  Hands = {}
  BranchWaits = FALSE
  CrashesAt = {"none", "made", "works", "named", "committed"}
  Books = {1, 2}
  BookAttempts = 2
  BookVersions = 2
  BoxTurns = 2
  BoxCrashes = 1
CHECK_DEADLOCK FALSE
INVARIANTS
  BranchesHoldTheWork
  ChecksSpeakForTheCommit
  RecordsTellTheTruth
  RunsAreOverWhatTheyName
