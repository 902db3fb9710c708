SPECIFICATION FairSpec
CONSTANTS
  Parts = {"claims", "orders", "tasks", "steps", "run", "outbox", "house",
           "scan"}
CHECK_DEADLOCK FALSE
INVARIANTS
  NothingIsDropped
PROPERTIES
  DaemonGoesOn
  LineMovesOn
  WhatBeganEnds
  NothingLingers
