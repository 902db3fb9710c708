SPECIFICATION ReviewSpec
CONSTANTS
  Parts = {"board", "board cut", "board purged", "board closed", "dual",
           "dual grounds", "dual scores", "dual apart", "session",
           "session alone", "delivery"}
  MaxCrashes = 2
  PersonShips = TRUE
  ChecksByHand = TRUE
  Others = FALSE
  Throws = FALSE
  BaseMoves = TRUE
  MaxTurns = 2
  BoardTurns = 2
  BoardSaid = 2
  BoardPipe = 3
  CutSaid = 1
  PurgedTurns = 1
  Reviewed = {"m1", "b1"}
  Branched = {"b1"}
  Reviews = 2
  SessionStreams = 1
  AloneReviews = 2
  AloneStreams = 2
CHECK_DEADLOCK FALSE
INVARIANTS
  ScreenKeepsUp
  VerdictHasItsGrounds
  ReviewsEnd
  DeliveryIsSound
