\* A second calculation of a score.
SPECIFICATION ScoringSpec
CONSTANTS
  Requests = {r1}
  MlScores = {549, 750}
  MockScores = {600}
  MaxCalls = 2
  MaxFaults = 0
INVARIANT AnsweredIsOnRecord
CHECK_DEADLOCK FALSE
