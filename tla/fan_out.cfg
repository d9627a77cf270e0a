SPECIFICATION FanOutFairSpec
CONSTANTS
  a = a  b = b  c = c  j = j
  Models = {a, b, c, j}
  CandidateLists <- MCLists
  Cost <- MCCost
  FanOutRoutes <- MCRoutes
  JudgeModel = j
  Limited = {c}
  Asked <- MCAsked
INVARIANTS Settled
PROPERTIES FanOutEnds
CHECK_DEADLOCK FALSE
