SPECIFICATION FairSpec
CONSTANTS
  c1 = c1  c2 = c2  c3 = c3
  Callers = {c1, c2, c3}
  Class <- MCClass
  UserMax = 1
  BrainMax = 1
  Pressures = {0, 1, 2, 3, 4, 5, 6}
  EnterHold = 1
  RecoverHold = 1
INVARIANTS SlotsCounted RecoveryHeld
PROPERTIES BrainPoolSpec CallsEnd
