SPECIFICATION Spec
CONSTANTS
  c1 = c1  c2 = c2  c3 = c3
  Callers = {c1, c2}
  Class <- MCSelectors
  UserMax = 1
  BrainMax = 1
  Pressures = {0}
  EnterHold = 0
  RecoverHold = 0
INVARIANT NoLostWakeup
