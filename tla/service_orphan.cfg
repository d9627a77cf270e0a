SPECIFICATION Spec
CONSTANTS
  r1 = r1  r2 = r2
  Events = {r1, r2}
  NoEvent = NoEvent
  Nobody = Nobody
  QueueSize = 1
  MaxRestarts = 1
  MaxProcesses = 2
INVARIANT NoOrphan
CHECK_DEADLOCK FALSE
