SPECIFICATION Spec
CONSTANTS
  Requests = {r1, r2}
  Policies <- MCPolicies
  DefaultThreshold = 2
  DefaultOpen = 1
  Horizon = 2
  MaxFailures = 4
INVARIANT RecoveryWindowHonoured
