SPECIFICATION FairSpec
CONSTANTS
  Requests = {r1, r2, r3}
  Policies <- MCPolicies
  DefaultThreshold = 2
  DefaultOpen = 1
  Horizon = 2
  MaxFailures = 4
INVARIANTS SingleProbe ProbeOwned OpenIsUnavailable
PROPERTY RecoveryOffered
