SPECIFICATION Spec
CONSTANTS
  a = a  b = b  p = p  q = q
  Ids = {a, b}
  Providers = {p, q}
  Offers <- MCOffers
  Slots = {auto}
  Policies <- MCPolicies
  ResetDelays = {3}
  MaxTime = 2
  MaxFailures = 2
  None = None
PROPERTY QuarantineHolds
