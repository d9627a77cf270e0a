SPECIFICATION Spec
CONSTANTS
  a = a  b = b  p = p
  Models = {a, b}
  Providers = {p}
  Provider <- MCProvider
  First <- MCFirst
  Buffer = 1
  MaxDeltas = 2
  Nobody = Nobody
PROPERTY NoAttemptInCooldown
CHECK_DEADLOCK FALSE
