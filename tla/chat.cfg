SPECIFICATION FairSpec
CONSTANTS
  a = a  b = b  p = p
  Models = {a, b}
  Providers = {p}
  Provider <- MCProvider
  First <- MCFirst
  Buffer = 2
  MaxDeltas = 2
  Nobody = Nobody
INVARIANTS OneVoice WholeAnswer
PROPERTY AttemptsEnd
CHECK_DEADLOCK FALSE
