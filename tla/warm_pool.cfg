SPECIFICATION FairSpec
CONSTANTS
  Requests = {r1, r2, r3}
  MaxStarts = 2
  MaxLines = 2
  Nobody = Nobody
INVARIANTS NoStrayProcess NoForeignOutput
PROPERTY RequestsEnd
CHECK_DEADLOCK FALSE
