SPECIFICATION AttemptSpec
CONSTANTS
  Messages <- MCMessages
  Tries = 2
  Buffer = 2
  MaxMessages = 4
INVARIANTS WellFormed TextKept
PROPERTY RetriesUnheard
CHECK_DEADLOCK FALSE
