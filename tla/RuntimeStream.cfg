SPECIFICATION Spec
CONSTANTS
  Controllers = {w1}
  Bodies <- MCBodies
  Redacted <- MCRedacted
  Sent <- MCSent
  MaxSeq = 2
  MaxFaults = 2
  MaxRestarts = 1
CHECK_DEADLOCK FALSE
INVARIANTS
    StreamIsKept
    CompletionIsTrue
PROPERTIES
    EndedIsRecorded
