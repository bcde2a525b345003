SPECIFICATION Spec
CONSTANTS
  File <- Files
  Uint32Max = 1000000
  customParser <- Accepted
  None = None
CHECK_DEADLOCK FALSE
INVARIANTS LoadedAsWritten RefusedIffMalformed
