SPECIFICATION FairSpec
CONSTANTS
  s1 = s1
  s2 = s2
  Session = {s1, s2}
  PppdFails = TRUE
  SetupFails = TRUE
  GivesUp = TRUE
  None = None
CHECK_DEADLOCK FALSE
INVARIANTS CrashesOnlyIf CleanExit
PROPERTIES SessionFollowsPppd ShutdownCompletes
