SPECIFICATION FairSpec
CONSTANTS
  t1 = t1
  t2 = t2
  s1 = s1
  s2 = s2
  Caller = {t1, t2, s1, s2}
  conf <- Mixed
  KernelRefuses = TRUE
  CloseEarly = TRUE
  None = None
CHECK_DEADLOCK FALSE
INVARIANTS ResponseIsMine LiveIffInKernel
PROPERTIES CallsReturn
