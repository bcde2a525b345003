SPECIFICATION Spec
CONSTANTS
    c1 = c1
    c2 = c2
    c3 = c3
    c4 = c4
    c5 = c5
    c6 = c6
    None = None
    Call = {c1, c2, c3, c4, c5, c6}
    cfg <- Mixed
    MaxID = 2
    MaxV2ID = 2
    Stages = {"cp", "bind", "dp", "xport"}
    OneThread = TRUE
    Closers = {c1, c2, c3, c4}
    CloseDead = FALSE
CHECK_DEADLOCK FALSE
INVARIANTS RegistriesAgree CloseTearsDown
