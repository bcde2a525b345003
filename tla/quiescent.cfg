SPECIFICATION FairSpec
CONSTANTS
    s1 = s1
    s2 = s2
    s3 = s3
    Session = {s1, s2, s3}
    SessionDp = {"ok", "fail", "noname"}
    Closers = {s1, s2, s3}
    Serial = TRUE
CHECK_DEADLOCK FALSE
INVARIANTS DownOnce CloseRemoves
PROPERTIES FailureDetected
