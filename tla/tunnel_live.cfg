SPECIFICATION FairSpec
CONSTANTS
    s1 = s1
    s2 = s2
    Session = {s1, s2}
    Tunnel = Tunnel
    None = None
    nameOf <- OwnNames
    idOf <- OwnNames
    PeerMsg <- AnsweringPeer
    MaxSaid = 1
    MaxOdd = 1
    Polite = TRUE
    Failing = "stalled"
    TunnelDp = {"ok", "fail"}
    SessionDp = {"ok"}
    Closers = {Tunnel}
    MaxClosed = 0
CHECK_DEADLOCK FALSE
INVARIANTS NoPanic
PROPERTIES CloseReturns SessionStarts NewSessionWaitsOnlyForGone
