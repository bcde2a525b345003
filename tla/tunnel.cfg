SPECIFICATION Spec
CONSTANTS
    s1 = s1
    s2 = s2
    Session = {s1, s2}
    Tunnel = Tunnel
    None = None
    nameOf <- OwnNames
    idOf <- OwnNames
    PeerMsg <- AnyPeer
    MaxSaid = 2
    MaxOdd = 1
    Polite = FALSE
    Failing = "any"
    TunnelDp = {"ok", "fail"}
    SessionDp = {"ok", "noname", "fail"}
    Closers = {s1, s2, Tunnel}
    MaxClosed = 1
SYMMETRY Symmetric
CHECK_DEADLOCK FALSE
INVARIANTS ReleasedAtExit ToldOnce LeftUpOnlyIfClosedBefore
PROPERTIES ImplementsEvents SessionDpInsideTunnelDp
