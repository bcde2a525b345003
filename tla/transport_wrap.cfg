SPECIFICATION Spec
CONSTANTS
    A = A
    B = B
    End <- Ends
    SeqSpace = 8
    TxWindowSize = 2
    MaxCallers <- OneAndThree
    Workloads <- WrapOrWindow
    MaxLife = 1
    MaxRxQueue = 2
    Closers = {}
CHECK_DEADLOCK FALSE
INVARIANTS AckedWasTaken DeliveredInOrder PeerFrameAccepted HelloInFlightExact
PROPERTIES WindowBound
