SPECIFICATION Spec
CONSTANTS
    A = A
    B = B
    End <- Ends
    SeqSpace = 8
    TxWindowSize = 2
    MaxCallers <- OneEach
    Workloads <- MessageAndHello
    MaxLife = 8
    MaxRxQueue = 2
    Closers = {}
PROPERTIES
    AckedNotRetried
CHECK_DEADLOCK FALSE
