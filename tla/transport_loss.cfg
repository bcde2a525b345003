SPECIFICATION FairSpec
CONSTANTS
    A = A
    B = B
    End <- Ends
    SeqSpace = 8
    TxWindowSize = 2
    MaxCallers <- OneAndTwo
    Workloads <- SendOrHello
    MaxLife = 8
    MaxRxQueue = 1
    Closers = {B}
CHECK_DEADLOCK FALSE
INVARIANTS IInv
PROPERTIES CompleteIsFinal ImplementsChannel AcceptedCompletes DownCompletes AcksDieOut DeadPeerDetected
