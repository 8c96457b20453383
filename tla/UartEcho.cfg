\* A message longer than the FIFO, and input with and without carriage returns.
SPECIFICATION FairSpec
CONSTANTS
    TX_DEPTH = 2
    MESSAGE_LEN = 5
    MAX_RECEIVED = 3
    CR = CR
    LF = LF
    Inputs = {CR, key}
INVARIANTS
    TypeOK
    EchoExact
    EchoTogether
    PrintedInOrder
    LossBound
PROPERTY
    MessageEnds
CHECK_DEADLOCK FALSE
