\* What the documentation says of uart_putchar, with an interrupt between its
\* poll and its write.
SPECIFICATION Spec
CONSTANTS
    TX_DEPTH = 2
    MESSAGE_LEN = 3
    MAX_RECEIVED = 1
    CR = CR
    LF = LF
    Inputs = {key}
INVARIANT
    NothingLost
CHECK_DEADLOCK FALSE
