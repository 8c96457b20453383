\* The two interrupts main enables.
SPECIFICATION Spec
CONSTANTS
    MIN_MS = 1
    MAX_MS = 1
    Nums = {0}
    BUF_SIZE = 8
    Numbers = {29, 37}
INVARIANT ForwardedToCpu0
\* A call returns once.
CHECK_DEADLOCK FALSE
