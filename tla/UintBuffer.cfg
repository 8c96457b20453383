\* System times on both sides of 27.8 hours, when they get their ninth digit.
SPECIFICATION Spec
CONSTANTS
    MIN_MS = 1
    MAX_MS = 1
    Nums = {99999999, 100000000}
    BUF_SIZE = 8
    Numbers = {}
INVARIANT PrintsEveryNumber
\* A call returns once.
CHECK_DEADLOCK FALSE
