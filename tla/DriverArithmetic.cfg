\* Every period a uint16_t can express, numbers around the
\* powers of ten and past eight digits, and ids at the ends of a register.
SPECIFICATION Spec
CONSTANTS
    MIN_MS = 0
    MAX_MS = 65535
    Nums = {0, 9, 10, 100, 999, 1000, 65536, 90000009, 99999999, 100000000, 2147483647}
    BUF_SIZE = 8
    Numbers = {0, 29, 31, 32, 37, 63, 95, 983}
INVARIANTS
    PeriodLoaded
    PrintsDecimal
    EnabledExactly
\* A call returns once.
CHECK_DEADLOCK FALSE
