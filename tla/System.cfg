\* A transmit FIFO that the foreground alone can fill, and more expiries and
\* characters than are served at once; systime wraps.
SPECIFICATION SystemSpec
CONSTANTS
    SYSTIME_MOD = 4
    TX_DEPTH = 2
    RX_DEPTH = 2
    RX_TRIGGER = 1
    BREAK_MESSAGE = 2
    MAX_EXPIRED = 5
    MAX_RECEIVED = 2
    NULL = NULL
    MAX_NUM_TASKS = 1
    WAIT = 1
    BusyTasks = {"task0"}
    HangTasks = {"task2"}
    Periods = {2}
INVARIANTS
    TypeOK
    NoOrphanIrq
    ActiveIsHandled
    TicksOwed
    SpacedByTimer
PROPERTIES
    Quiesces
    EchoServed
