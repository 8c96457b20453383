SPECIFICATION Spec
CONSTANTS
    SYSTIME_MOD = 6
    MAX_NUM_TASKS = 3
    WAIT = 2
    BusyTasks = {"task0"}
    HangTasks = {"task2"}
    Periods = {2, 4}
    NULL = NULL
INVARIANTS
    TypeOK
    ClockExact
    SpacedRuns
    OvertakenOnce
    WaitsUnlessOverflow
PROPERTIES
    NoMissedTurn
    PeriodicSpec
CHECK_DEADLOCK TRUE
