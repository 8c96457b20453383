\* Two ticks at most between two steps of the CPU, and one between two polls;
\* systime wraps.
SPECIFICATION TimedSpec
CONSTANTS
    SYSTIME_MOD = 40
    MAX_NUM_TASKS = 2
    WAIT = 2
    BusyTasks = {"task0"}
    HangTasks = {}
    Periods = {2, 9}
    NULL = NULL
    MAX_BURST = 2
INVARIANTS
    BoundedLateness
    WaitEnds
PROPERTIES
    EveryTaskRuns
