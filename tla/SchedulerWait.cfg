\* What the documentation says of the tasks' wait, at a wrap of systime.
SPECIFICATION Spec
CONSTANTS
    SYSTIME_MOD = 6
    MAX_NUM_TASKS = 1
    WAIT = 2
    BusyTasks = {"task0"}
    HangTasks = {}
    Periods = {2}
    NULL = NULL
INVARIANT
    WaitsFull
