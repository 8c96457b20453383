\* Lines shorter and longer than the buffer, errors and overruns.
SPECIFICATION Spec
CONSTANTS
    a = a
    b = b
    CR = CR
    NUL = NUL
    Chars = {a, b, CR}
    Commands <- MCCommands
    BUF_SIZE = 3
    IDX_MOD = 6
    RX_DEPTH = 2
    MAX_INPUT = 7
INVARIANTS
    NoDamagedCharacter
    OneLossPerOverrun
PROPERTY AnswersTheLine
\* The loop polls for ever; the model stops when no more is typed.
CHECK_DEADLOCK FALSE
