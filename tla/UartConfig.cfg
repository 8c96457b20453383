\* Valid and invalid configurations, one after the other, while characters are sent.
\* At 307 baud the fraction of the divisor rounds up to a whole.
SPECIFICATION Spec
CONSTANTS
    DataBits = {4, 5, 8, 9}
    StopBits = {0, 1, 2, 3}
    Baudrates = {109, 110, 307, 9600, 57600, 460800, 460801}
    TX_DEPTH = 2
    NONE = NONE
INVARIANTS
    FrameAsConfigured
    DivisorInUse
PROPERTIES
    NoTornCharacter
    ReturnsWhenDrained
\* The polling loop does not end when the FIFO holds characters.
CHECK_DEADLOCK FALSE
