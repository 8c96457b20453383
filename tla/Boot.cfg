\* A version below the tags, one across them and one that is too large; sections of
\* every size up to the bound, empty ones included.
SPECIFICATION BootSpec
CONSTANTS
    Files = {2, 4, 5}
    HEADER = 2
    BOOTM_LEN = 4
    BOOT_PARAMS = 3
    TAG_WORDS = 1
    INIT_RAM_SIZE = 3
    BOOTDELAY = 1
    MAX_RESETS = 1
    MAX_SIZE = 2
    STACK_SIZE = 1
INVARIANTS
    EntersWholeImage
    MainFindsItsVariables
    MainFindsItsStacks
    UnmaskedWithOwnVectors
PROPERTIES
    LoadedIsEntered
    MainReached
\* After the last reset allowed the program runs on in main.
CHECK_DEADLOCK FALSE
