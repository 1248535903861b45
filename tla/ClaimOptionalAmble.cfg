\* rc.c:188 against an entry without a preamble.
CONSTANTS
    MAX_AMBLE_LEN = 2
    SIZEOF_ENTRY = 56
    SIZEOF_POINTER = 8
    Garbage <- AnyAmble
    FileSets <- SomeFiles
    MaxOptions = 3
    MaxAddresses = 2
    Numbers <- SomeNumbers

SPECIFICATION Spec
CHECK_DEADLOCK FALSE

INVARIANT OptionalAmble
