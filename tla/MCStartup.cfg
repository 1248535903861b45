\* Three files of up to three lines, three options and two addresses.
CONSTANTS
    MAX_AMBLE_LEN = 2
    SIZEOF_ENTRY = 56
    SIZEOF_POINTER = 8
    Garbage <- AnyAmble
    FileSets <- SomeFiles
    MaxOptions = 3
    MaxAddresses = 2
    Numbers <- SomeNumbers

SPECIFICATION Spec
CHECK_DEADLOCK FALSE

INVARIANT TypeOK
INVARIANT EntriesMatchFiles
INVARIANT WritesWithinArray
INVARIANT FreedOnce
INVARIANT DescriptorsOpen
INVARIANT LogsOff
PROPERTY SignalEndsProgram
