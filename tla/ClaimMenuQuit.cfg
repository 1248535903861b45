\* vidtex.1:92 against the menu.
CONSTANTS
    MAX_AMBLE_LEN = 2
    SIZEOF_ENTRY = 56
    SIZEOF_POINTER = 8
    Garbage <- AnyAmble
    FileSets <- SomeFiles
    MaxOptions = 3
    MaxAddresses = 2
    Numbers <- SomeNumbers

SPECIFICATION Spec
CHECK_DEADLOCK FALSE

PROPERTY MenuCanBeQuit
