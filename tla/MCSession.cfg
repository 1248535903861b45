\* One program and a user who types at any moment.
CONSTANTS
    Programs <- OneProgram
    Content <- OneFile
    Ends <- OneEnd
    Pages <- TelePages
    HomePage <- TextPage
    Transmission <- Encodings
    PageAfter <- TelePageAfter
    IO_BUFFER_LEN = 3
    Keys <- FewKeys
    MaxKeys = 3

SPECIFICATION HastySpec
CHECK_DEADLOCK FALSE

INVARIANT TypeOK
INVARIANT DecodesIntoOpenFile
INVARIANT TextStaysOut
PROPERTY LosesFileOnlyToRestart
PROPERTY SignalEndsSession
