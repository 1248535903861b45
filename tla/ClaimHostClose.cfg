\* main.c:282 against a host that closes the connection.
CONSTANTS
    Programs <- OneProgram
    Content <- OneFile
    Ends <- OneEnd
    Pages <- TelePages
    HomePage <- TextPage
    Transmission <- Encodings
    PageAfter <- TelePageAfter
    IO_BUFFER_LEN = 2048
    Keys <- FewKeys
    MaxKeys = 3

SPECIFICATION MCPatientSpec
CHECK_DEADLOCK FALSE

PROPERTY HostCloseIsNoticed
