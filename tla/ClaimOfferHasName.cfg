\* telesoft.c:17 against a header that arrives in parts.
CONSTANTS
    Programs <- OneProgram
    Content <- OneFile
    Ends <- OneEnd
    Pages <- TelePages
    HomePage <- TextPage
    Transmission <- Encodings
    PageAfter <- TelePageAfter
    IO_BUFFER_LEN = 2048
    Keys <- AllKeys
    MaxKeys = 3

SPECIFICATION MCPatientSpec
CHECK_DEADLOCK FALSE

INVARIANT OfferHasName
