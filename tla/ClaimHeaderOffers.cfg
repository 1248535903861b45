\* vidtex.1:88 against a second header.
CONSTANTS
    Programs <- TwoPrograms
    Content <- TwoFiles
    Ends <- TwoEnds
    Pages <- TelePages
    HomePage <- TextPage
    Transmission <- Encodings
    PageAfter <- TelePageAfter
    IO_BUFFER_LEN = 2048
    Keys <- AllKeys
    MaxKeys = 3

SPECIFICATION MCPatientSpec
CHECK_DEADLOCK FALSE

INVARIANT HeaderOffersDownload
