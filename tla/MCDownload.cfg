\* Two programs and a patient user.
CONSTANTS
    Programs <- TwoPrograms
    Content <- TwoFiles
    Ends <- TwoEnds
    Pages <- TelePages
    HomePage <- TextPage
    Transmission <- Encodings
    PageAfter <- TelePageAfter
    IO_BUFFER_LEN = 2048
    Keys <- AllKeys
    MaxKeys = 4

SPECIFICATION MCPatientSpec
CHECK_DEADLOCK FALSE

INVARIANT FilesAreFaithful
INVARIANT AsksBetweenFrames
INVARIANT ChecksAgree
PROPERTY DownloadFinishes
