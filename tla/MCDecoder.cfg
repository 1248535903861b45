\* A 3 by 3 screen in the Galax font, in colour.
CONSTANTS
    MAX_ROWS = 3
    MAX_COLS = 3
    FRAME_BUFFER_MAX = 0
    Bytes <- AllBytes
    map_char <- GalMapChar
    mono_mode = FALSE
    has_colors = TRUE
    COLOR_PAIRS = 64
    MaxInputs = 5

SPECIFICATION MCSpec

INVARIANT TypeOK
INVARIANT LowerHalfOnScreen
INVARIANT HeldMosaicOnlyInMosaics
INVARIANT ColorsAreShown
INVARIANT WindowShowsCells
PROPERTY CursorSpec
PROPERTY LowerRowTakesHalvesOnly
