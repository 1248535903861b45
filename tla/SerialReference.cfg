\* Four rows of 6, Galax, on a terminal with eight colours and eight pairs.
CONSTANTS
    MAX_ROWS = 4
    MAX_COLS = 6
    FRAME_BUFFER_MAX = 24
    Bytes <- AllBytes
    map_char <- GalMapChar
    mono_mode = FALSE
    has_colors = TRUE
    COLOR_PAIRS = 8

SPECIFICATION SampleSpec
\* The frames of the sample end.
CHECK_DEADLOCK FALSE

INVARIANT RowsMatchReference
INVARIANT ColorsAreShown
