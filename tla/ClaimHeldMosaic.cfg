\* decoder.h:81 against a normal height code on text of normal height.
CONSTANTS
    MAX_ROWS = 1
    MAX_COLS = 4
    FRAME_BUFFER_MAX = 4
    Bytes <- NormalHeight
    map_char <- GalMapChar
    mono_mode = FALSE
    has_colors = TRUE
    COLOR_PAIRS = 64

SPECIFICATION FrameSpec

INVARIANT HeldMosaicRule
