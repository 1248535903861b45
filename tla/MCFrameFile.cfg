\* A screen of 3 by 3 in the Galax font, frames of up to 3 bytes kept whole.
CONSTANTS
    MAX_ROWS = 3
    MAX_COLS = 3
    FRAME_BUFFER_MAX = 4
    Bytes <- FrameBytes
    map_char <- GalMapChar
    mono_mode = FALSE
    has_colors = TRUE
    COLOR_PAIRS = 64
    MaxInputs = 4

SPECIFICATION MCSpec

INVARIANT ReplayShowsSavedFrame
