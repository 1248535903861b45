------------------------------ MODULE Decoder ------------------------------
(***************************************************************************)
(* The Viewdata decoder of src/decoder.c: the state machine that turns the *)
(* bytes of a host into the cells of a 24 by 40 screen.                    *)
(*                                                                         *)
(* struct vt_decoder_state is one record, decoder, and each C function     *)
(* that takes a pointer to it is an operator from record to record, so     *)
(* that the same definitions decode a live stream and a saved frame.       *)
(* A byte is decoded in one step: nothing else runs while                  *)
(* vt_decoder_decode() does.                                               *)
(*                                                                         *)
(* Left out: trace_file and the dump (logging), header_row and             *)
(* force_cursor (written or declared, never read), and after_flags, which  *)
(* every path of vt_decoder_decode() resets before the next byte: what it  *)
(* carries from the start to the end of one byte is the operator SetAfter. *)
(***************************************************************************)
EXTENDS CharMap, Sequences

CONSTANTS
    MAX_ROWS,           \* rows of the screen (24)
    MAX_COLS,           \* columns of the screen (40)
    FRAME_BUFFER_MAX,   \* bytes of a frame kept for saving (2000)
    Bytes,              \* the bytes a host may send
    map_char,           \* the font: BedMapChar or GalMapChar
    mono_mode,          \* --mono
    has_colors,         \* does the terminal have colours?
    COLOR_PAIRS         \* the colour pairs that it offers (curses)

\* Double height needs one row below the one it starts on.
ASSUME DecoderAssumption ==
    /\ MAX_ROWS \in Nat \ {0}
    /\ MAX_COLS \in Nat \ {0}
    /\ FRAME_BUFFER_MAX \in Nat
    /\ Bytes \subseteq 0 .. 255
    /\ map_char \in [MapKeys -> CodePoints]
    /\ mono_mode \in BOOLEAN
    /\ has_colors \in BOOLEAN
    /\ COLOR_PAIRS \in Nat

VARIABLE decoder

Rows   == 0 .. MAX_ROWS - 1
Cols   == 0 .. MAX_COLS - 1
Screen == Rows \X Cols

-----------------------------------------------------------------------------
(* The types of decoder.h.                                                 *)

BLACK == 0
WHITE == 7
Colors == BLACK .. WHITE
Foregrounds == 1 .. WHITE    \* no attribute selects black

\* struct vt_decoder_char: the three forms of a character.
Chars == [single : CodePoints, upper : CodePoints, lower : CodePoints]

\* struct vt_decoder_attr; "bold" is the curses attribute.
Attrs == [bold : BOOLEAN, color_pair : 0 .. 63,
          has_flash : BOOLEAN, has_concealed : BOOLEAN]

Cells == [character : CodePoints, attr : Attrs]

\* What the curses window holds at a position.
Shown == [character : CodePoints, bold : BOOLEAN, color : 0 .. 63]

Flags == [bg_color : Colors, alpha_fg_color : Foregrounds, mosaic_fg_color : Foregrounds,
          is_alpha : BOOLEAN, is_contiguous : BOOLEAN, is_flashing : BOOLEAN,
          is_escaped : BOOLEAN, is_boxing : BOOLEAN, is_concealed : BOOLEAN,
          is_mosaic_held : BOOLEAN, held_mosaic : Chars,
          is_double_height : BOOLEAN, is_cursor_on : BOOLEAN]

DecoderStates ==
    [row : Rows, col : Cols, dheight_low_row : -1 .. MAX_ROWS - 1,
     flags : Flags, frame_buffer : Seq(Bytes), bold_mode : BOOLEAN,
     screen_flash_state : BOOLEAN, screen_revealed_state : BOOLEAN,
     cells : [Screen -> Cells], window : [Screen -> Shown]]

GetCharCode(row_code, col_code, alpha, contiguous) ==
    LET Form(dheight, lower) ==
            map_char[<<row_code, col_code, alpha, contiguous, dheight, lower>>]
    IN  [single |-> Form(FALSE, FALSE), upper |-> Form(TRUE, FALSE),
         lower  |-> Form(TRUE, TRUE)]

\* state->space, computed once by vt_decoder_init().
Space == GetCharCode(0, 2, TRUE, FALSE)

\* What memset() leaves in a struct vt_decoder_char and in an attr.
ZeroChar == [single |-> 0, upper |-> 0, lower |-> 0]
ZeroAttr == [bold |-> FALSE, color_pair |-> 0,
             has_flash |-> FALSE, has_concealed |-> FALSE]
BlankCell == [character |-> SPACE, attr |-> ZeroAttr]

-----------------------------------------------------------------------------
(* Cells and the window.                                                   *)

\* What vt_put_char() gives curses for a cell.
Display(d, cell) ==
    LET hidden == \/ cell.attr.has_concealed /\ ~d.screen_revealed_state
                  \/ cell.attr.has_flash /\ ~d.screen_flash_state
    IN  [character |-> IF hidden THEN SPACE ELSE cell.character,
         bold      |-> cell.attr.bold,
         color     |-> IF mono_mode THEN 0 ELSE cell.attr.color_pair]

\* vt_put_char() of new[p] at every position p of the domain of new.
PutChars(d, new) ==
    [d EXCEPT !.cells  = [p \in Screen |->
                             IF p \in DOMAIN new THEN new[p] ELSE d.cells[p]],
              !.window = [p \in Screen |->
                             IF p \in DOMAIN new THEN Display(d, new[p])
                             ELSE d.window[p]]]

\* Mutant of ColorPairNumber: any colour on black is the standard one.
ColorPairNumberOfBlack(fg, bg) == IF bg = BLACK THEN 0 ELSE 8 * fg + bg

ColorPairNumber(fg, bg) ==
    IF fg = WHITE /\ bg = BLACK THEN 0 ELSE 8 * fg + bg

\* What vt_decoder_init() asks before it calls vt_init_colors().
PairsInitialized == has_colors /\ COLOR_PAIRS >= 64

\* vt_init_colors(): the colours of each pair that init_pair() was called for,
\* in the order of the numbers.  Pair 0 is white on black, and (black, black),
\* which has its number, is taken not to change it.  Where vt_decoder_init()
\* does not call it, pair 0 is the only one that has colours.
ColorsOfPair ==
    LET NumberOf(c) == ColorPairNumber(c[1], c[2])
        InOrder(c, e) == 8 * c[1] + c[2] <= 8 * e[1] + e[2]
        initialized == IF PairsInitialized THEN {NumberOf(c) : c \in Colors \X Colors}
                       ELSE {}
    IN  [n \in {0} \cup initialized |->
            IF n = 0 THEN <<WHITE, BLACK>>
            ELSE CHOOSE c \in Colors \X Colors :
                    /\ NumberOf(c) = n
                    /\ \A e \in Colors \X Colors : NumberOf(e) = n => InOrder(e, c)]

\* The foreground that the flags select.
DrawingColor(d) ==
    IF d.flags.is_alpha THEN d.flags.alpha_fg_color ELSE d.flags.mosaic_fg_color

\* vt_set_attr(): the attributes that the flags give a cell.  It asks for
\* has_colors() alone, whether the pairs were initialised or not.
AttrOf(d) ==
    LET f  == d.flags
        fg == IF f.is_alpha THEN f.alpha_fg_color ELSE f.mosaic_fg_color
    IN  [bold          |-> d.bold_mode,
         color_pair    |-> IF has_colors THEN ColorPairNumber(fg, f.bg_color) ELSE 0,
         has_flash     |-> f.is_flashing,
         has_concealed |-> f.is_concealed]

-----------------------------------------------------------------------------
(* Rows and frames.                                                        *)

DefaultFlags(held, cursor_on) ==
    [bg_color |-> BLACK, alpha_fg_color |-> WHITE, mosaic_fg_color |-> WHITE,
     is_alpha |-> TRUE, is_contiguous |-> TRUE, is_flashing |-> FALSE,
     is_escaped |-> FALSE, is_boxing |-> FALSE, is_concealed |-> FALSE,
     is_mosaic_held |-> FALSE, held_mosaic |-> held,
     is_double_height |-> FALSE, is_cursor_on |-> cursor_on]

\* "leave cursor as is"
ResetFlags(d) == [d EXCEPT !.flags = DefaultFlags(Space, d.flags.is_cursor_on)]

\* Mutant of NewFrame: the flags of the last frame are kept.
NewFrameKeepingFlags(d) ==
    PutChars([d EXCEPT !.row = 0, !.col = 0, !.dheight_low_row = -1,
                       !.frame_buffer = << >>, !.screen_revealed_state = FALSE],
             [p \in Screen |-> BlankCell])

NewFrame(d) ==
    PutChars(ResetFlags([d EXCEPT !.row = 0, !.col = 0, !.dheight_low_row = -1,
                                  !.frame_buffer = << >>,
                                  !.screen_revealed_state = FALSE]),
             [p \in Screen |-> BlankCell])

NextRow(d) ==
    ResetFlags([d EXCEPT !.row = IF d.row + 1 < MAX_ROWS THEN d.row + 1 ELSE 0,
                         !.col = 0])

\* The rest of the row takes the colours of the cell before the cursor.
FillEnd(d) ==
    IF d.col = 0 THEN d
    ELSE LET prev == d.cells[<<d.row, d.col - 1>>].attr
         IN  PutChars(d, [p \in {d.row} \X (d.col .. MAX_COLS - 1) |->
                 [character |-> d.cells[p].character,
                  attr |-> [ZeroAttr EXCEPT !.bold = prev.bold,
                                            !.color_pair = prev.color_pair]]])

-----------------------------------------------------------------------------
(* The control codes that move the cursor.                                 *)

RowAbove(d) == IF d.row = 0 THEN MAX_ROWS - 1 ELSE d.row - 1
RowBelow(d) == IF d.row + 1 >= MAX_ROWS THEN 0 ELSE d.row + 1

\* Mutant of Backspace: it wraps within its row.
BackspaceInRow(d) ==
    [d EXCEPT !.col = IF d.col > 0 THEN d.col - 1 ELSE MAX_COLS - 1]

Backspace(d) ==
    IF d.col > 0 THEN [d EXCEPT !.col = d.col - 1]
    ELSE [d EXCEPT !.col = MAX_COLS - 1, !.row = RowAbove(d)]

HTab(d) ==
    IF d.col + 1 < MAX_COLS THEN [d EXCEPT !.col = d.col + 1]
    ELSE [d EXCEPT !.col = 0, !.row = RowBelow(d)]

LineFeed(d)       == ResetFlags([d EXCEPT !.row = RowBelow(d)])
\* Mutant of VTab: it does not wrap.
VTabOffTheTop(d)  == [d EXCEPT !.row = d.row - 1]
VTab(d)           == [d EXCEPT !.row = RowAbove(d)]
FormFeed(d)       == NewFrame(d)
CarriageReturn(d) == [FillEnd(d) EXCEPT !.col = 0]
BackToOrigin(d)   == [FillEnd(d) EXCEPT !.col = 0, !.row = 0]
SetCursor(d, on)  == [d EXCEPT !.flags.is_cursor_on = on]

-----------------------------------------------------------------------------
(* Display characters: spacing attributes (columns 0 and 1) and text.      *)

\* Mutant of AlphaColors: black is one of them.
AlphaColorsFromBlack == 0 .. 7

AlphaColors  == 1 .. 7
MosaicColors == 17 .. 23
ESCAPE       == 27

\* Mutant of SetAt: a change to normal height keeps the held mosaic.
SetAtKeepingMosaic(d, code) ==
    CASE code = 9  -> [d EXCEPT !.flags.is_flashing = FALSE]
      [] code = 12 -> [d EXCEPT !.flags.is_double_height = FALSE]
      [] code = 24 -> [d EXCEPT !.flags.is_concealed = TRUE]
      [] code = 25 -> [d EXCEPT !.flags.is_contiguous = TRUE]
      [] code = 26 -> [d EXCEPT !.flags.is_contiguous = FALSE]
      [] code = 28 -> [d EXCEPT !.flags.bg_color = BLACK]
      [] code = 29 -> [d EXCEPT !.flags.bg_color = DrawingColor(d)]
      [] code = 30 -> [d EXCEPT !.flags.is_mosaic_held = TRUE]
      [] OTHER -> d

\* The attributes that take effect at their own cell.
SetAt(d, code) ==
    CASE code = 9  -> [d EXCEPT !.flags.is_flashing = FALSE]
      [] code = 12 -> [d EXCEPT !.flags.is_double_height = FALSE,
                                !.flags.held_mosaic = Space]
      [] code = 24 -> [d EXCEPT !.flags.is_concealed = TRUE]
      [] code = 25 -> [d EXCEPT !.flags.is_contiguous = TRUE]
      [] code = 26 -> [d EXCEPT !.flags.is_contiguous = FALSE]
      [] code = 28 -> [d EXCEPT !.flags.bg_color = BLACK]
      [] code = 29 -> [d EXCEPT !.flags.bg_color =
                          IF d.flags.is_alpha THEN d.flags.alpha_fg_color
                                              ELSE d.flags.mosaic_fg_color]
      [] code = 30 -> [d EXCEPT !.flags.is_mosaic_held = TRUE]
      [] OTHER -> d

\* Mutants of Select: a change of mode keeps the held mosaic, and a colour does
\* not end concealment.
SelectKeepingMosaic(d, alpha) ==
    LET f == d.flags
    IN  [d EXCEPT !.flags = [f EXCEPT !.is_alpha = alpha, !.is_concealed = FALSE]]
SelectKeepingConceal(d, alpha) ==
    LET f == d.flags
    IN  [d EXCEPT !.flags =
            [f EXCEPT !.is_alpha = alpha,
                      !.held_mosaic = IF f.is_alpha # alpha THEN Space ELSE f.held_mosaic]]

\* A colour selects alphanumerics or mosaics and ends concealment.
Select(d, alpha) ==
    LET f == d.flags
    IN  [d EXCEPT !.flags =
            [f EXCEPT !.is_alpha = alpha, !.is_concealed = FALSE,
                      !.held_mosaic = IF f.is_alpha # alpha THEN Space ELSE f.held_mosaic]]

\* Mutant of CanDoubleHeight: also from a row that is a lower half.
CanDoubleHeightAnywhere(d) == d.row < MAX_ROWS - 2

CanDoubleHeight(d) == d.row < MAX_ROWS - 2 /\ d.row # d.dheight_low_row

\* The attributes that take effect at the next cell (after_flags).
SetAfter(d, code) ==
    CASE code \in AlphaColors  -> [Select(d, TRUE) EXCEPT !.flags.alpha_fg_color = code]
      [] code \in MosaicColors -> [Select(d, FALSE) EXCEPT !.flags.mosaic_fg_color = code - 16]
      [] code = 8  -> [d EXCEPT !.flags.is_flashing = TRUE]
      [] code = 10 -> [d EXCEPT !.flags.is_boxing = FALSE]
      [] code = 11 -> [d EXCEPT !.flags.is_boxing = TRUE]
      [] code = 13 /\ CanDoubleHeight(d) ->
             [d EXCEPT !.flags.is_double_height = TRUE,
                       !.dheight_low_row = d.row + 1]
      [] code = 31 -> [d EXCEPT !.flags.is_mosaic_held = FALSE]
      [] OTHER -> d

\* Put a character at the cursor and, at double height, its lower half at
\* dheight_low_row.
Draw(d, ch) ==
    LET dh == d.flags.is_double_height
        here == <<d.row, d.col>>
        Cell(c) == [character |-> c, attr |-> AttrOf(d)]
    IN  PutChars(d, [p \in {here} \cup (IF dh THEN {<<d.dheight_low_row, d.col>>} ELSE {}) |->
                        IF p # here THEN Cell(ch.lower)
                        ELSE Cell(IF dh THEN ch.upper ELSE ch.single)])

DrawAttribute(d) ==
    Draw(d, IF d.flags.is_mosaic_held THEN d.flags.held_mosaic ELSE Space)

DrawText(d, code) ==
    LET ch == GetCharCode(code % 16, code \div 16,
                          d.flags.is_alpha, d.flags.is_contiguous)
    IN  [Draw(d, ch) EXCEPT !.flags.held_mosaic =
            IF d.flags.is_alpha THEN d.flags.held_mosaic ELSE ch]

\* Mutant of DrawCode: attributes are drawn there.
DrawCodeOfAttribute(d, code) ==
    IF code < 32 THEN DrawAttribute(d)
    ELSE IF d.row = d.dheight_low_row THEN d
    ELSE DrawText(d, code)

\* Nothing is drawn on the lower row of a double height row.
DrawCode(d, code) ==
    IF d.row = d.dheight_low_row THEN d
    ELSE IF code < 32 THEN DrawAttribute(d)
    ELSE DrawText(d, code)

Advance(d) ==
    IF d.col + 1 = MAX_COLS THEN NextRow(d) ELSE [d EXCEPT !.col = d.col + 1]

DisplayCode(d, code) == Advance(SetAfter(DrawCode(SetAt(d, code), code), code))

-----------------------------------------------------------------------------
(* One byte.                                                               *)

\* The 7-bit code of a byte.  An escape keeps one bit of the column.
CodeOf(d, b) ==
    LET col_code == (b \div 16) % 8
    IN  16 * (IF d.flags.is_escaped THEN col_code % 2 ELSE col_code) + (b % 16)

Display7Bit(d, b) ==
    LET u == [d EXCEPT !.flags.is_escaped = FALSE]
    IN  IF CodeOf(d, b) = ESCAPE THEN [u EXCEPT !.flags.is_escaped = TRUE]
        ELSE DisplayCode(u, CodeOf(d, b))

\* The raw bytes of the frame, kept for vt_decoder_save().
Buffer(d, b) ==
    IF Len(d.frame_buffer) < FRAME_BUFFER_MAX
    THEN [d EXCEPT !.frame_buffer = Append(d.frame_buffer, b)]
    ELSE d

\* The body of the loop of vt_decoder_decode().
DecodeByte(d, b) ==
    CASE b = 0  -> d
      [] b = 8  -> Backspace(d)
      [] b = 9  -> HTab(d)
      [] b = 10 -> LineFeed(d)
      [] b = 11 -> VTab(d)
      [] b = 12 -> FormFeed(d)
      [] b = 13 -> CarriageReturn(d)
      [] b = 17 -> SetCursor(d, TRUE)
      [] b = 20 -> SetCursor(d, FALSE)
      [] b = 30 -> BackToOrigin(d)
      [] OTHER  -> Display7Bit(d, b)

Decode(d, b) == DecodeByte(Buffer(d, b), b)

\* vt_decoder_toggle_flash(), vt_decoder_toggle_reveal(): redraw what changes.
Redraw(d, P) == PutChars(d, [p \in P |-> d.cells[p]])

\* Mutant of FlashToggled: concealed cells are taken to be hidden.
FlashToggledUnlessConcealed(d) ==
    Redraw([d EXCEPT !.screen_flash_state = ~d.screen_flash_state],
           {p \in Screen : d.cells[p].attr.has_flash /\ ~d.cells[p].attr.has_concealed})

FlashToggled(d) ==
    Redraw([d EXCEPT !.screen_flash_state = ~d.screen_flash_state],
           {p \in Screen : d.cells[p].attr.has_flash})

RevealToggled(d) ==
    Redraw([d EXCEPT !.screen_revealed_state = ~d.screen_revealed_state],
           {p \in Screen : d.cells[p].attr.has_concealed})

-----------------------------------------------------------------------------
(* The state machine.                                                      *)

\* vt_decoder_init() starts the first frame before it computes state->space,
\* so the first held mosaic is what memset() left there.  The colour pairs that
\* it may initialise are curses' and do not change: ColorsOfPair.
InitDecoder(bold) ==
    [row |-> 0, col |-> 0, dheight_low_row |-> -1, frame_buffer |-> << >>,
     flags |-> DefaultFlags(ZeroChar, FALSE),
     bold_mode |-> bold, screen_flash_state |-> FALSE, screen_revealed_state |-> FALSE,
     cells |-> [p \in Screen |-> BlankCell],
     window |-> [p \in Screen |-> [character |-> SPACE, bold |-> FALSE, color |-> 0]]]

Init == \E bold \in BOOLEAN : decoder = InitDecoder(bold)

\* The host sends a byte.
Receive(b) == decoder' = Decode(decoder, b)

\* The flash timer expires.
ToggleFlash == decoder' = FlashToggled(decoder)

\* The user types CTRL-r or CTRL-b.
ToggleReveal == decoder' = RevealToggled(decoder)
ToggleBold   == decoder' = [decoder EXCEPT !.bold_mode = ~decoder.bold_mode]

Next ==
    \/ \E b \in Bytes : Receive(b)
    \/ ToggleFlash
    \/ ToggleReveal
    \/ ToggleBold

Spec == Init /\ [][Next]_decoder

-----------------------------------------------------------------------------
(* Invariants.                                                             *)

\* Every field of struct vt_decoder_state has its type; in particular the
\* cursor stays on the screen and the frame buffer within its array.
TypeOK ==
    /\ decoder \in DecoderStates
    /\ Len(decoder.frame_buffer) <= FRAME_BUFFER_MAX

\* vt_decoder_decode() writes the lower half of a double height character at
\* cells[dheight_low_row]: while double height is on that row exists, whatever
\* cursor movement and frame change happened since it was set.
LowerHalfOnScreen ==
    decoder.flags.is_double_height => decoder.dheight_low_row \in Rows

\* The held mosaic only replaces a space while mosaics are selected
\* (decoder.h, "substitution only takes place in mosaics mode"): the decoder
\* never tests the mode, it relies on holding a space in alphanumerics mode.
HeldMosaicOnlyInMosaics ==
    decoder.flags.is_alpha => decoder.flags.held_mosaic \in {Space, ZeroChar}

\* The pair that vt_set_attr() gives a cell has the colours that the host
\* selected where vt_decoder_init() found 64 pairs: no other pair has its number,
\* and the one exception, pair 0, is never reached by black on black.  Where a
\* colour terminal has fewer pairs they are used all the same: a cell has the
\* colours selected if these are white on black, and else a pair without any.
ColorsAreShown ==
    LET pair     == AttrOf(decoder).color_pair
        selected == <<DrawingColor(decoder), decoder.flags.bg_color>>
        shown    == pair \in DOMAIN ColorsOfPair /\ ColorsOfPair[pair] = selected
    IN  has_colors =>
            /\ COLOR_PAIRS >= 64 => shown
            /\ COLOR_PAIRS < 64 =>
                   IF selected = <<WHITE, BLACK>> THEN shown
                   ELSE pair \notin DOMAIN ColorsOfPair

\* The window shows each cell as its attributes, the flash phase and the
\* reveal state ask for, although the toggles redraw some cells only.
WindowShowsCells ==
    \A p \in Screen : decoder.window[p] = Display(decoder, decoder.cells[p])

-----------------------------------------------------------------------------
(* Refinement and action properties.                                       *)

\* The row and the column implement a cursor on the ring of all positions:
\* every byte, attribute or text, on the ignored row or not, moves it as
\* ScreenCursor says and never lets it skip or repeat a position.
Cursor == INSTANCE ScreenCursor
            WITH Height <- MAX_ROWS, Width <- MAX_COLS,
                 pos <- decoder.row * MAX_COLS + decoder.col
CursorSpec == Cursor!CursorSpec

\* "ignore double height row 2 in the input stream" (decoder.h:132): until the
\* next frame a byte changes a character of that row only by drawing the lower
\* half of one, in the column of the cursor and from another row, however the
\* cursor was moved there.
LowerRowTakesHalvesOnly ==
    [][\A b \in Bytes \ {12}, col \in Cols :
          LET low == decoder.dheight_low_row
          IN  /\ low \in Rows /\ Receive(b)
              /\ decoder'.cells[<<low, col>>].character
                     # decoder.cells[<<low, col>>].character
              => decoder.flags.is_double_height /\ decoder.row # low /\ decoder.col = col
      ]_decoder
=============================================================================
