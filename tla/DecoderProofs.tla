--------------------------- MODULE DecoderProofs ---------------------------
(***************************************************************************)
(* The invariants of Decoder hold for every size of screen and of frame    *)
(* buffer, every font, with and without colours.                           *)
(*                                                                         *)
(* The invariant is stated for any decoder record (Sound), so that each    *)
(* operator of Decoder, a function from record to record, has one lemma    *)
(* that says it preserves it, in the order of the source.  Most operators  *)
(* first have a lemma for the type alone.  DEF DecoderStates and Flags are *)
(* only expanded in leaves about single fields.                            *)
(***************************************************************************)
EXTENDS Decoder, TLAPS

-----------------------------------------------------------------------------
(* Types: characters, flags and cells.                                     *)

\* The three forms of any character code are code points: gal_map_char() and
\* bed_map_char() are total on the codes and the states of the flags.
LEMMA CharType ==
    ASSUME NEW row_code \in RowCodes, NEW col_code \in ColCodes,
           NEW alpha \in BOOLEAN, NEW contiguous \in BOOLEAN
    PROVE  GetCharCode(row_code, col_code, alpha, contiguous) \in Chars
<1> DEFINE key(dheight, lower) ==
               <<row_code, col_code, alpha, contiguous, dheight, lower>>
<1>1. key(FALSE, FALSE) \in MapKeys /\ key(TRUE, FALSE) \in MapKeys /\ key(TRUE, TRUE) \in MapKeys
  BY Zenon DEF MapKeys
<1>2. /\ map_char[key(FALSE, FALSE)] \in CodePoints
      /\ map_char[key(TRUE, FALSE)] \in CodePoints
      /\ map_char[key(TRUE, TRUE)] \in CodePoints
  <2> HIDE DEF key
  <2> QED BY <1>1, DecoderAssumption
<1> QED
  BY <1>2 DEF GetCharCode, Chars

\* The space of vt_decoder_init() is a character.
LEMMA SpaceType == Space \in Chars
<1>1. 0 \in RowCodes /\ 2 \in ColCodes
  BY DEF RowCodes, ColCodes
<1> QED
  BY <1>1, CharType DEF Space

\* The flags that a row starts with are flags.
LEMMA DefaultFlagsType ==
    ASSUME NEW held \in Chars, NEW cursor_on \in BOOLEAN
    PROVE  DefaultFlags(held, cursor_on) \in Flags
BY SMT DEF DefaultFlags, Flags, Colors, Foregrounds, BLACK, WHITE

\* vt_reset_flags() keeps the type of the state.
LEMMA ResetFlagsType ==
    ASSUME NEW d \in DecoderStates
    PROVE  ResetFlags(d) \in DecoderStates
<1>1. d.flags.is_cursor_on \in BOOLEAN
  BY SMT DEF DecoderStates, Flags
<1>2. DefaultFlags(Space, d.flags.is_cursor_on) \in Flags
  BY <1>1, SpaceType, DefaultFlagsType
<1> QED
  BY SMT, <1>2 DEF ResetFlags, DecoderStates

\* What vt_put_char() shows for a cell has the type of the window.
LEMMA DisplayType ==
    ASSUME NEW d \in DecoderStates, NEW cell \in Cells
    PROVE  Display(d, cell) \in Shown
<1>1. SPACE \in CodePoints /\ cell.character \in CodePoints /\ 0 \in 0 .. 63
  BY SMT DEF Cells, SPACE, CodePoints
<1>2. cell.attr.bold \in BOOLEAN /\ cell.attr.color_pair \in 0 .. 63
  BY SMT DEF Cells, Attrs
<1> QED
  BY SMT, <1>1, <1>2 DEF Display, Shown

\* vt_put_char() at any set of positions of the screen keeps the type.
LEMMA PutCharsType ==
    ASSUME NEW d \in DecoderStates, NEW P \in SUBSET Screen, NEW new \in [P -> Cells]
    PROVE  PutChars(d, new) \in DecoderStates
<1> DEFINE cells == [p \in Screen |-> IF p \in DOMAIN new THEN new[p] ELSE d.cells[p]]
           window == [p \in Screen |-> IF p \in DOMAIN new THEN Display(d, new[p])
                                       ELSE d.window[p]]
<1>1. cells \in [Screen -> Cells]
  BY DEF DecoderStates
<1>2. window \in [Screen -> Shown]
  BY DisplayType DEF DecoderStates
<1> HIDE DEF cells, window
<1>3. PutChars(d, new) = [d EXCEPT !.cells = cells, !.window = window]
  BY DEF PutChars, cells, window
<1> QED
  BY <1>1, <1>2, <1>3 DEF DecoderStates

-----------------------------------------------------------------------------
(* The cursor.                                                             *)

\* The first and the last row and column are on the screen.
LEMMA Edges ==
    /\ 0 \in Rows /\ MAX_ROWS - 1 \in Rows /\ MAX_ROWS \in Int
    /\ 0 \in Cols /\ MAX_COLS - 1 \in Cols /\ MAX_COLS \in Int
BY SMT, DecoderAssumption DEF Rows, Cols

\* The cursor and every position that an operation moves it to are on the
\* screen: the wrap tests of vt_move_cursor()'s callers leave no gap.
LEMMA Neighbours ==
    ASSUME NEW d \in DecoderStates
    PROVE  /\ d.row \in Rows /\ d.col \in Cols
           /\ RowAbove(d) \in Rows /\ RowBelow(d) \in Rows
           /\ d.row + 1 < MAX_ROWS => d.row + 1 \in Rows
           /\ d.col > 0 => d.col - 1 \in Cols
           /\ d.col + 1 < MAX_COLS => d.col + 1 \in Cols
           /\ d.col + 1 # MAX_COLS => d.col + 1 \in Cols
<1>1. d.row \in Rows /\ d.col \in Cols
  BY SMT DEF DecoderStates
<1> QED
  BY SMT, <1>1, DecoderAssumption DEF RowAbove, RowBelow, Rows, Cols

\* A new row keeps the type.
LEMMA RowType ==
    ASSUME NEW d \in DecoderStates, NEW r \in Rows
    PROVE  [d EXCEPT !.row = r] \in DecoderStates
BY SMT DEF DecoderStates

\* A new column keeps the type.
LEMMA ColType ==
    ASSUME NEW d \in DecoderStates, NEW c \in Cols
    PROVE  [d EXCEPT !.col = c] \in DecoderStates
BY SMT DEF DecoderStates

\* A new row and column together keep the type.
LEMMA CursorType ==
    ASSUME NEW d \in DecoderStates, NEW r \in Rows, NEW c \in Cols
    PROVE  /\ [d EXCEPT !.col = c, !.row = r] \in DecoderStates
           /\ [d EXCEPT !.row = r, !.col = c] \in DecoderStates
<1>1. [d EXCEPT !.col = c, !.row = r] = [[d EXCEPT !.col = c] EXCEPT !.row = r]
  OBVIOUS
<1>2. [d EXCEPT !.row = r, !.col = c] = [[d EXCEPT !.row = r] EXCEPT !.col = c]
  OBVIOUS
<1> QED
  BY <1>1, <1>2, RowType, ColType, Zenon

\* vt_fill_end() past the first column puts cells on the screen: the cell
\* before the cursor exists and so do those to the end of the row.
LEMMA FillEndPuts ==
    ASSUME NEW d \in DecoderStates, d.col # 0
    PROVE  \E P \in SUBSET Screen : \E new \in [P -> Cells] :
               FillEnd(d) = PutChars(d, new)
<1> DEFINE prev == d.cells[<<d.row, d.col - 1>>].attr
           P    == {d.row} \X (d.col .. MAX_COLS - 1)
           new  == [p \in P |->
                       [character |-> d.cells[p].character,
                        attr |-> [ZeroAttr EXCEPT !.bold = prev.bold,
                                                  !.color_pair = prev.color_pair]]]
<1>1. <<d.row, d.col - 1>> \in Screen
  BY SMT, Neighbours DEF Screen, Cols
<1>2. d.cells \in [Screen -> Cells]
  BY SMT DEF DecoderStates
<1>3. prev \in Attrs
  BY SMT, <1>1, <1>2 DEF Cells
<1>4. P \subseteq Screen
  BY SMT, Neighbours DEF Screen, Cols
<1>5. FillEnd(d) = PutChars(d, new)
  BY DEF FillEnd
<1> HIDE DEF prev, P
<1>6. [ZeroAttr EXCEPT !.bold = prev.bold, !.color_pair = prev.color_pair] \in Attrs
  <2>1. ZeroAttr \in Attrs /\ prev.bold \in BOOLEAN /\ prev.color_pair \in 0 .. 63
    BY SMT, <1>3 DEF ZeroAttr, Attrs
  <2>2. \A a \in Attrs : [a EXCEPT !.bold = prev.bold] \in Attrs
    BY SMT, <2>1 DEF Attrs
  <2>3. \A a \in Attrs : [a EXCEPT !.color_pair = prev.color_pair] \in Attrs
    BY SMT, <2>1 DEF Attrs
  <2> QED
    BY <2>1, <2>2, <2>3, Zenon
<1>7. new \in [P -> Cells]
  BY SMT, <1>2, <1>4, <1>6 DEF Cells
<1> QED
  BY <1>4, <1>5, <1>7

\* A new dheight_low_row keeps the type.
LEMMA LowRowType ==
    ASSUME NEW d \in DecoderStates, NEW low \in -1 .. MAX_ROWS - 1
    PROVE  [d EXCEPT !.dheight_low_row = low] \in DecoderStates
BY SMT DEF DecoderStates

\* New buffered bytes keep the type.
LEMMA FrameBufferType ==
    ASSUME NEW d \in DecoderStates, NEW buffer \in Seq(Bytes)
    PROVE  [d EXCEPT !.frame_buffer = buffer] \in DecoderStates
BY SMT DEF DecoderStates

\* Each of the three switches of the state keeps the type.
LEMMA ScreenStateType ==
    ASSUME NEW d \in DecoderStates, NEW b \in BOOLEAN
    PROVE  /\ [d EXCEPT !.screen_flash_state = b] \in DecoderStates
           /\ [d EXCEPT !.screen_revealed_state = b] \in DecoderStates
           /\ [d EXCEPT !.bold_mode = b] \in DecoderStates
<1>1. [d EXCEPT !.screen_flash_state = b] \in DecoderStates
  BY SMT DEF DecoderStates
<1>2. [d EXCEPT !.screen_revealed_state = b] \in DecoderStates
  BY SMT DEF DecoderStates
<1>3. [d EXCEPT !.bold_mode = b] \in DecoderStates
  BY SMT DEF DecoderStates
<1> QED
  BY <1>1, <1>2, <1>3

\* vt_new_frame() has a well typed state before it blanks the cells.
LEMMA NewFrameStart ==
    ASSUME NEW d \in DecoderStates
    PROVE  ResetFlags([d EXCEPT !.row = 0, !.col = 0, !.dheight_low_row = -1,
                                !.frame_buffer = << >>,
                                !.screen_revealed_state = FALSE]) \in DecoderStates
<1> DEFINE e == [d EXCEPT !.row = 0, !.col = 0, !.dheight_low_row = -1,
                          !.frame_buffer = << >>, !.screen_revealed_state = FALSE]
<1>1. -1 \in -1 .. MAX_ROWS - 1
  BY SMT, DecoderAssumption
<1>2. << >> \in Seq(Bytes)
  OBVIOUS
<1>3. e \in DecoderStates
  BY <1>1, <1>2, Edges, CursorType, LowRowType, FrameBufferType, ScreenStateType, Zenon
<1> QED
  BY <1>3, ResetFlagsType

\* vt_new_frame() keeps the type.
LEMMA NewFrameType == ASSUME NEW d \in DecoderStates PROVE NewFrame(d) \in DecoderStates
<1>1. [p \in Screen |-> BlankCell] \in [Screen -> Cells]
  BY SMT DEF BlankCell, Cells, ZeroAttr, Attrs, SPACE, CodePoints
<1> QED
  BY <1>1, NewFrameStart, PutCharsType DEF NewFrame

\* New flags keep the type.
LEMMA FlagsType ==
    ASSUME NEW d \in DecoderStates, NEW f \in Flags
    PROVE  [d EXCEPT !.flags = f] \in DecoderStates
BY SMT DEF DecoderStates

\* Setting one Boolean flag keeps the type.
LEMMA BooleanFlagType ==
    ASSUME NEW d \in DecoderStates, NEW b \in BOOLEAN
    PROVE  /\ [d EXCEPT !.flags.is_alpha = b] \in DecoderStates
           /\ [d EXCEPT !.flags.is_contiguous = b] \in DecoderStates
           /\ [d EXCEPT !.flags.is_flashing = b] \in DecoderStates
           /\ [d EXCEPT !.flags.is_escaped = b] \in DecoderStates
           /\ [d EXCEPT !.flags.is_boxing = b] \in DecoderStates
           /\ [d EXCEPT !.flags.is_concealed = b] \in DecoderStates
           /\ [d EXCEPT !.flags.is_mosaic_held = b] \in DecoderStates
           /\ [d EXCEPT !.flags.is_double_height = b] \in DecoderStates
           /\ [d EXCEPT !.flags.is_cursor_on = b] \in DecoderStates
<1>1. d.flags \in Flags
  BY SMT DEF DecoderStates
<1>2. [d.flags EXCEPT !.is_alpha = b] \in Flags
  BY SMT, <1>1 DEF Flags
<1>3. [d.flags EXCEPT !.is_contiguous = b] \in Flags
  BY SMT, <1>1 DEF Flags
<1>4. [d.flags EXCEPT !.is_flashing = b] \in Flags
  BY SMT, <1>1 DEF Flags
<1>5. [d.flags EXCEPT !.is_escaped = b] \in Flags
  BY SMT, <1>1 DEF Flags
<1>6. [d.flags EXCEPT !.is_boxing = b] \in Flags
  BY SMT, <1>1 DEF Flags
<1>7. [d.flags EXCEPT !.is_concealed = b] \in Flags
  BY SMT, <1>1 DEF Flags
<1>8. [d.flags EXCEPT !.is_mosaic_held = b] \in Flags
  BY SMT, <1>1 DEF Flags
<1>9. [d.flags EXCEPT !.is_double_height = b] \in Flags
  BY SMT, <1>1 DEF Flags
<1>10. [d.flags EXCEPT !.is_cursor_on = b] \in Flags
  BY SMT, <1>1 DEF Flags
<1> QED
  BY <1>2, <1>3, <1>4, <1>5, <1>6, <1>7, <1>8, <1>9, <1>10, FlagsType, Zenon

\* Setting one colour keeps the type.
LEMMA ColorFlagType ==
    ASSUME NEW d \in DecoderStates, NEW c \in Colors, NEW fg \in Foregrounds
    PROVE  /\ [d EXCEPT !.flags.bg_color = c] \in DecoderStates
           /\ [d EXCEPT !.flags.alpha_fg_color = fg] \in DecoderStates
           /\ [d EXCEPT !.flags.mosaic_fg_color = fg] \in DecoderStates
<1>1. d.flags \in Flags
  BY SMT DEF DecoderStates
<1>2. [d.flags EXCEPT !.bg_color = c] \in Flags
  BY SMT, <1>1 DEF Flags
<1>3. [d.flags EXCEPT !.alpha_fg_color = fg] \in Flags
  BY SMT, <1>1 DEF Flags
<1>4. [d.flags EXCEPT !.mosaic_fg_color = fg] \in Flags
  BY SMT, <1>1 DEF Flags
<1> QED
  BY <1>2, <1>3, <1>4, FlagsType, Zenon

\* Setting the held mosaic keeps the type.
LEMMA HeldMosaicType ==
    ASSUME NEW d \in DecoderStates, NEW m \in Chars
    PROVE  /\ [d EXCEPT !.flags.held_mosaic = m] \in DecoderStates
<1>1. d.flags \in Flags
  BY SMT DEF DecoderStates
<1>2. [d.flags EXCEPT !.held_mosaic = m] \in Flags
  BY SMT, <1>1 DEF Flags
<1> QED
  BY <1>2, FlagsType, Zenon

\* The attributes that take effect at once keep the type.
LEMMA SetAtType ==
    ASSUME NEW d \in DecoderStates, NEW code \in 0 .. 127
    PROVE  SetAt(d, code) \in DecoderStates
<1> DEFINE fg == IF d.flags.is_alpha THEN d.flags.alpha_fg_color
                                     ELSE d.flags.mosaic_fg_color
<1>1. fg \in Colors /\ BLACK \in Colors /\ WHITE \in Foregrounds
  BY SMT DEF DecoderStates, Flags, Colors, Foregrounds, BLACK, WHITE
<1>2. /\ [d EXCEPT !.flags.bg_color = fg] \in DecoderStates
      /\ [d EXCEPT !.flags.bg_color = BLACK] \in DecoderStates
  BY <1>1, ColorFlagType
<1>3. [[d EXCEPT !.flags.is_double_height = FALSE]
         EXCEPT !.flags.held_mosaic = Space] \in DecoderStates
  BY SpaceType, BooleanFlagType, HeldMosaicType, Zenon
<1> QED
  BY <1>2, <1>3, BooleanFlagType, Zenon DEF SetAt

\* With or without an escape, a byte is a 7-bit code.
LEMMA CodeType ==
    ASSUME NEW d \in DecoderStates, NEW b \in Bytes
    PROVE  CodeOf(d, b) \in 0 .. 127
<1> DEFINE c == (b \div 16) % 8
           r == b % 16
<1>1. b \in 0 .. 255
  BY DecoderAssumption
<1>2. c \in 0 .. 7 /\ r \in 0 .. 15
  BY SMT, <1>1
<1>3. c % 2 \in 0 .. 7
  BY SMT, <1>2
<1> HIDE DEF c, r
<1>4. \A x \in 0 .. 7 : 16 * x + r \in 0 .. 127
  BY SMT, <1>2
<1> QED
  BY <1>2, <1>3, <1>4, Zenon DEF CodeOf, c, r

\* Select() on the flags alone.
SelectFlags(f, alpha) ==
    [f EXCEPT !.is_alpha = alpha, !.is_concealed = FALSE,
              !.held_mosaic = IF f.is_alpha # alpha THEN Space ELSE f.held_mosaic]

\* A colour changes the flags only.
LEMMA SelectOfFlags ==
    ASSUME NEW d, NEW alpha
    PROVE  Select(d, alpha) = [d EXCEPT !.flags = SelectFlags(d.flags, alpha)]
BY DEF Select, SelectFlags

\* A colour selects the mode it belongs to, and leaves the held mosaic of the
\* other mode behind.
LEMMA SelectFrame ==
    ASSUME NEW f \in Flags, NEW alpha \in BOOLEAN
    PROVE  /\ SelectFlags(f, alpha) \in Flags
           /\ SelectFlags(f, alpha).is_alpha = alpha
           /\ \/ f.is_alpha = alpha /\ SelectFlags(f, alpha).held_mosaic = f.held_mosaic
              \/ SelectFlags(f, alpha).held_mosaic = Space
<1> DEFINE held == IF f.is_alpha # alpha THEN Space ELSE f.held_mosaic
<1>1. held = Space \/ (f.is_alpha = alpha /\ held = f.held_mosaic)
  BY SMT
<1>2. held \in Chars
  BY SMT, <1>1, SpaceType DEF Flags
<1>3. SelectFlags(f, alpha) = [f EXCEPT !.is_alpha = alpha, !.is_concealed = FALSE,
                                        !.held_mosaic = held]
  BY DEF SelectFlags
<1> HIDE DEF held
<1>4. SelectFlags(f, alpha).is_alpha = alpha
  BY SMT, <1>3 DEF Flags
<1>5. SelectFlags(f, alpha).held_mosaic = held
  BY SMT, <1>3 DEF Flags
<1>6. SelectFlags(f, alpha) \in Flags
  <2>1. \A g \in Flags : [g EXCEPT !.is_alpha = alpha] \in Flags
    BY SMT DEF Flags
  <2>2. \A g \in Flags, b \in BOOLEAN : [g EXCEPT !.is_concealed = b] \in Flags
    BY SMT DEF Flags
  <2>3. \A g \in Flags : [g EXCEPT !.held_mosaic = held] \in Flags
    BY SMT, <1>2 DEF Flags
  <2> QED
    BY <1>3, <2>1, <2>2, <2>3, Zenon
<1> QED
  BY <1>1, <1>4, <1>5, <1>6

\* A colour keeps the type.
LEMMA SelectType ==
    ASSUME NEW d \in DecoderStates, NEW alpha \in BOOLEAN
    PROVE  Select(d, alpha) \in DecoderStates
<1>1. d.flags \in Flags
  BY SMT DEF DecoderStates
<1> QED
  BY <1>1, SelectFrame, SelectOfFlags, FlagsType

\* The attributes that take effect at the next cell keep the type; double
\* height is only accepted where the next row exists.
LEMMA SetAfterType ==
    ASSUME NEW d \in DecoderStates, NEW code \in 0 .. 127
    PROVE  SetAfter(d, code) \in DecoderStates
<1>1. CASE code \in AlphaColors
  <2>1. code \in Foregrounds /\ BLACK \in Colors
    BY SMT, <1>1 DEF AlphaColors, Colors, Foregrounds, BLACK, WHITE
  <2>2. SetAfter(d, code) = [Select(d, TRUE) EXCEPT !.flags.alpha_fg_color = code]
    BY SMT, <1>1 DEF SetAfter, AlphaColors, MosaicColors
  <2>3. Select(d, TRUE) \in DecoderStates
    BY SelectType
  <2> QED
    BY <2>1, <2>2, <2>3, ColorFlagType, Zenon
<1>2. CASE code \in MosaicColors
  <2>1. code - 16 \in Foregrounds /\ code \notin AlphaColors /\ BLACK \in Colors
    BY SMT, <1>2 DEF AlphaColors, MosaicColors, Colors, Foregrounds, BLACK, WHITE
  <2>2. SetAfter(d, code) = [Select(d, FALSE) EXCEPT !.flags.mosaic_fg_color = code - 16]
    BY SMT, <1>2, <2>1 DEF SetAfter, MosaicColors
  <2>3. Select(d, FALSE) \in DecoderStates
    BY SelectType
  <2> QED
    BY <2>1, <2>2, <2>3, ColorFlagType, Zenon
<1>3. CASE code \notin AlphaColors /\ code \notin MosaicColors
  <2>1. CASE code = 13 /\ CanDoubleHeight(d)
    <3>1. d.row + 1 \in -1 .. MAX_ROWS - 1
      BY SMT, <2>1, Neighbours, DecoderAssumption DEF CanDoubleHeight, Rows
    <3>2. [[d EXCEPT !.flags.is_double_height = TRUE]
             EXCEPT !.dheight_low_row = d.row + 1] \in DecoderStates
      BY <3>1, BooleanFlagType, LowRowType, Zenon
    <3>3. SetAfter(d, code) = [d EXCEPT !.flags.is_double_height = TRUE,
                                        !.dheight_low_row = d.row + 1]
      BY SMT, <1>3, <2>1 DEF SetAfter
    <3> QED
      BY <3>2, <3>3, Zenon
  <2>2. CASE ~(code = 13 /\ CanDoubleHeight(d))
    BY <1>3, <2>2, BooleanFlagType, Zenon DEF SetAfter
  <2> QED
    BY <2>1, <2>2
<1> QED
  BY <1>1, <1>2, <1>3

\* vt_set_attr() gives a cell one of the 64 colour pairs.
LEMMA AttrType == ASSUME NEW d \in DecoderStates PROVE AttrOf(d) \in Attrs
<1> DEFINE f  == d.flags
           fg == IF f.is_alpha THEN f.alpha_fg_color ELSE f.mosaic_fg_color
           pair == IF has_colors THEN ColorPairNumber(fg, f.bg_color) ELSE 0
<1>1. f \in Flags /\ d.bold_mode \in BOOLEAN
  BY SMT DEF DecoderStates
<1>2. /\ f.bg_color \in 0 .. 7 /\ fg \in 0 .. 7
      /\ f.is_flashing \in BOOLEAN /\ f.is_concealed \in BOOLEAN
  BY SMT, <1>1 DEF Flags, Colors, Foregrounds, BLACK, WHITE
<1>3. \A x, y \in 0 .. 7 : ColorPairNumber(x, y) \in 0 .. 63
  BY SMT DEF ColorPairNumber
<1>4. pair \in 0 .. 63
  BY <1>2, <1>3
<1> HIDE DEF pair
<1>5. AttrOf(d) = [bold |-> d.bold_mode, color_pair |-> pair,
                   has_flash |-> f.is_flashing, has_concealed |-> f.is_concealed]
  BY DEF AttrOf, pair
<1> QED
  BY SMT, <1>1, <1>2, <1>4, <1>5 DEF Attrs

-----------------------------------------------------------------------------
(* The inductive invariant, said of any decoder record.                    *)

LowerHalf(d) == d.flags.is_double_height => d.dheight_low_row \in Rows
HeldBlank(d) == d.flags.is_alpha => d.flags.held_mosaic \in {Space, ZeroChar}
WindowOf(d)  == \A p \in Screen : d.window[p] = Display(d, d.cells[p])

Within(d)    == Len(d.frame_buffer) <= FRAME_BUFFER_MAX

Sound(d) ==
    /\ d \in DecoderStates
    /\ LowerHalf(d) /\ HeldBlank(d) /\ WindowOf(d) /\ Within(d)

\* Nothing that the window depends on is changed.
SameScreen(d, e) ==
    /\ e.cells = d.cells /\ e.window = d.window
    /\ e.screen_flash_state = d.screen_flash_state
    /\ e.screen_revealed_state = d.screen_revealed_state

\* A change that leaves cells, window and both phases alone leaves the window
\* showing the cells.
LEMMA SameScreenSound ==
    ASSUME NEW d, NEW e, SameScreen(d, e), WindowOf(d)
    PROVE  WindowOf(e)
<1>1. \A cell : Display(e, cell) = Display(d, cell)
  BY DEF SameScreen, Display
<1> QED
  BY <1>1 DEF SameScreen, WindowOf

\* vt_put_char() changes cells and window and nothing else.
LEMMA PutCharsFrame ==
    ASSUME NEW d \in DecoderStates, NEW new
    PROVE  /\ PutChars(d, new).flags = d.flags
           /\ PutChars(d, new).dheight_low_row = d.dheight_low_row
           /\ PutChars(d, new).row = d.row /\ PutChars(d, new).col = d.col
           /\ PutChars(d, new).frame_buffer = d.frame_buffer
           /\ PutChars(d, new).screen_flash_state = d.screen_flash_state
           /\ PutChars(d, new).screen_revealed_state = d.screen_revealed_state
           /\ PutChars(d, new).cells =
                 [p \in Screen |-> IF p \in DOMAIN new THEN new[p] ELSE d.cells[p]]
           /\ PutChars(d, new).window =
                 [p \in Screen |-> IF p \in DOMAIN new THEN Display(d, new[p])
                                   ELSE d.window[p]]
BY SMT DEF PutChars, DecoderStates

\* Putting cells anywhere on the screen preserves the invariant.
LEMMA PutCharsSound ==
    ASSUME NEW d, Sound(d), NEW P \in SUBSET Screen, NEW new \in [P -> Cells]
    PROVE  Sound(PutChars(d, new))
<1> DEFINE e == PutChars(d, new)
<1>1. d \in DecoderStates /\ WindowOf(d)
  BY DEF Sound
<1>2. e \in DecoderStates
  BY <1>1, PutCharsType
<1>3. LowerHalf(e) /\ HeldBlank(e) /\ Within(e)
  BY <1>1, PutCharsFrame DEF Sound, LowerHalf, HeldBlank, Within
<1>4. /\ e.screen_flash_state = d.screen_flash_state
      /\ e.screen_revealed_state = d.screen_revealed_state
      /\ e.cells = [p \in Screen |-> IF p \in DOMAIN new THEN new[p] ELSE d.cells[p]]
      /\ e.window = [p \in Screen |-> IF p \in DOMAIN new THEN Display(d, new[p])
                                      ELSE d.window[p]]
  BY <1>1, PutCharsFrame
<1> HIDE DEF e
<1>5. \A cell : Display(e, cell) = Display(d, cell)
  BY <1>4 DEF Display
<1>6. WindowOf(e)
  BY <1>1, <1>4, <1>5 DEF WindowOf
<1>7. Sound(e)
  BY <1>2, <1>3, <1>6 DEF Sound
<1> QED
  BY <1>7 DEF e

\* vt_reset_flags() establishes the parts of the invariant about flags: double
\* height off and a space held.
LEMMA ResetFlagsSound ==
    ASSUME NEW d, d \in DecoderStates, WindowOf(d), Within(d)
    PROVE  Sound(ResetFlags(d))
<1> DEFINE e == ResetFlags(d)
           f == DefaultFlags(Space, d.flags.is_cursor_on)
<1>1. f.is_double_height = FALSE /\ f.held_mosaic = Space
  BY DEF DefaultFlags
<1>2. e = [d EXCEPT !.flags = f]
  BY DEF ResetFlags
<1>3. e \in DecoderStates
  BY ResetFlagsType
<1> HIDE DEF f, e
<1>4. SameScreen(d, e) /\ e.flags = f /\ e.frame_buffer = d.frame_buffer
  BY SMT, <1>2 DEF SameScreen, DecoderStates
<1>5. LowerHalf(e) /\ HeldBlank(e) /\ Within(e)
  BY <1>1, <1>4 DEF LowerHalf, HeldBlank, Within
<1>6. WindowOf(e)
  BY <1>4, SameScreenSound
<1>7. Sound(e)
  BY <1>3, <1>5, <1>6 DEF Sound
<1> QED
  BY <1>7 DEF e

\* The invariant does not depend on where the cursor is.  For the lower half
\* this is the point: the low row, once set, is valid from any row.
LEMMA CursorSound ==
    ASSUME NEW d, Sound(d), NEW r \in Rows, NEW c \in Cols
    PROVE  /\ Sound([d EXCEPT !.row = r])
           /\ Sound([d EXCEPT !.col = c])
<1>1. d \in DecoderStates
  BY DEF Sound
<1>2. Sound([d EXCEPT !.row = r])
  <2> DEFINE e == [d EXCEPT !.row = r]
  <2>1. /\ SameScreen(d, e) /\ e.flags = d.flags
        /\ e.dheight_low_row = d.dheight_low_row /\ e.frame_buffer = d.frame_buffer
    BY SMT, <1>1 DEF SameScreen, DecoderStates
  <2>2. e \in DecoderStates
    BY <1>1, RowType
  <2> HIDE DEF e
  <2>3. Sound(e)
    BY <2>1, <2>2, SameScreenSound DEF Sound, LowerHalf, HeldBlank, Within
  <2> QED
    BY <2>3 DEF e
<1>3. Sound([d EXCEPT !.col = c])
  <2> DEFINE e == [d EXCEPT !.col = c]
  <2>1. /\ SameScreen(d, e) /\ e.flags = d.flags
        /\ e.dheight_low_row = d.dheight_low_row /\ e.frame_buffer = d.frame_buffer
    BY SMT, <1>1 DEF SameScreen, DecoderStates
  <2>2. e \in DecoderStates
    BY <1>1, ColType
  <2> HIDE DEF e
  <2>3. Sound(e)
    BY <2>1, <2>2, SameScreenSound DEF Sound, LowerHalf, HeldBlank, Within
  <2> QED
    BY <2>3 DEF e
<1> QED
  BY <1>2, <1>3

\* Keeping a byte of the frame preserves the invariant, and the buffer stays
\* within its array.
LEMMA BufferSound ==
    ASSUME NEW d, Sound(d), NEW b \in Bytes
    PROVE  Sound(Buffer(d, b))
<1>1. d \in DecoderStates
  BY DEF Sound
<1>2. CASE Len(d.frame_buffer) < FRAME_BUFFER_MAX
  <2> DEFINE buffer == Append(d.frame_buffer, b)
             e == [d EXCEPT !.frame_buffer = buffer]
  <2>1. d.frame_buffer \in Seq(Bytes)
    BY SMT, <1>1 DEF DecoderStates
  <2>2. buffer \in Seq(Bytes) /\ Len(buffer) <= FRAME_BUFFER_MAX
    BY SMT, <1>2, <2>1, DecoderAssumption
  <2> HIDE DEF buffer
  <2>3. e \in DecoderStates
    BY <1>1, <2>2, FrameBufferType
  <2>4. /\ SameScreen(d, e) /\ e.flags = d.flags
        /\ e.dheight_low_row = d.dheight_low_row /\ e.frame_buffer = buffer
    BY SMT, <1>1 DEF SameScreen, DecoderStates
  <2>5. Buffer(d, b) = e
    BY <1>2 DEF Buffer, buffer
  <2> HIDE DEF e
  <2>6. Sound(e)
    BY <2>2, <2>3, <2>4, SameScreenSound DEF Sound, LowerHalf, HeldBlank, Within
  <2> QED
    BY <2>5, <2>6
<1>3. CASE ~(Len(d.frame_buffer) < FRAME_BUFFER_MAX)
  BY <1>3 DEF Buffer
<1> QED
  BY <1>2, <1>3

\* vt_next_row() preserves the invariant.
LEMMA NextRowSound == ASSUME NEW d, Sound(d) PROVE Sound(NextRow(d))
<1> DEFINE r == IF d.row + 1 < MAX_ROWS THEN d.row + 1 ELSE 0
           e == [[d EXCEPT !.row = r] EXCEPT !.col = 0]
<1>1. d \in DecoderStates
  BY DEF Sound
<1>2. r \in Rows
  BY <1>1, Edges, Neighbours
<1> HIDE DEF r
<1>3. Sound(e)
  BY <1>2, Edges, CursorSound, Zenon
<1>4. NextRow(d) = ResetFlags(e)
  BY Zenon DEF NextRow, r
<1> HIDE DEF e
<1> QED
  BY <1>3, <1>4, ResetFlagsSound DEF Sound

\* The end of a display character preserves the invariant.
LEMMA AdvanceSound == ASSUME NEW d, Sound(d) PROVE Sound(Advance(d))
<1>1. d \in DecoderStates
  BY DEF Sound
<1>2. CASE d.col + 1 = MAX_COLS
  BY <1>2, NextRowSound DEF Advance
<1>3. CASE d.col + 1 # MAX_COLS
  BY <1>1, <1>3, Neighbours, CursorSound DEF Advance
<1> QED
  BY <1>2, <1>3

\* vt_fill_end() preserves the invariant.
LEMMA FillEndSound == ASSUME NEW d, Sound(d) PROVE Sound(FillEnd(d))
<1>1. d \in DecoderStates
  BY DEF Sound
<1>2. CASE d.col = 0
  BY <1>2 DEF FillEnd
<1>3. CASE d.col # 0
  <2>1. PICK P \in SUBSET Screen : \E new \in [P -> Cells] : FillEnd(d) = PutChars(d, new)
    BY <1>1, <1>3, FillEndPuts
  <2> QED
    BY <2>1, PutCharsSound
<1> QED
  BY <1>2, <1>3

\* To preserve the invariant a change of flags need only preserve its parts
\* about flags.
LEMMA SoundFrom ==
    ASSUME NEW d, Sound(d), NEW e \in DecoderStates, SameScreen(d, e),
           LowerHalf(e), HeldBlank(e), e.frame_buffer = d.frame_buffer
    PROVE  Sound(e)
BY SameScreenSound DEF Sound, Within

\* The fields of a record that one of its flags, or its low row, does not touch.
LEMMA FlagsFrame ==
    ASSUME NEW d \in DecoderStates, NEW f
    PROVE  /\ SameScreen(d, [d EXCEPT !.flags = f])
           /\ [d EXCEPT !.flags = f].dheight_low_row = d.dheight_low_row
           /\ [d EXCEPT !.flags = f].flags = f
           /\ [d EXCEPT !.flags = f].frame_buffer = d.frame_buffer
BY SMT DEF SameScreen, DecoderStates

\* The attributes that take effect at once preserve the invariant.
LEMMA SetAtSound ==
    ASSUME NEW d, Sound(d), NEW code \in 0 .. 127
    PROVE  Sound(SetAt(d, code))
<1> DEFINE e == SetAt(d, code)
<1>1. d \in DecoderStates /\ LowerHalf(d) /\ HeldBlank(d)
  BY DEF Sound
<1>2. e \in DecoderStates
  BY <1>1, SetAtType
<1>3. /\ SameScreen(d, e) /\ e.dheight_low_row = d.dheight_low_row
      /\ e.frame_buffer = d.frame_buffer
  BY SMT, <1>1 DEF SetAt, SameScreen, DecoderStates
<1>4. /\ e.flags.is_double_height => d.flags.is_double_height
      /\ e.flags.is_alpha = d.flags.is_alpha
      /\ e.flags.held_mosaic \in {d.flags.held_mosaic, Space}
  BY SMT, <1>1 DEF SetAt, DecoderStates, Flags
<1> HIDE DEF e
<1>5. LowerHalf(e) /\ HeldBlank(e)
  BY <1>1, <1>3, <1>4 DEF LowerHalf, HeldBlank
<1>6. Sound(e)
  BY <1>2, <1>3, <1>5, SoundFrom
<1> QED
  BY <1>6 DEF e

\* A new foreground colour leaves mode and held mosaic alone.
LEMMA ColorFlagFrame ==
    ASSUME NEW d \in DecoderStates, NEW c
    PROVE  /\ [d EXCEPT !.flags.alpha_fg_color = c].flags.is_alpha = d.flags.is_alpha
           /\ [d EXCEPT !.flags.alpha_fg_color = c].flags.held_mosaic = d.flags.held_mosaic
           /\ [d EXCEPT !.flags.mosaic_fg_color = c].flags.is_alpha = d.flags.is_alpha
           /\ [d EXCEPT !.flags.mosaic_fg_color = c].flags.held_mosaic = d.flags.held_mosaic
BY SMT DEF DecoderStates, Flags

\* The attributes that take effect at the next cell preserve the invariant:
\* double height goes with a row below, mosaics that end with a space held.
LEMMA SetAfterSound ==
    ASSUME NEW d, Sound(d), NEW code \in 0 .. 127
    PROVE  Sound(SetAfter(d, code))
<1> DEFINE e == SetAfter(d, code)
<1>1. d \in DecoderStates /\ LowerHalf(d) /\ HeldBlank(d)
  BY DEF Sound
<1>2. e \in DecoderStates
  BY <1>1, SetAfterType
<1>3. SameScreen(d, e) /\ e.frame_buffer = d.frame_buffer
  BY SMT, <1>1 DEF SetAfter, Select, SameScreen, DecoderStates
<1>4. \/ e.dheight_low_row = d.dheight_low_row
         /\ (e.flags.is_double_height => d.flags.is_double_height)
      \/ e.dheight_low_row = d.row + 1 /\ CanDoubleHeight(d)
  BY SMT, <1>1 DEF SetAfter, Select, DecoderStates, Flags
<1>5. \/ e.flags.is_alpha = d.flags.is_alpha
         /\ e.flags.held_mosaic = d.flags.held_mosaic
      \/ e.flags.held_mosaic = Space
  <2>1. d.flags \in Flags
    BY SMT, <1>1 DEF DecoderStates
  <2>2. ASSUME NEW alpha \in BOOLEAN
        PROVE  \/ Select(d, alpha).flags.is_alpha = d.flags.is_alpha
                  /\ Select(d, alpha).flags.held_mosaic = d.flags.held_mosaic
               \/ Select(d, alpha).flags.held_mosaic = Space
    <3>1. Select(d, alpha).flags = SelectFlags(d.flags, alpha)
      BY <1>1, SelectOfFlags, FlagsFrame
    <3> QED
      BY <2>1, <3>1, SelectFrame
  <2>3. CASE code \in AlphaColors
    <3>1. e = [Select(d, TRUE) EXCEPT !.flags.alpha_fg_color = code]
      BY SMT, <2>3 DEF SetAfter, AlphaColors, MosaicColors
    <3>2. Select(d, TRUE) \in DecoderStates
      BY <1>1, SelectType
    <3> HIDE DEF e
    <3> QED
      BY <2>2, <3>1, <3>2, ColorFlagFrame
  <2>4. CASE code \in MosaicColors
    <3>1. e = [Select(d, FALSE) EXCEPT !.flags.mosaic_fg_color = code - 16]
      BY SMT, <2>4 DEF SetAfter, AlphaColors, MosaicColors
    <3>2. Select(d, FALSE) \in DecoderStates
      BY <1>1, SelectType
    <3> HIDE DEF e
    <3> QED
      BY <2>2, <3>1, <3>2, ColorFlagFrame
  <2>5. CASE code \notin AlphaColors /\ code \notin MosaicColors
    BY SMT, <1>1, <2>5 DEF SetAfter, DecoderStates, Flags
  <2> QED
    BY <2>3, <2>4, <2>5
<1>6. CanDoubleHeight(d) => d.row + 1 \in Rows
  BY SMT, <1>1, Neighbours, DecoderAssumption DEF CanDoubleHeight, Rows
<1> HIDE DEF e
<1>7. LowerHalf(e) /\ HeldBlank(e)
  BY <1>1, <1>4, <1>5, <1>6 DEF LowerHalf, HeldBlank
<1>8. Sound(e)
  BY <1>2, <1>3, <1>7, SoundFrom
<1> QED
  BY <1>8 DEF e

\* vt_new_frame() establishes the invariant in any well typed state; it is the
\* only operation that invalidates dheight_low_row, and it ends double height.
LEMMA NewFrameSound == ASSUME NEW d \in DecoderStates PROVE Sound(NewFrame(d))
<1> DEFINE e == ResetFlags([d EXCEPT !.row = 0, !.col = 0, !.dheight_low_row = -1,
                                     !.frame_buffer = << >>,
                                     !.screen_revealed_state = FALSE])
           new == [p \in Screen |-> BlankCell]
           n == NewFrame(d)
<1>1. n \in DecoderStates
  BY NewFrameType
<1>2. n = PutChars(e, new)
  BY DEF NewFrame
<1>3. e.flags = DefaultFlags(Space, d.flags.is_cursor_on)
  BY SMT DEF ResetFlags, DecoderStates
<1>4. e.frame_buffer = << >>
  BY SMT DEF ResetFlags, DecoderStates
<1>5. e \in DecoderStates
  BY NewFrameStart
<1> HIDE DEF e, new, n
<1>6. n.flags.is_double_height = FALSE /\ n.flags.held_mosaic = Space
  <2>1. n.flags = e.flags
    BY <1>2, <1>5, PutCharsFrame
  <2> QED
    BY <2>1, <1>3 DEF DefaultFlags
<1>7. n.frame_buffer = << >>
  BY <1>2, <1>4, <1>5, PutCharsFrame
<1>8. WindowOf(n)
  <2>1. /\ n.cells = [p \in Screen |-> IF p \in DOMAIN new THEN new[p] ELSE e.cells[p]]
        /\ n.window = [p \in Screen |-> IF p \in DOMAIN new THEN Display(e, new[p])
                                        ELSE e.window[p]]
        /\ n.screen_flash_state = e.screen_flash_state
        /\ n.screen_revealed_state = e.screen_revealed_state
    BY <1>2, <1>5, PutCharsFrame
  <2>2. \A cell : Display(n, cell) = Display(e, cell)
    BY <2>1 DEF Display
  <2>3. DOMAIN new = Screen
    BY DEF new
  <2> QED
    BY <2>1, <2>2, <2>3 DEF WindowOf
<1>9. Sound(n)
  BY <1>1, <1>6, <1>7, <1>8, DecoderAssumption DEF Sound, LowerHalf, HeldBlank, Within
<1> QED
  BY <1>9 DEF n

-----------------------------------------------------------------------------
(* Drawing.                                                                *)

\* Drawing a character, both halves of it at double height, preserves the
\* invariant: LowerHalf puts the lower half on the screen.
LEMMA DrawSound ==
    ASSUME NEW d, Sound(d), NEW ch \in Chars
    PROVE  Sound(Draw(d, ch)) /\ Draw(d, ch).flags = d.flags
<1> DEFINE dh == d.flags.is_double_height
           here == <<d.row, d.col>>
           Cell(c) == [character |-> c, attr |-> AttrOf(d)]
           P == {here} \cup (IF dh THEN {<<d.dheight_low_row, d.col>>} ELSE {})
           new == [p \in P |-> IF p # here THEN Cell(ch.lower)
                               ELSE Cell(IF dh THEN ch.upper ELSE ch.single)]
<1>1. d \in DecoderStates /\ LowerHalf(d)
  BY DEF Sound
<1>2. P \subseteq Screen
  BY <1>1, Neighbours DEF LowerHalf, Screen
<1>3. /\ Cell(ch.lower) \in Cells
      /\ Cell(IF dh THEN ch.upper ELSE ch.single) \in Cells
  <2>1. AttrOf(d) \in Attrs
    BY <1>1, AttrType
  <2>2. /\ ch.lower \in CodePoints
        /\ (IF dh THEN ch.upper ELSE ch.single) \in CodePoints
    BY SMT DEF Chars
  <2> QED
    BY SMT, <2>1, <2>2 DEF Cells
<1>4. Draw(d, ch) = PutChars(d, new)
  BY DEF Draw
<1> HIDE DEF P, here, Cell, dh
<1>5. new \in [P -> Cells]
  BY <1>3
<1> HIDE DEF new
<1>6. Sound(PutChars(d, new))
  BY <1>2, <1>5, PutCharsSound
<1>7. PutChars(d, new).flags = d.flags
  BY <1>1, PutCharsFrame
<1> QED
  BY <1>4, <1>6, <1>7

\* Drawing the space or held mosaic of an attribute preserves the invariant.
LEMMA DrawAttributeSound == ASSUME NEW d, Sound(d) PROVE Sound(DrawAttribute(d))
<1> DEFINE ch == IF d.flags.is_mosaic_held THEN d.flags.held_mosaic ELSE Space
<1>1. d.flags.held_mosaic \in Chars
  BY SMT DEF Sound, DecoderStates, Flags
<1>2. ch \in Chars
  BY <1>1, SpaceType
<1> QED
  BY <1>2, DrawSound DEF DrawAttribute

\* Drawing text preserves the invariant: only mosaics are held.
LEMMA DrawTextSound ==
    ASSUME NEW d, Sound(d), NEW code \in 0 .. 127
    PROVE  Sound(DrawText(d, code))
<1> DEFINE ch == GetCharCode(code % 16, code \div 16,
                             d.flags.is_alpha, d.flags.is_contiguous)
           u == Draw(d, ch)
           held == IF d.flags.is_alpha THEN d.flags.held_mosaic ELSE ch
           e == [u EXCEPT !.flags.held_mosaic = held]
<1>1. /\ d.flags.is_alpha \in BOOLEAN /\ d.flags.is_contiguous \in BOOLEAN
      /\ d.flags.held_mosaic \in Chars
  BY SMT DEF Sound, DecoderStates, Flags
<1>2. code % 16 \in RowCodes /\ code \div 16 \in ColCodes
  BY SMT DEF RowCodes, ColCodes
<1>3. ch \in Chars
  BY <1>1, <1>2, CharType, Zenon
<1>4. DrawText(d, code) = e
  BY DEF DrawText
<1> HIDE DEF ch
<1>5. held \in Chars /\ (d.flags.is_alpha => held = d.flags.held_mosaic)
  BY <1>1, <1>3
<1>6. Sound(u) /\ u.flags = d.flags
  BY <1>3, DrawSound
<1> HIDE DEF u, held
<1>7. u \in DecoderStates /\ LowerHalf(u) /\ HeldBlank(u)
  BY <1>6 DEF Sound
<1>8. e \in DecoderStates
  BY <1>5, <1>7, HeldMosaicType
<1>9. /\ SameScreen(u, e) /\ e.frame_buffer = u.frame_buffer
      /\ e.dheight_low_row = u.dheight_low_row
  BY <1>7, FlagsFrame
<1>10. /\ e.flags.is_double_height = u.flags.is_double_height
       /\ e.flags.is_alpha = u.flags.is_alpha
       /\ e.flags.held_mosaic = held
  BY SMT, <1>7 DEF DecoderStates, Flags
<1> HIDE DEF e
<1>11. LowerHalf(e) /\ HeldBlank(e)
  BY <1>5, <1>6, <1>7, <1>9, <1>10 DEF LowerHalf, HeldBlank
<1> QED
  BY <1>4, <1>6, <1>8, <1>9, <1>11, SoundFrom

\* A display character preserves the invariant.
LEMMA DisplayCodeSound ==
    ASSUME NEW d, Sound(d), NEW code \in 0 .. 127
    PROVE  Sound(DisplayCode(d, code))
<1>1. Sound(SetAt(d, code))
  BY SetAtSound
<1>2. \A e : Sound(e) => Sound(DrawCode(e, code))
  BY DrawAttributeSound, DrawTextSound DEF DrawCode
<1>3. \A e : Sound(e) => Sound(Advance(SetAfter(e, code)))
  BY SetAfterSound, AdvanceSound
<1> QED
  BY <1>1, <1>2, <1>3 DEF DisplayCode

-----------------------------------------------------------------------------
(* One byte, one key, one tick.                                            *)

\* The control codes that move the cursor preserve the invariant.
LEMMA CursorOpsSound ==
    ASSUME NEW d, Sound(d)
    PROVE  /\ Sound(Backspace(d)) /\ Sound(HTab(d)) /\ Sound(LineFeed(d))
           /\ Sound(VTab(d)) /\ Sound(CarriageReturn(d)) /\ Sound(BackToOrigin(d))
<1>1. d \in DecoderStates
  BY DEF Sound
<1>2. ASSUME NEW r \in Rows, NEW c \in Cols, NEW e, Sound(e)
      PROVE  /\ Sound([e EXCEPT !.col = c, !.row = r])
             /\ Sound([e EXCEPT !.row = r]) /\ Sound([e EXCEPT !.col = c])
  <2>1. Sound([e EXCEPT !.row = r]) /\ Sound([e EXCEPT !.col = c])
    BY <1>2, CursorSound
  <2>2. Sound([[e EXCEPT !.col = c] EXCEPT !.row = r])
    BY <2>1, CursorSound
  <2> QED
    BY <2>1, <2>2
<1>3. Sound(Backspace(d))
  BY <1>1, <1>2, Neighbours, Edges DEF Backspace
<1>4. Sound(HTab(d))
  BY <1>1, <1>2, Neighbours, Edges DEF HTab
<1>5. Sound(VTab(d))
  BY <1>1, <1>2, Neighbours DEF VTab
<1>6. Sound(LineFeed(d))
  <2>1. Sound([d EXCEPT !.row = RowBelow(d)])
    BY <1>1, <1>2, Neighbours
  <2> QED
    BY <2>1, ResetFlagsSound DEF LineFeed, Sound
<1>7. Sound(CarriageReturn(d)) /\ Sound(BackToOrigin(d))
  BY <1>2, Edges, FillEndSound DEF CarriageReturn, BackToOrigin
<1> QED
  BY <1>3, <1>4, <1>5, <1>6, <1>7

\* The flags that no part of the invariant mentions.
LEMMA QuietFlagSound ==
    ASSUME NEW d, Sound(d), NEW b \in BOOLEAN
    PROVE  /\ Sound([d EXCEPT !.flags.is_escaped = b])
           /\ Sound([d EXCEPT !.flags.is_cursor_on = b])
<1>1. d \in DecoderStates /\ LowerHalf(d) /\ HeldBlank(d)
  BY DEF Sound
<1>2. Sound([d EXCEPT !.flags.is_escaped = b])
  <2> DEFINE e == [d EXCEPT !.flags.is_escaped = b]
  <2>1. e \in DecoderStates
    BY <1>1, BooleanFlagType
  <2>2. /\ SameScreen(d, e) /\ e.frame_buffer = d.frame_buffer
        /\ e.dheight_low_row = d.dheight_low_row
    BY <1>1, FlagsFrame
  <2>3. /\ e.flags.is_double_height = d.flags.is_double_height
        /\ e.flags.is_alpha = d.flags.is_alpha
        /\ e.flags.held_mosaic = d.flags.held_mosaic
    BY SMT, <1>1 DEF DecoderStates, Flags
  <2> HIDE DEF e
  <2>4. LowerHalf(e) /\ HeldBlank(e)
    BY <1>1, <2>2, <2>3 DEF LowerHalf, HeldBlank
  <2>5. Sound(e)
    BY <2>1, <2>2, <2>4, SoundFrom
  <2> QED
    BY <2>5 DEF e
<1>3. Sound([d EXCEPT !.flags.is_cursor_on = b])
  <2> DEFINE e == [d EXCEPT !.flags.is_cursor_on = b]
  <2>1. e \in DecoderStates
    BY <1>1, BooleanFlagType
  <2>2. /\ SameScreen(d, e) /\ e.frame_buffer = d.frame_buffer
        /\ e.dheight_low_row = d.dheight_low_row
    BY <1>1, FlagsFrame
  <2>3. /\ e.flags.is_double_height = d.flags.is_double_height
        /\ e.flags.is_alpha = d.flags.is_alpha
        /\ e.flags.held_mosaic = d.flags.held_mosaic
    BY SMT, <1>1 DEF DecoderStates, Flags
  <2> HIDE DEF e
  <2>4. LowerHalf(e) /\ HeldBlank(e)
    BY <1>1, <2>2, <2>3 DEF LowerHalf, HeldBlank
  <2>5. Sound(e)
    BY <2>1, <2>2, <2>4, SoundFrom
  <2> QED
    BY <2>5 DEF e
<1> QED
  BY <1>2, <1>3

\* One byte preserves the invariant.
LEMMA DecodeSound ==
    ASSUME NEW d, Sound(d), NEW b \in Bytes
    PROVE  Sound(Decode(d, b))
<1>1. ASSUME NEW e, Sound(e)
      PROVE  Sound(Display7Bit(e, b))
  <2> DEFINE u == [e EXCEPT !.flags.is_escaped = FALSE]
             v == [u EXCEPT !.flags.is_escaped = TRUE]
  <2>1. Sound(u)
    BY <1>1, QuietFlagSound
  <2>2. CodeOf(e, b) \in 0 .. 127
    BY <1>1, CodeType DEF Sound
  <2>3. Display7Bit(e, b) = IF CodeOf(e, b) = ESCAPE THEN v
                            ELSE DisplayCode(u, CodeOf(e, b))
    BY DEF Display7Bit
  <2> HIDE DEF u
  <2>4. Sound(v)
    BY <2>1, QuietFlagSound
  <2> HIDE DEF v
  <2> QED
    BY <2>1, <2>2, <2>3, <2>4, DisplayCodeSound
<1>2. ASSUME NEW e, Sound(e)
      PROVE  Sound(FormFeed(e)) /\ Sound(SetCursor(e, TRUE)) /\ Sound(SetCursor(e, FALSE))
  BY <1>2, NewFrameSound, QuietFlagSound DEF FormFeed, SetCursor, Sound
<1>3. ASSUME NEW e, Sound(e)
      PROVE  Sound(DecodeByte(e, b))
  BY <1>1, <1>2, <1>3, CursorOpsSound, Zenon DEF DecodeByte
<1> QED
  BY <1>3, BufferSound DEF Decode

\* A toggle changes what hidden cells show; the cells that it redraws are all
\* the cells for which the change matters.
LEMMA ToggledWindow ==
    ASSUME NEW d, Sound(d), NEW e \in DecoderStates, NEW P \in SUBSET Screen,
           e.cells = d.cells, e.window = d.window, e.flags = d.flags,
           e.dheight_low_row = d.dheight_low_row, e.frame_buffer = d.frame_buffer,
           \A p \in Screen \ P : Display(e, d.cells[p]) = Display(d, d.cells[p])
    PROVE  Sound(Redraw(e, P))
<1> DEFINE new == [p \in P |-> e.cells[p]]
           u == PutChars(e, new)
<1>1. d \in DecoderStates /\ LowerHalf(d) /\ HeldBlank(d) /\ WindowOf(d) /\ Within(d)
  BY DEF Sound
<1>2. new \in [P -> Cells]
  BY SMT DEF DecoderStates
<1>3. u \in DecoderStates
  BY <1>2, PutCharsType
<1>4. DOMAIN new = P /\ \A p \in P : new[p] = d.cells[p]
  OBVIOUS
<1>5. Redraw(e, P) = u
  BY DEF Redraw
<1> HIDE DEF new
<1>6. /\ u.flags = e.flags /\ u.dheight_low_row = e.dheight_low_row
      /\ u.frame_buffer = e.frame_buffer
      /\ u.screen_flash_state = e.screen_flash_state
      /\ u.screen_revealed_state = e.screen_revealed_state
      /\ u.cells = [p \in Screen |-> IF p \in DOMAIN new THEN new[p] ELSE e.cells[p]]
      /\ u.window = [p \in Screen |-> IF p \in DOMAIN new THEN Display(e, new[p])
                                      ELSE e.window[p]]
  BY PutCharsFrame
<1> HIDE DEF u
<1>7. LowerHalf(u) /\ HeldBlank(u) /\ Within(u)
  BY <1>1, <1>6 DEF LowerHalf, HeldBlank, Within
<1>8. WindowOf(u)
  <2>1. \A cell : Display(u, cell) = Display(e, cell)
    BY <1>6 DEF Display
  <2> SUFFICES ASSUME NEW p \in Screen
               PROVE  u.window[p] = Display(u, u.cells[p])
    BY DEF WindowOf
  <2>2. CASE p \in P
    BY <1>4, <1>6, <2>1, <2>2
  <2>3. CASE p \notin P
    <3>1. u.window[p] = d.window[p] /\ u.cells[p] = d.cells[p]
      BY <1>4, <1>6, <2>3
    <3> QED
      BY <1>1, <2>1, <2>3, <3>1 DEF WindowOf
  <2> QED
    BY <2>2, <2>3
<1> QED
  BY <1>3, <1>5, <1>7, <1>8 DEF Sound

\* vt_decoder_toggle_flash() preserves the invariant.
LEMMA FlashToggledSound == ASSUME NEW d, Sound(d) PROVE Sound(FlashToggled(d))
<1> DEFINE on == ~d.screen_flash_state
           e == [d EXCEPT !.screen_flash_state = on]
           P == {p \in Screen : d.cells[p].attr.has_flash}
<1>1. d \in DecoderStates
  BY DEF Sound
<1>2. e \in DecoderStates
  BY <1>1, ScreenStateType
<1>3. /\ e.cells = d.cells /\ e.window = d.window /\ e.flags = d.flags
      /\ e.dheight_low_row = d.dheight_low_row /\ e.frame_buffer = d.frame_buffer
      /\ e.screen_revealed_state = d.screen_revealed_state
  BY SMT, <1>1 DEF DecoderStates
<1>4. FlashToggled(d) = Redraw(e, P)
  BY DEF FlashToggled
<1> HIDE DEF e
<1>5. \A p \in Screen \ P : Display(e, d.cells[p]) = Display(d, d.cells[p])
  BY <1>3 DEF Display
<1> QED
  BY <1>2, <1>3, <1>4, <1>5, ToggledWindow

\* vt_decoder_toggle_reveal() preserves the invariant.
LEMMA RevealToggledSound == ASSUME NEW d, Sound(d) PROVE Sound(RevealToggled(d))
<1> DEFINE on == ~d.screen_revealed_state
           e == [d EXCEPT !.screen_revealed_state = on]
           P == {p \in Screen : d.cells[p].attr.has_concealed}
<1>1. d \in DecoderStates
  BY DEF Sound
<1>2. e \in DecoderStates
  BY <1>1, ScreenStateType
<1>3. /\ e.cells = d.cells /\ e.window = d.window /\ e.flags = d.flags
      /\ e.dheight_low_row = d.dheight_low_row /\ e.frame_buffer = d.frame_buffer
      /\ e.screen_flash_state = d.screen_flash_state
  BY SMT, <1>1 DEF DecoderStates
<1>4. RevealToggled(d) = Redraw(e, P)
  BY DEF RevealToggled
<1> HIDE DEF e
<1>5. \A p \in Screen \ P : Display(e, d.cells[p]) = Display(d, d.cells[p])
  BY <1>3 DEF Display
<1> QED
  BY <1>2, <1>3, <1>4, <1>5, ToggledWindow

\* vt_decoder_init() establishes the invariant.
LEMMA InitSound == ASSUME NEW bold \in BOOLEAN PROVE Sound(InitDecoder(bold))
<1> DEFINE d == InitDecoder(bold)
           f == DefaultFlags(ZeroChar, FALSE)
           cells == [p \in Screen |-> BlankCell]
           window == [p \in Screen |-> [character |-> SPACE, bold |-> FALSE, color |-> 0]]
           buffer == << >>
           low == -1
<1>1. f \in Flags
  <2>1. ZeroChar \in Chars
    BY SMT DEF ZeroChar, Chars, CodePoints
  <2> QED
    BY <2>1, DefaultFlagsType
<1>2. cells \in [Screen -> Cells] /\ window \in [Screen -> Shown]
  BY SMT DEF BlankCell, Cells, Shown, ZeroAttr, Attrs, SPACE, CodePoints
<1>3. buffer \in Seq(Bytes) /\ Len(buffer) <= FRAME_BUFFER_MAX
  BY DecoderAssumption
<1>4. low \in -1 .. MAX_ROWS - 1
  BY SMT, DecoderAssumption
<1>5. \A p \in Screen : window[p] = Display(d, cells[p])
  BY DEF Display, BlankCell, ZeroAttr
<1>6. f.is_double_height = FALSE /\ f.held_mosaic = ZeroChar
  BY DEF DefaultFlags
<1>7. d = [row |-> 0, col |-> 0, dheight_low_row |-> low, frame_buffer |-> buffer,
           flags |-> f, bold_mode |-> bold, screen_flash_state |-> FALSE,
           screen_revealed_state |-> FALSE, cells |-> cells, window |-> window]
  BY DEF InitDecoder
<1> HIDE DEF d, f, cells, window, buffer, low
<1>8. d \in DecoderStates
  BY SMT, <1>1, <1>2, <1>3, <1>4, <1>7, Edges DEF DecoderStates
<1>9. d.flags = f /\ d.cells = cells /\ d.window = window /\ d.frame_buffer = buffer
  BY SMT, <1>7
<1>10. Sound(d)
  BY <1>3, <1>5, <1>6, <1>8, <1>9 DEF Sound, LowerHalf, HeldBlank, WindowOf, Within
<1> QED
  BY <1>10 DEF d

\* Every step, from the host, the timer or the keyboard, preserves it.
LEMMA StepSound == ASSUME Sound(decoder), [Next]_decoder PROVE Sound(decoder')
<1>1. ASSUME NEW b \in Bytes, Receive(b) PROVE Sound(decoder')
  BY <1>1, DecodeSound DEF Receive
<1>2. CASE ToggleFlash
  BY <1>2, FlashToggledSound DEF ToggleFlash
<1>3. CASE ToggleReveal
  BY <1>3, RevealToggledSound DEF ToggleReveal
<1>4. CASE ToggleBold
  <2> DEFINE d == decoder
             on == ~d.bold_mode
             e == [d EXCEPT !.bold_mode = on]
  <2>1. d \in DecoderStates /\ LowerHalf(d) /\ HeldBlank(d)
    BY DEF Sound
  <2>2. e \in DecoderStates
    BY <2>1, ScreenStateType
  <2>3. /\ SameScreen(d, e) /\ e.flags = d.flags
        /\ e.dheight_low_row = d.dheight_low_row /\ e.frame_buffer = d.frame_buffer
    BY SMT, <2>1 DEF SameScreen, DecoderStates
  <2>4. decoder' = e
    BY <1>4 DEF ToggleBold
  <2> HIDE DEF e
  <2>5. LowerHalf(e) /\ HeldBlank(e)
    BY <2>1, <2>3 DEF LowerHalf, HeldBlank
  <2> QED
    BY <2>2, <2>3, <2>4, <2>5, SoundFrom
<1>5. CASE UNCHANGED decoder
  BY <1>5
<1> QED
  BY <1>1, <1>2, <1>3, <1>4, <1>5 DEF Next

-----------------------------------------------------------------------------
(* The theorems.                                                           *)

\* The inductive invariant.  TypeOK is not inductive alone: the lower half of
\* a double height character stays on the screen only by LowerHalf.
IInv == Sound(decoder)

\* IInv holds in every reachable state.
THEOREM Invariance == Spec => []IInv
<1>1. Init => IInv
  BY InitSound DEF Init, IInv
<1>2. IInv /\ [Next]_decoder => IInv'
  BY StepSound DEF IInv
<1> QED
  BY <1>1, <1>2, PTL DEF Spec

\* The cursor, the low row, every colour and every cell are in range, and the
\* frame buffer within its array, after any stream of bytes, keys and ticks.
THEOREM TypeCorrect == Spec => []TypeOK
<1>1. IInv => TypeOK
  BY DEF IInv, Sound, Within, TypeOK
<1> QED
  BY <1>1, Invariance, PTL

\* While double height is on, its lower half has a row of the screen.
THEOREM LowerHalfIsOnScreen == Spec => []LowerHalfOnScreen
<1>1. IInv => LowerHalfOnScreen
  BY DEF IInv, Sound, LowerHalf, LowerHalfOnScreen
<1> QED
  BY <1>1, Invariance, PTL

\* No mosaic is held in alphanumerics mode.
THEOREM HeldMosaicIsInMosaics == Spec => []HeldMosaicOnlyInMosaics
<1>1. IInv => HeldMosaicOnlyInMosaics
  BY DEF IInv, Sound, HeldBlank, HeldMosaicOnlyInMosaics
<1> QED
  BY <1>1, Invariance, PTL

\* The window always shows the cells.
THEOREM WindowIsFaithful == Spec => []WindowShowsCells
<1>1. IInv => WindowShowsCells
  BY DEF IInv, Sound, WindowOf, WindowShowsCells
<1> QED
  BY <1>1, Invariance, PTL

\* Where the pairs are initialised no two colours share a number but white on
\* black and black on black, and the pair of any other colours has them.
LEMMA PairShowsColors ==
    ASSUME NEW fg \in Foregrounds, NEW bg \in Colors, PairsInitialized
    PROVE  /\ ColorPairNumber(fg, bg) \in DOMAIN ColorsOfPair
           /\ ColorsOfPair[ColorPairNumber(fg, bg)] = <<fg, bg>>
<1> DEFINE NumberOf(c) == ColorPairNumber(c[1], c[2])
           InOrder(c, e) == 8 * c[1] + c[2] <= 8 * e[1] + e[2]
           Last(n, c) == /\ NumberOf(c) = n
                         /\ \A e \in Colors \X Colors : NumberOf(e) = n => InOrder(e, c)
           n == ColorPairNumber(fg, bg)
<1>1. fg \in 1 .. 7 /\ bg \in 0 .. 7 /\ Colors = 0 .. 7
  BY SMT DEF Foregrounds, Colors, BLACK, WHITE
<1>2. <<fg, bg>> \in Colors \X Colors /\ NumberOf(<<fg, bg>>) = n
  BY SMT, <1>1
<1>3. n \in DOMAIN ColorsOfPair
  BY <1>2 DEF ColorsOfPair
<1>4. ColorsOfPair[n] = IF n = 0 THEN <<WHITE, BLACK>>
                        ELSE CHOOSE c \in Colors \X Colors : Last(n, c)
  BY <1>3 DEF ColorsOfPair
<1>5. CASE n = 0
  <2>1. fg = WHITE /\ bg = BLACK
    BY SMT, <1>1, <1>5 DEF ColorPairNumber, WHITE, BLACK
  <2> QED
    BY <1>3, <1>4, <1>5, <2>1
<1>6. CASE n # 0
  <2>1. n = 8 * fg + bg
    BY SMT, <1>1, <1>6 DEF ColorPairNumber
  <2>2. \A c \in Colors \X Colors : NumberOf(c) = n => c = <<fg, bg>>
    <3> SUFFICES ASSUME NEW x \in 0 .. 7, NEW y \in 0 .. 7, ColorPairNumber(x, y) = n
                 PROVE  x = fg /\ y = bg
      BY <1>1
    <3>1. 8 * x + y = 8 * fg + bg
      BY SMT, <1>6, <2>1 DEF ColorPairNumber
    <3> QED
      BY SMT, <1>1, <3>1
  <2>3. InOrder(<<fg, bg>>, <<fg, bg>>)
    BY SMT, <1>1
  <2> HIDE DEF NumberOf, InOrder, n
  <2>4. Last(n, <<fg, bg>>)
    BY <1>2, <2>2, <2>3
  <2>5. (CHOOSE c \in Colors \X Colors : Last(n, c)) = <<fg, bg>>
    BY <1>2, <2>2, <2>4
  <2> QED
    BY <1>3, <1>4, <1>6, <2>5 DEF n
<1> QED
  BY <1>5, <1>6

\* Where they are not, only pair 0 has colours, and only white on black, and
\* black on black, which no attribute selects, ask for it.
LEMMA OnlyPairZero ==
    ASSUME NEW fg \in Foregrounds, NEW bg \in Colors, ~PairsInitialized
    PROVE  IF <<fg, bg>> = <<WHITE, BLACK>>
           THEN /\ ColorPairNumber(fg, bg) \in DOMAIN ColorsOfPair
                /\ ColorsOfPair[ColorPairNumber(fg, bg)] = <<fg, bg>>
           ELSE ColorPairNumber(fg, bg) \notin DOMAIN ColorsOfPair
<1>1. DOMAIN ColorsOfPair = {0} /\ ColorsOfPair[0] = <<WHITE, BLACK>>
  BY DEF ColorsOfPair
<1>2. fg \in 1 .. 7 /\ bg \in 0 .. 7
  BY SMT DEF Foregrounds, Colors, BLACK, WHITE
<1>3. ColorPairNumber(fg, bg) = 0 <=> fg = WHITE /\ bg = BLACK
  BY SMT, <1>2 DEF ColorPairNumber, WHITE, BLACK
<1> QED
  BY <1>1, <1>3

\* Of a terminal with 64 pairs: the pair that a cell is given always has the
\* colours selected: no attribute selects black, so black on black, whose number
\* is that of white on black, is never asked for.  Of one with fewer: it has them
\* for white on black alone.
THEOREM ColorsAreCorrect == Spec => []ColorsAreShown
<1>1. TypeOK => ColorsAreShown
  <2> SUFFICES ASSUME TypeOK, has_colors
               PROVE  ColorsAreShown
    BY DEF ColorsAreShown
  <2> DEFINE fg   == DrawingColor(decoder)
             bg   == decoder.flags.bg_color
             pair == AttrOf(decoder).color_pair
  <2>1. decoder.flags \in Flags
    BY SMT DEF TypeOK, DecoderStates
  <2>2. fg \in Foregrounds /\ bg \in Colors
    BY SMT, <2>1 DEF Flags, DrawingColor
  <2>3. pair = ColorPairNumber(fg, bg)
    BY DEF AttrOf, DrawingColor
  <2>4. PairsInitialized <=> COLOR_PAIRS >= 64
    BY DEF PairsInitialized
  <2>5. COLOR_PAIRS < 64 <=> ~(COLOR_PAIRS >= 64)
    BY SMT, DecoderAssumption DEF DecoderAssumption
  <2>6. CASE COLOR_PAIRS >= 64
    <3>1. pair \in DOMAIN ColorsOfPair /\ ColorsOfPair[pair] = <<fg, bg>>
      BY <2>2, <2>3, <2>4, <2>6, PairShowsColors
    <3> QED
      BY <2>5, <2>6, <3>1 DEF ColorsAreShown
  <2>7. CASE ~(COLOR_PAIRS >= 64)
    <3>1. IF <<fg, bg>> = <<WHITE, BLACK>>
          THEN pair \in DOMAIN ColorsOfPair /\ ColorsOfPair[pair] = <<fg, bg>>
          ELSE pair \notin DOMAIN ColorsOfPair
      BY <2>2, <2>3, <2>4, <2>7, OnlyPairZero
    <3> QED
      BY <2>5, <2>7, <3>1 DEF ColorsAreShown
  <2> QED
    BY <2>6, <2>7
<1> QED
  BY <1>1, TypeCorrect, PTL
=============================================================================
