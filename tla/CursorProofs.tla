---------------------------- MODULE CursorProofs ----------------------------
(***************************************************************************)
(* What a byte does to the place of the cursor and to the characters, for  *)
(* every size of screen.                                                   *)
(*                                                                         *)
(* Decoder implements ScreenCursor: each byte is shown to move row and     *)
(* column in one of the ways of Moves; Moves is then a step on the ring,   *)
(* by arithmetic on multiples of the width.                                *)
(*                                                                         *)
(* The ignored row of double height text takes lower halves only: whatever *)
(* a byte does, apart from a form feed, it leaves the characters of the    *)
(* screen as they are or draws one, and a character is drawn in two places *)
(* at most.                                                                *)
(***************************************************************************)
EXTENDS DecoderProofs

\* The cursor has not moved.
SamePlace(d, e) == e.row = d.row /\ e.col = d.col

\* Multiples of the width of a row.
LEMMA RowArithmetic ==
    ASSUME NEW H \in Nat \ {0}, NEW W \in Nat \ {0}, NEW r \in 0 .. H - 1
    PROVE  /\ r * W \in Nat /\ H * W \in Nat
           /\ r * W + W <= H * W
           /\ r + 1 < H => r * W + 2 * W <= H * W
           /\ r + 1 >= H => r * W + W = H * W
           /\ (r + 1) * W = r * W + W
           /\ (r - 1) * W = r * W - W
           /\ (H - 1) * W = H * W - W
           /\ 0 * W = 0
           /\ r > 0 => r * W >= W
<1>1. r * W \in Nat /\ H * W \in Nat
  BY SMT
<1>2. (r + 1) * W = r * W + W /\ (r - 1) * W = r * W - W /\ (H - 1) * W = H * W - W
  BY SMT
<1>3. r * W <= (H - 1) * W
  BY SMT
<1>4. r + 1 < H => (r + 1) * W <= (H - 1) * W
  BY SMT
<1>5. r + 1 >= H => r * W = (H - 1) * W
  BY SMT
<1>6. r > 0 => r * W >= W
  BY SMT
<1> QED
  BY <1>1, <1>2, <1>3, <1>4, <1>5, <1>6

\* New flags leave the cursor where it is.
LEMMA FlagsPlace ==
    ASSUME NEW d \in DecoderStates, NEW f
    PROVE  SamePlace(d, [d EXCEPT !.flags = f])
BY SMT DEF SamePlace, DecoderStates

\* The switches of the state leave the cursor where it is.
LEMMA SwitchPlace ==
    ASSUME NEW d \in DecoderStates, NEW b
    PROVE  /\ SamePlace(d, [d EXCEPT !.screen_flash_state = b])
           /\ SamePlace(d, [d EXCEPT !.screen_revealed_state = b])
           /\ SamePlace(d, [d EXCEPT !.bold_mode = b])
BY SMT DEF SamePlace, DecoderStates

\* The attributes that take effect at once leave the cursor where it is.
LEMMA SetAtPlace ==
    ASSUME NEW d \in DecoderStates, NEW code
    PROVE  SamePlace(d, SetAt(d, code))
BY SMT DEF SetAt, SamePlace, DecoderStates

\* So do the attributes that take effect at the next cell.
LEMMA SetAfterPlace ==
    ASSUME NEW d \in DecoderStates, NEW code
    PROVE  SamePlace(d, SetAfter(d, code))
<1>1. CASE code \in AlphaColors
  BY SMT, <1>1 DEF SetAfter, Select, SamePlace, DecoderStates, AlphaColors, MosaicColors
<1>2. CASE code \in MosaicColors
  BY SMT, <1>2 DEF SetAfter, Select, SamePlace, DecoderStates, AlphaColors, MosaicColors
<1>3. CASE code = 8
  BY SMT, <1>3 DEF SetAfter, Select, SamePlace, DecoderStates, AlphaColors, MosaicColors
<1>4. CASE code = 10
  BY SMT, <1>4 DEF SetAfter, Select, SamePlace, DecoderStates, AlphaColors, MosaicColors
<1>5. CASE code = 11
  BY SMT, <1>5 DEF SetAfter, Select, SamePlace, DecoderStates, AlphaColors, MosaicColors
<1>6. CASE code = 13
  BY SMT, <1>6 DEF SetAfter, Select, SamePlace, DecoderStates, AlphaColors, MosaicColors
<1>7. CASE code = 31
  BY SMT, <1>7 DEF SetAfter, Select, SamePlace, DecoderStates, AlphaColors, MosaicColors
<1>8. CASE /\ code \notin AlphaColors /\ code \notin MosaicColors
           /\ code # 8 /\ code # 10 /\ code # 11 /\ code # 13 /\ code # 31
  BY SMT, <1>8 DEF SetAfter, SamePlace
<1> QED
  BY <1>1, <1>2, <1>3, <1>4, <1>5, <1>6, <1>7, <1>8, Zenon

\* So does drawing a character, on an ignored row or not.
LEMMA DrawCodePlace ==
    ASSUME NEW d, Sound(d), NEW code \in 0 .. 127
    PROVE  SamePlace(d, DrawCode(d, code))
<1>1. \A ch : SamePlace(d, Draw(d, ch))
  <2>1. d \in DecoderStates
    BY DEF Sound
  <2>2. \A new : PutChars(d, new).row = d.row /\ PutChars(d, new).col = d.col
    BY <2>1, PutCharsFrame
  <2> QED
    BY <2>2, Zenon DEF Draw, SamePlace
<1>2. SamePlace(d, DrawAttribute(d))
  BY <1>1 DEF DrawAttribute
<1>3. SamePlace(d, DrawText(d, code))
  <2> DEFINE ch == GetCharCode(code % 16, code \div 16,
                               d.flags.is_alpha, d.flags.is_contiguous)
             u == Draw(d, ch)
             held == IF d.flags.is_alpha THEN d.flags.held_mosaic ELSE ch
  <2>1. code % 16 \in RowCodes /\ code \div 16 \in ColCodes
    BY SMT DEF RowCodes, ColCodes
  <2>2. d.flags.is_alpha \in BOOLEAN /\ d.flags.is_contiguous \in BOOLEAN
    BY SMT DEF Sound, DecoderStates, Flags
  <2>3. ch \in Chars
    BY <2>1, <2>2, CharType, Zenon
  <2>4. DrawText(d, code) = [u EXCEPT !.flags.held_mosaic = held]
    BY DEF DrawText
  <2> HIDE DEF ch, held
  <2>5. u \in DecoderStates /\ SamePlace(d, u)
    BY <1>1, <2>3, DrawSound DEF Sound
  <2> HIDE DEF u
  <2>6. SamePlace(u, DrawText(d, code))
    BY <2>4, <2>5, FlagsPlace
  <2> QED
    BY <2>5, <2>6 DEF SamePlace
<1> QED
  BY <1>2, <1>3 DEF DrawCode, SamePlace

\* One place on, with the row and the column.
NextPlace(d, e) ==
    \/ d.col + 1 < MAX_COLS /\ e.col = d.col + 1 /\ e.row = d.row
    \/ d.col + 1 = MAX_COLS /\ e.col = 0 /\ e.row = RowBelow(d)

\* Every display character ends with the cursor one place on.
LEMMA AdvancePlace ==
    ASSUME NEW d \in DecoderStates
    PROVE  NextPlace(d, Advance(d))
<1>1. CASE d.col + 1 = MAX_COLS
  <2> DEFINE r == IF d.row + 1 < MAX_ROWS THEN d.row + 1 ELSE 0
             e == [d EXCEPT !.row = r, !.col = 0]
  <2>1. r = RowBelow(d)
    BY SMT, Neighbours, DecoderAssumption DEF RowBelow, Rows
  <2>2. e.row = r /\ e.col = 0 /\ e \in DecoderStates
    <3>1. r \in Rows
      BY <2>1, Neighbours
    <3> HIDE DEF r
    <3>2. e \in DecoderStates
      BY <3>1, CursorType, Edges
    <3>3. e.row = r /\ e.col = 0
      BY SMT DEF DecoderStates
    <3> QED
      BY <3>2, <3>3
  <2>3. Advance(d) = ResetFlags(e)
    BY <1>1 DEF Advance, NextRow
  <2> HIDE DEF e
  <2>4. SamePlace(e, Advance(d))
    BY <2>2, <2>3, FlagsPlace DEF ResetFlags
  <2> QED
    BY <1>1, <2>1, <2>2, <2>4 DEF NextPlace, SamePlace
<1>2. CASE d.col + 1 # MAX_COLS
  <2>1. d.col + 1 < MAX_COLS
    BY SMT, <1>2, Neighbours, DecoderAssumption DEF Cols
  <2>2. Advance(d).col = d.col + 1 /\ Advance(d).row = d.row
    BY SMT, <1>2 DEF Advance, DecoderStates
  <2> QED
    BY <2>1, <2>2 DEF NextPlace
<1> QED
  BY <1>1, <1>2

\* A display character, whatever its attributes do, moves one place on.
LEMMA DisplayCodePlace ==
    ASSUME NEW d, Sound(d), NEW code \in 0 .. 127
    PROVE  NextPlace(d, DisplayCode(d, code))
<1> DEFINE a == SetAt(d, code)
           b == DrawCode(a, code)
           c == SetAfter(b, code)
<1>1. Sound(a) /\ SamePlace(d, a)
  BY SetAtSound, SetAtPlace DEF Sound
<1> HIDE DEF a
<1>2. Sound(b) /\ SamePlace(a, b)
  BY <1>1, DrawCodePlace, DrawAttributeSound, DrawTextSound DEF DrawCode
<1> HIDE DEF b
<1>3. c \in DecoderStates /\ SamePlace(b, c)
  BY <1>2, SetAfterType, SetAfterPlace DEF Sound
<1> HIDE DEF c
<1>4. NextPlace(c, Advance(c))
  BY <1>3, AdvancePlace
<1>5. c.row = d.row /\ c.col = d.col
  BY <1>1, <1>2, <1>3 DEF SamePlace
<1>6. RowBelow(c) = RowBelow(d)
  BY <1>5 DEF RowBelow
<1>7. NextPlace(d, Advance(c))
  BY <1>4, <1>5, <1>6 DEF NextPlace
<1> QED
  BY <1>7 DEF DisplayCode, a, b, c

\* Every way in which a byte moves the cursor.
Moves(d, e) ==
    \/ SamePlace(d, e)
    \/ NextPlace(d, e)
    \/ d.col > 0 /\ e.col = d.col - 1 /\ e.row = d.row
    \/ d.col = 0 /\ e.col = MAX_COLS - 1 /\ e.row = RowAbove(d)
    \/ e.col = d.col /\ e.row = RowBelow(d)
    \/ e.col = d.col /\ e.row = RowAbove(d)
    \/ e.col = 0 /\ e.row = d.row
    \/ e.col = 0 /\ e.row = 0

\* vt_fill_end() leaves the cursor where it is.
LEMMA FillEndPlace ==
    ASSUME NEW d \in DecoderStates
    PROVE  SamePlace(d, FillEnd(d)) /\ FillEnd(d) \in DecoderStates
<1>1. CASE d.col = 0
  BY <1>1 DEF FillEnd, SamePlace
<1>2. CASE d.col # 0
  <2>1. PICK P \in SUBSET Screen : \E new \in [P -> Cells] : FillEnd(d) = PutChars(d, new)
    BY <1>2, FillEndPuts
  <2>2. PICK new \in [P -> Cells] : FillEnd(d) = PutChars(d, new)
    BY <2>1
  <2>3. SamePlace(d, PutChars(d, new))
    BY PutCharsFrame DEF SamePlace
  <2>4. PutChars(d, new) \in DecoderStates
    BY PutCharsType
  <2> QED
    BY <2>2, <2>3, <2>4
<1> QED
  BY <1>1, <1>2

\* The control codes move the cursor in one of the ways of Moves.
LEMMA CursorOpsMove ==
    ASSUME NEW d \in DecoderStates
    PROVE  /\ Moves(d, Backspace(d)) /\ Moves(d, HTab(d)) /\ Moves(d, LineFeed(d))
           /\ Moves(d, VTab(d)) /\ Moves(d, CarriageReturn(d))
           /\ Moves(d, BackToOrigin(d)) /\ Moves(d, FormFeed(d))
<1>1. Moves(d, Backspace(d))
  BY SMT, Neighbours DEF Backspace, Moves, DecoderStates, Cols
<1>2. Moves(d, HTab(d))
  BY SMT, Neighbours, DecoderAssumption DEF HTab, Moves, NextPlace, DecoderStates, Cols
<1>3. Moves(d, VTab(d))
  BY SMT DEF VTab, Moves, DecoderStates
<1>4. Moves(d, LineFeed(d))
  <2> DEFINE e == [d EXCEPT !.row = RowBelow(d)]
  <2>1. e \in DecoderStates
    BY Neighbours, RowType
  <2>2. e.row = RowBelow(d) /\ e.col = d.col
    BY SMT DEF DecoderStates
  <2>3. LineFeed(d) = ResetFlags(e)
    BY DEF LineFeed
  <2> HIDE DEF e
  <2>4. SamePlace(e, LineFeed(d))
    BY <2>1, <2>3, FlagsPlace DEF ResetFlags
  <2> QED
    BY <2>2, <2>4 DEF Moves, SamePlace
<1>5. Moves(d, CarriageReturn(d)) /\ Moves(d, BackToOrigin(d))
  <2> DEFINE e == FillEnd(d)
  <2>1. e \in DecoderStates /\ e.row = d.row
    BY FillEndPlace DEF SamePlace
  <2>2. CarriageReturn(d) = [e EXCEPT !.col = 0]
    BY DEF CarriageReturn
  <2>3. BackToOrigin(d) = [e EXCEPT !.col = 0, !.row = 0]
    BY DEF BackToOrigin
  <2> HIDE DEF e
  <2>4. [e EXCEPT !.col = 0].col = 0 /\ [e EXCEPT !.col = 0].row = e.row
    BY SMT, <2>1 DEF DecoderStates
  <2>5. [e EXCEPT !.col = 0, !.row = 0].col = 0 /\ [e EXCEPT !.col = 0, !.row = 0].row = 0
    BY SMT, <2>1 DEF DecoderStates
  <2> QED
    BY <2>1, <2>2, <2>3, <2>4, <2>5 DEF Moves
<1>6. Moves(d, FormFeed(d))
  <2> DEFINE e == ResetFlags([d EXCEPT !.row = 0, !.col = 0, !.dheight_low_row = -1,
                                       !.frame_buffer = << >>,
                                       !.screen_revealed_state = FALSE])
             new == [p \in Screen |-> BlankCell]
  <2>1. e \in DecoderStates
    BY NewFrameStart
  <2>2. e.row = 0 /\ e.col = 0
    BY SMT DEF ResetFlags, DecoderStates
  <2>3. FormFeed(d) = PutChars(e, new)
    BY DEF FormFeed, NewFrame
  <2> HIDE DEF e, new
  <2>4. PutChars(e, new).row = e.row /\ PutChars(e, new).col = e.col
    BY <2>1, PutCharsFrame
  <2> QED
    BY <2>2, <2>3, <2>4 DEF Moves
<1> QED
  BY <1>1, <1>2, <1>3, <1>4, <1>5, <1>6

\* Every byte moves the cursor in one of the ways of Moves, or not at all.
LEMMA DecodeMoves ==
    ASSUME NEW d, Sound(d), NEW b \in Bytes
    PROVE  Moves(d, Decode(d, b))
<1>1. ASSUME NEW e, Sound(e)
      PROVE  Moves(e, Display7Bit(e, b))
  <2> DEFINE u == [e EXCEPT !.flags.is_escaped = FALSE]
             v == [u EXCEPT !.flags.is_escaped = TRUE]
  <2>1. Sound(u) /\ SamePlace(e, u)
    BY <1>1, QuietFlagSound, FlagsPlace DEF Sound
  <2>2. CodeOf(e, b) \in 0 .. 127
    BY <1>1, CodeType DEF Sound
  <2>3. Display7Bit(e, b) = IF CodeOf(e, b) = ESCAPE THEN v
                            ELSE DisplayCode(u, CodeOf(e, b))
    BY DEF Display7Bit
  <2> HIDE DEF u
  <2>4. SamePlace(u, v)
    BY <2>1, FlagsPlace DEF Sound
  <2> HIDE DEF v
  <2>5. NextPlace(u, DisplayCode(u, CodeOf(e, b)))
    BY <2>1, <2>2, DisplayCodePlace
  <2>6. RowBelow(u) = RowBelow(e)
    BY <2>1 DEF SamePlace, RowBelow
  <2>7. NextPlace(e, DisplayCode(u, CodeOf(e, b)))
    BY <2>1, <2>5, <2>6 DEF NextPlace, SamePlace
  <2> QED
    BY <2>1, <2>3, <2>4, <2>7 DEF Moves, SamePlace
<1>2. ASSUME NEW e, Sound(e)
      PROVE  /\ Moves(e, e)
             /\ Moves(e, SetCursor(e, TRUE)) /\ Moves(e, SetCursor(e, FALSE))
  <2>1. ASSUME NEW on PROVE SamePlace(e, SetCursor(e, on))
    BY <1>2, FlagsPlace DEF SetCursor, Sound
  <2> QED
    BY <2>1 DEF Moves, SamePlace
<1>3. ASSUME NEW e, Sound(e)
      PROVE  Moves(e, DecodeByte(e, b))
  <2>1. e \in DecoderStates
    BY <1>3 DEF Sound
  <2> QED
    BY <1>1, <1>2, <1>3, <2>1, CursorOpsMove, Zenon DEF DecodeByte
<1>4. SamePlace(d, Buffer(d, b)) /\ Sound(Buffer(d, b))
  <2>1. d \in DecoderStates
    BY DEF Sound
  <2>2. SamePlace(d, Buffer(d, b))
    BY SMT, <2>1 DEF Buffer, SamePlace, DecoderStates
  <2> QED
    BY <2>2, BufferSound
<1>5. Moves(Buffer(d, b), Decode(d, b))
  BY <1>3, <1>4 DEF Decode
<1>6. RowBelow(Buffer(d, b)) = RowBelow(d) /\ RowAbove(Buffer(d, b)) = RowAbove(d)
  BY <1>4 DEF SamePlace, RowBelow, RowAbove
<1> QED
  BY <1>4, <1>5, <1>6 DEF Moves, NextPlace, SamePlace

\* Cursor!After for any size of the ring.
RingAfter(size, p, k) == IF p + k < size THEN p + k ELSE p + k - size

\* A move of the row and the column is a move on the ring of positions.
LEMMA MovesOnRing ==
    ASSUME NEW d \in DecoderStates
    PROVE  LET p == d.row * MAX_COLS + d.col
               size == MAX_ROWS * MAX_COLS
           IN  /\ p \in 0 .. size - 1
               /\ d.col + 1 < MAX_COLS =>
                      d.row * MAX_COLS + (d.col + 1) = RingAfter(size, p, 1)
               /\ d.col + 1 = MAX_COLS =>
                      RowBelow(d) * MAX_COLS + 0 = RingAfter(size, p, 1)
               /\ d.col > 0 =>
                      d.row * MAX_COLS + (d.col - 1) = RingAfter(size, p, size - 1)
               /\ d.col = 0 =>
                      RowAbove(d) * MAX_COLS + (MAX_COLS - 1) = RingAfter(size, p, size - 1)
               /\ RowBelow(d) * MAX_COLS + d.col = RingAfter(size, p, MAX_COLS)
               /\ RowAbove(d) * MAX_COLS + d.col = RingAfter(size, p, size - MAX_COLS)
<1> DEFINE H == MAX_ROWS
           W == MAX_COLS
           r == d.row
           c == d.col
           size == H * W
           base == r * W
           low  == RowBelow(d) * W
           high == RowAbove(d) * W
<1>1. /\ H \in Nat \ {0} /\ W \in Nat \ {0}
      /\ r \in 0 .. H - 1 /\ c \in 0 .. W - 1
  BY Neighbours, DecoderAssumption DEF Rows, Cols
<1>2. /\ RowBelow(d) = IF r + 1 >= H THEN 0 ELSE r + 1
      /\ RowAbove(d) = IF r = 0 THEN H - 1 ELSE r - 1
  BY DEF RowBelow, RowAbove
<1> HIDE DEF H, W, r, c
<1>3. /\ base \in Nat /\ size \in Nat /\ base + W <= size
      /\ r + 1 < H => base + 2 * W <= size
      /\ r + 1 >= H => base + W = size
      /\ r > 0 => base >= W
      /\ r = 0 => base = 0
  BY <1>1, RowArithmetic
<1>4. low = IF r + 1 >= H THEN 0 ELSE base + W
  BY <1>1, <1>2, RowArithmetic
<1>5. high = IF r = 0 THEN size - W ELSE base - W
  BY <1>1, <1>2, RowArithmetic
<1> HIDE DEF size, base, low, high
<1>6. /\ base + c \in 0 .. size - 1
      /\ c + 1 < W => base + (c + 1) = RingAfter(size, base + c, 1)
      /\ c + 1 = W => low + 0 = RingAfter(size, base + c, 1)
      /\ c > 0 => base + (c - 1) = RingAfter(size, base + c, size - 1)
      /\ c = 0 => high + (W - 1) = RingAfter(size, base + c, size - 1)
      /\ low + c = RingAfter(size, base + c, W)
      /\ high + c = RingAfter(size, base + c, size - W)
  BY SMT, <1>1, <1>3, <1>4, <1>5 DEF RingAfter
<1> QED
  BY <1>6 DEF size, base, low, high, H, W, r, c

\* Every step of the decoder is a step of the abstract cursor or a stutter.
LEMMA CursorStep ==
    ASSUME Sound(decoder), [Next]_decoder
    PROVE  [Cursor!CursorNext]_(decoder.row * MAX_COLS + decoder.col)
<1> DEFINE d == decoder
           e == decoder'
<1>1. d.row \in 0 .. MAX_ROWS - 1 /\ d.col \in 0 .. MAX_COLS - 1
  BY Neighbours DEF Sound, Rows, Cols
<1>2. Moves(d, e)
  <2>1. ASSUME NEW b \in Bytes, Receive(b) PROVE Moves(d, e)
    BY <2>1, DecodeMoves DEF Receive
  <2>2. CASE ToggleFlash \/ ToggleReveal \/ ToggleBold \/ UNCHANGED decoder
    <3>1. SamePlace(d, e)
      <4>1. d \in DecoderStates
        BY DEF Sound
      <4>2. CASE ToggleFlash
        <5> DEFINE on == ~d.screen_flash_state
                   u == [d EXCEPT !.screen_flash_state = on]
        <5>1. u \in DecoderStates /\ SamePlace(d, u)
          BY <4>1, ScreenStateType, SwitchPlace
        <5>2. e = Redraw(u, {p \in Screen : d.cells[p].attr.has_flash})
          BY <4>2 DEF ToggleFlash, FlashToggled
        <5> HIDE DEF u
        <5> QED
          BY <5>1, <5>2, PutCharsFrame DEF Redraw, SamePlace
      <4>3. CASE ToggleReveal
        <5> DEFINE on == ~d.screen_revealed_state
                   u == [d EXCEPT !.screen_revealed_state = on]
        <5>1. u \in DecoderStates /\ SamePlace(d, u)
          BY <4>1, ScreenStateType, SwitchPlace
        <5>2. e = Redraw(u, {p \in Screen : d.cells[p].attr.has_concealed})
          BY <4>3 DEF ToggleReveal, RevealToggled
        <5> HIDE DEF u
        <5> QED
          BY <5>1, <5>2, PutCharsFrame DEF Redraw, SamePlace
      <4>4. CASE ToggleBold
        BY <4>1, <4>4, SwitchPlace DEF ToggleBold
      <4>5. CASE UNCHANGED decoder
        BY <4>5 DEF SamePlace
      <4> QED
        BY <2>2, <4>2, <4>3, <4>4, <4>5
    <3> QED
      BY <3>1 DEF Moves
  <2> QED
    BY <2>1, <2>2 DEF Next
<1> DEFINE p == d.row * MAX_COLS + d.col
           q == e.row * MAX_COLS + e.col
           size == MAX_ROWS * MAX_COLS
<1>3. /\ p \in 0 .. size - 1
      /\ d.col + 1 < MAX_COLS => d.row * MAX_COLS + (d.col + 1) = RingAfter(size, p, 1)
      /\ d.col + 1 = MAX_COLS => RowBelow(d) * MAX_COLS + 0 = RingAfter(size, p, 1)
      /\ d.col > 0 => d.row * MAX_COLS + (d.col - 1) = RingAfter(size, p, size - 1)
      /\ d.col = 0 => RowAbove(d) * MAX_COLS + (MAX_COLS - 1) = RingAfter(size, p, size - 1)
      /\ RowBelow(d) * MAX_COLS + d.col = RingAfter(size, p, MAX_COLS)
      /\ RowAbove(d) * MAX_COLS + d.col = RingAfter(size, p, size - MAX_COLS)
  BY MovesOnRing DEF Sound
<1>4. CASE SamePlace(d, e)
  BY <1>4 DEF SamePlace
<1>5. CASE NextPlace(d, e)
  <2>1. q = RingAfter(size, p, 1)
    BY <1>3, <1>5 DEF NextPlace
  <2> QED
    BY <2>1 DEF Cursor!CursorNext, Cursor!Forward, Cursor!After, Cursor!Size, RingAfter
<1>6. CASE \/ d.col > 0 /\ e.col = d.col - 1 /\ e.row = d.row
           \/ d.col = 0 /\ e.col = MAX_COLS - 1 /\ e.row = RowAbove(d)
  <2>1. q = RingAfter(size, p, size - 1)
    BY <1>3, <1>6
  <2> QED
    BY <2>1 DEF Cursor!CursorNext, Cursor!Back, Cursor!After, Cursor!Size, RingAfter
<1>7. CASE e.col = d.col /\ e.row = RowBelow(d)
  <2>1. q = RingAfter(size, p, MAX_COLS)
    BY <1>3, <1>7
  <2> QED
    BY <2>1 DEF Cursor!CursorNext, Cursor!Down, Cursor!After, Cursor!Size, RingAfter
<1>8. CASE e.col = d.col /\ e.row = RowAbove(d)
  <2>1. q = RingAfter(size, p, size - MAX_COLS)
    BY <1>3, <1>8
  <2> QED
    BY <2>1 DEF Cursor!CursorNext, Cursor!Up, Cursor!After, Cursor!Size, RingAfter
<1>9. CASE e.col = 0 /\ e.row = d.row
  <2>1. q = d.row * MAX_COLS
    BY SMT, <1>1, <1>9, DecoderAssumption
  <2>2. p \in q .. q + MAX_COLS - 1
    BY SMT, <1>1, <2>1, DecoderAssumption
  <2> QED
    BY <1>1, <2>1, <2>2 DEF Cursor!CursorNext, Cursor!RowStart
<1>10. CASE e.col = 0 /\ e.row = 0
  <2>1. q = 0
    BY SMT, <1>10, DecoderAssumption
  <2> QED
    BY <2>1 DEF Cursor!CursorNext, Cursor!Origin
<1> QED
  BY <1>2, <1>4, <1>5, <1>6, <1>7, <1>8, <1>9, <1>10 DEF Moves

\* The decoder implements the abstract cursor: the row and the column, which
\* wrap apart from each other and in eight places of the code, walk the ring.
THEOREM CursorRefinement == Spec => CursorSpec
<1>1. Init => Cursor!CursorInit
  <2>1. 0 * MAX_COLS + 0 = 0
    BY SMT, DecoderAssumption
  <2> QED
    BY <2>1 DEF Init, InitDecoder, Cursor!CursorInit
<1>2. IInv /\ [Next]_decoder
        => [Cursor!CursorNext]_(decoder.row * MAX_COLS + decoder.col)
  BY CursorStep DEF IInv
<1> QED
  BY <1>1, <1>2, Invariance, PTL DEF Spec, CursorSpec, Cursor!CursorSpec

-----------------------------------------------------------------------------
(* The ignored row.                                                        *)

\* No character of the screen has changed.
SameText(d, e) ==
    \A p \in Screen : e.cells[p].character = d.cells[p].character

\* Characters of the lower row have changed, if at all, as the property says.
HalvesOnly(d, e) ==
    \A col \in Cols :
        /\ d.dheight_low_row \in Rows
        /\ e.cells[<<d.dheight_low_row, col>>].character
               # d.cells[<<d.dheight_low_row, col>>].character
        => d.flags.is_double_height /\ d.row # d.dheight_low_row /\ d.col = col

\* A step that changes no character keeps the property.
LEMMA SameTextHalves ==
    ASSUME NEW d, NEW e, SameText(d, e)
    PROVE  HalvesOnly(d, e)
<1>1. ASSUME NEW col \in Cols, d.dheight_low_row \in Rows
      PROVE  <<d.dheight_low_row, col>> \in Screen
  BY <1>1 DEF Screen
<1> QED
  BY <1>1 DEF SameText, HalvesOnly

\* The fields that a change of place or of flags does not touch.
LEMMA PlaceKeepsCells ==
    ASSUME NEW d \in DecoderStates, NEW r, NEW c, NEW f
    PROVE  /\ [d EXCEPT !.row = r].cells = d.cells
           /\ [d EXCEPT !.col = c].cells = d.cells
           /\ [d EXCEPT !.row = r, !.col = c].cells = d.cells
           /\ [d EXCEPT !.col = c, !.row = r].cells = d.cells
           /\ [d EXCEPT !.flags = f].cells = d.cells
BY SMT DEF DecoderStates

\* vt_put_char() changes the characters that it is given.
LEMMA PutCharsCells ==
    ASSUME NEW d \in DecoderStates, NEW new, NEW p \in Screen
    PROVE  /\ p \in DOMAIN new => PutChars(d, new).cells[p] = new[p]
           /\ p \notin DOMAIN new => PutChars(d, new).cells[p] = d.cells[p]
BY SMT DEF PutChars, DecoderStates

\* The rest of a row changes its attributes and keeps its characters.
LEMMA FillEndText ==
    ASSUME NEW d \in DecoderStates
    PROVE  SameText(d, FillEnd(d))
<1>1. CASE d.col = 0
  BY <1>1 DEF FillEnd, SameText
<1>2. CASE d.col # 0
  <2> DEFINE prev == d.cells[<<d.row, d.col - 1>>].attr
             Blank(p) == [character |-> d.cells[p].character,
                          attr |-> [ZeroAttr EXCEPT !.bold = prev.bold,
                                                    !.color_pair = prev.color_pair]]
             new == [p \in {d.row} \X (d.col .. MAX_COLS - 1) |-> Blank(p)]
  <2>1. FillEnd(d) = PutChars(d, new)
    BY <1>2 DEF FillEnd
  <2>2. \A p \in DOMAIN new : new[p].character = d.cells[p].character
    OBVIOUS
  <2> HIDE DEF new
  <2>3. \A p \in Screen :
            /\ p \in DOMAIN new => FillEnd(d).cells[p] = new[p]
            /\ p \notin DOMAIN new => FillEnd(d).cells[p] = d.cells[p]
    <3> HIDE DEF prev, Blank
    <3>1. \A p \in Screen :
            /\ p \in DOMAIN new => PutChars(d, new).cells[p] = new[p]
            /\ p \notin DOMAIN new => PutChars(d, new).cells[p] = d.cells[p]
      BY PutCharsCells
    <3> QED
      BY <2>1, <3>1, Zenon
  <2> QED
    BY <2>2, <2>3 DEF SameText
<1> QED
  BY <1>1, <1>2

\* The cursor controls change no character.
LEMMA CursorOpsText ==
    ASSUME NEW d \in DecoderStates
    PROVE  /\ SameText(d, Backspace(d)) /\ SameText(d, HTab(d)) /\ SameText(d, LineFeed(d))
           /\ SameText(d, VTab(d)) /\ SameText(d, CarriageReturn(d))
           /\ SameText(d, BackToOrigin(d))
           /\ SameText(d, SetCursor(d, TRUE)) /\ SameText(d, SetCursor(d, FALSE))
<1>1. /\ SameText(d, Backspace(d)) /\ SameText(d, HTab(d)) /\ SameText(d, VTab(d))
  BY PlaceKeepsCells DEF Backspace, HTab, VTab, SameText
<1>2. SameText(d, LineFeed(d))
  BY SMT DEF LineFeed, ResetFlags, SameText, DecoderStates
<1>3. SameText(d, CarriageReturn(d)) /\ SameText(d, BackToOrigin(d))
  BY FillEndText, FillEndPlace, PlaceKeepsCells DEF CarriageReturn, BackToOrigin, SameText
<1>4. SameText(d, SetCursor(d, TRUE)) /\ SameText(d, SetCursor(d, FALSE))
  BY SMT DEF SetCursor, SameText, DecoderStates
<1> QED
  BY <1>1, <1>2, <1>3, <1>4

\* Nothing but drawing touches the cells while a code is displayed.
LEMMA SetAtKeeps ==
    ASSUME NEW d \in DecoderStates, NEW code
    PROVE  /\ SetAt(d, code).cells = d.cells
           /\ SetAt(d, code).dheight_low_row = d.dheight_low_row
           /\ SetAt(d, code).flags.is_double_height => d.flags.is_double_height
<1>1. /\ SetAt(d, code).cells = d.cells
      /\ SetAt(d, code).dheight_low_row = d.dheight_low_row
  BY SMT DEF SetAt, DecoderStates
<1>2. SetAt(d, code).flags.is_double_height => d.flags.is_double_height
  BY SMT DEF SetAt, DecoderStates, Flags
<1> QED
  BY <1>1, <1>2

\* Set-after attributes leave the cells alone.
LEMMA AfterKeepsCells ==
    ASSUME NEW d \in DecoderStates, NEW code
    PROVE  SetAfter(d, code).cells = d.cells
BY SMT DEF SetAfter, Select, DecoderStates

\* So does the step to the next column.
LEMMA AdvanceKeepsCells ==
    ASSUME NEW d \in DecoderStates
    PROVE  Advance(d).cells = d.cells
BY SMT DEF Advance, NextRow, ResetFlags, DecoderStates

\* A character is drawn at the cursor and, at double height, on the lower row.
LEMMA DrawHalves ==
    ASSUME NEW d \in DecoderStates, d.row # d.dheight_low_row, NEW ch
    PROVE  HalvesOnly(d, Draw(d, ch))
<1> DEFINE dh == d.flags.is_double_height
           here == <<d.row, d.col>>
           low == d.dheight_low_row
           P == {here} \cup (IF dh THEN {<<low, d.col>>} ELSE {})
           Cell(c) == [character |-> c, attr |-> AttrOf(d)]
           new == [p \in P |-> IF p # here THEN Cell(ch.lower)
                               ELSE Cell(IF dh THEN ch.upper ELSE ch.single)]
<1>1. Draw(d, ch) = PutChars(d, new) /\ DOMAIN new = P
  BY DEF Draw
<1> HIDE DEF new, P
<1>2. \A p \in Screen \ P : Draw(d, ch).cells[p] = d.cells[p]
  <2> HIDE DEF dh, here, low, Cell
  <2>1. \A p \in Screen :
            p \notin DOMAIN new => PutChars(d, new).cells[p] = d.cells[p]
    BY PutCharsCells
  <2> QED
    BY <1>1, <2>1, Zenon
<1>3. ASSUME NEW col \in Cols, low \in Rows, ~(dh /\ d.col = col)
      PROVE  <<low, col>> \in Screen \ P
  BY <1>3 DEF Screen, P
<1> QED
  BY <1>2, <1>3 DEF HalvesOnly

\* An attribute or a character, drawn unless the cursor is on the ignored row.
LEMMA DrawCodeHalves ==
    ASSUME NEW d, Sound(d), NEW code \in 0 .. 127
    PROVE  HalvesOnly(d, DrawCode(d, code))
<1>1. d \in DecoderStates
  BY DEF Sound
<1>2. CASE d.row = d.dheight_low_row
  BY <1>2, SameTextHalves DEF DrawCode, SameText
<1>3. CASE d.row # d.dheight_low_row /\ code < 32
  BY <1>1, <1>3, DrawHalves DEF DrawCode, DrawAttribute
<1>4. CASE d.row # d.dheight_low_row /\ ~(code < 32)
  <2>1. PICK ch \in Chars :
            \E held : DrawText(d, code) = [Draw(d, ch) EXCEPT !.flags.held_mosaic = held]
    <3>1. code % 16 \in RowCodes /\ code \div 16 \in ColCodes
      BY SMT DEF RowCodes, ColCodes
    <3>2. d.flags.is_alpha \in BOOLEAN /\ d.flags.is_contiguous \in BOOLEAN
      BY SMT, <1>1 DEF DecoderStates, Flags
    <3>3. GetCharCode(code % 16, code \div 16, d.flags.is_alpha, d.flags.is_contiguous)
              \in Chars
      BY <3>1, <3>2, CharType, Zenon
    <3> QED
      BY <3>3 DEF DrawText
  <2>2. Draw(d, ch) \in DecoderStates
    BY DrawSound DEF Sound
  <2>3. DrawText(d, code).cells = Draw(d, ch).cells
    BY <2>1, <2>2, PlaceKeepsCells
  <2> QED
    BY <1>1, <1>4, <2>3, DrawHalves DEF DrawCode, HalvesOnly
<1> QED
  BY <1>2, <1>3, <1>4

\* A displayed code: what is drawn is drawn in the place where the cursor was.
LEMMA DisplayCodeHalves ==
    ASSUME NEW d, Sound(d), NEW code \in 0 .. 127
    PROVE  HalvesOnly(d, DisplayCode(d, code))
<1> DEFINE a == SetAt(d, code)
           b == DrawCode(a, code)
           c == SetAfter(b, code)
<1>1. /\ Sound(a) /\ SamePlace(d, a)
      /\ a.cells = d.cells /\ a.dheight_low_row = d.dheight_low_row
      /\ a.flags.is_double_height => d.flags.is_double_height
  BY SetAtSound, SetAtPlace, SetAtKeeps DEF Sound
<1> HIDE DEF a
<1>2. HalvesOnly(a, b) /\ Sound(b)
  BY <1>1, DrawCodeHalves, DrawAttributeSound, DrawTextSound DEF DrawCode
<1> HIDE DEF b
<1>3. c.cells = b.cells /\ Sound(c)
  BY <1>2, AfterKeepsCells, SetAfterSound DEF Sound
<1> HIDE DEF c
<1>4. Advance(c).cells = b.cells
  BY <1>3, AdvanceKeepsCells DEF Sound
<1>5. HalvesOnly(d, Advance(c))
  BY <1>1, <1>2, <1>4 DEF HalvesOnly, SamePlace
<1> QED
  BY <1>5 DEF DisplayCode, a, b, c

\* Every byte but a form feed.
LEMMA DecodeHalves ==
    ASSUME NEW d, Sound(d), NEW b \in Bytes \ {12}
    PROVE  HalvesOnly(d, Decode(d, b))
<1> DEFINE e == Buffer(d, b)
<1>1. /\ Sound(e) /\ SamePlace(d, e) /\ e.cells = d.cells
      /\ e.flags = d.flags /\ e.dheight_low_row = d.dheight_low_row
  <2>1. d \in DecoderStates
    BY DEF Sound
  <2>2. /\ SamePlace(d, e) /\ e.cells = d.cells
        /\ e.flags = d.flags /\ e.dheight_low_row = d.dheight_low_row
    BY SMT, <2>1 DEF Buffer, SamePlace, DecoderStates
  <2> QED
    BY <2>2, BufferSound
<1> HIDE DEF e
<1>2. HalvesOnly(e, Display7Bit(e, b))
  <2> DEFINE u == [e EXCEPT !.flags.is_escaped = FALSE]
             v == [u EXCEPT !.flags.is_escaped = TRUE]
  <2>1. Sound(u) /\ Sound(v)
    BY <1>1, QuietFlagSound
  <2>2. /\ SamePlace(e, u) /\ u.cells = e.cells /\ v.cells = e.cells
        /\ u.dheight_low_row = e.dheight_low_row
        /\ u.flags.is_double_height = e.flags.is_double_height
    BY SMT, <1>1 DEF Sound, SamePlace, DecoderStates, Flags
  <2>3. CodeOf(e, b) \in 0 .. 127
    BY <1>1, CodeType DEF Sound
  <2>4. Display7Bit(e, b) = IF CodeOf(e, b) = ESCAPE THEN v
                            ELSE DisplayCode(u, CodeOf(e, b))
    BY DEF Display7Bit
  <2> HIDE DEF u, v
  <2>5. HalvesOnly(u, DisplayCode(u, CodeOf(e, b)))
    BY <2>1, <2>3, DisplayCodeHalves
  <2>6. HalvesOnly(e, DisplayCode(u, CodeOf(e, b)))
    BY <2>2, <2>5 DEF HalvesOnly, SamePlace
  <2>7. HalvesOnly(e, v)
    BY <2>2, SameTextHalves DEF SameText
  <2> QED
    BY <2>4, <2>6, <2>7
<1>3. HalvesOnly(e, DecodeByte(e, b))
  <2>1. SameText(e, e)
    BY DEF SameText
  <2>2. b # 12 /\ e \in DecoderStates
    BY <1>1 DEF Sound
  <2>3. \/ SameText(e, DecodeByte(e, b))
        \/ DecodeByte(e, b) = Display7Bit(e, b)
    BY <2>1, <2>2, CursorOpsText, Zenon DEF DecodeByte
  <2> QED
    BY <1>2, <2>3, SameTextHalves
<1> QED
  BY <1>1, <1>3 DEF Decode, HalvesOnly, SamePlace, e

\* "ignore double height row 2 in the input stream" (decoder.h:132), of every
\* host, font and screen: a byte changes a character of the lower row only by
\* drawing the lower half of one from another row.
THEOREM LowerRowTakesHalves == Spec => LowerRowTakesHalvesOnly
<1> DEFINE Step ==
        \A b \in Bytes \ {12}, col \in Cols :
            LET low == decoder.dheight_low_row
            IN  /\ low \in Rows /\ Receive(b)
                /\ decoder'.cells[<<low, col>>].character
                       # decoder.cells[<<low, col>>].character
                => decoder.flags.is_double_height /\ decoder.row # low
                   /\ decoder.col = col
<1>1. IInv => Step
  BY DecodeHalves DEF IInv, HalvesOnly, Receive
<1>2. LowerRowTakesHalvesOnly <=> [][Step]_decoder
  BY DEF LowerRowTakesHalvesOnly
<1> HIDE DEF Step
<1> QED
  BY <1>1, <1>2, Invariance, PTL
=============================================================================
