-------------------------- MODULE SerialAttributes --------------------------
(***************************************************************************)
(* What a frame should look like, said of the codes of its rows and not of *)
(* a decoder: Viewdata attributes are serial, so what a position shows     *)
(* depends on the codes at and before it in its row, each of them taking   *)
(* effect at its own position ("set-at") or after it ("set-after").        *)
(* The rules are those of the comments of decoder.h and decoder.c.         *)
(* Decoder computes this one byte at a time from flags; RowsMatchReference *)
(* says that the two agree on every frame without cursor movement, except  *)
(* where the program is known to follow another rule (HoldDiffers and      *)
(* HeightDiffers).                                                         *)
(***************************************************************************)
EXTENDS Decoder, FiniteSetsExt

\* The codes of row r, one for each position from 1, from the bytes of a frame.
CodesOf(frame, r) ==
    [i \in 1 .. (IF Len(frame) <= r * MAX_COLS THEN 0
                 ELSE IF Len(frame) >= (r + 1) * MAX_COLS THEN MAX_COLS
                 ELSE Len(frame) - r * MAX_COLS) |-> frame[r * MAX_COLS + i] % 128]

\* The last of the positions up to p that holds one of codes, or 0.
LastIn(s, p, codes) == Max({0} \cup {i \in 1 .. p : s[i] \in codes})

\* The attribute is on at p: the last of the codes that could set it (at or
\* before on) is not followed by one that resets it (at or before off).
Between(s, on, setCode, off, resets) ==
    \E i \in 1 .. on : s[i] = setCode /\ LastIn(s, off, resets) < i

AllColors == AlphaColors \cup MosaicColors

IsAlpha(s, p) ==
    LET i == LastIn(s, p - 1, AllColors) IN i = 0 \/ s[i] \in AlphaColors
Foreground(s, p) ==
    LET i == LastIn(s, p - 1, IF IsAlpha(s, p) THEN AlphaColors ELSE MosaicColors)
    IN  IF i = 0 THEN WHITE ELSE s[i] % 16
Background(s, p) ==
    LET i == LastIn(s, p, {28, 29})
    IN  IF i = 0 \/ s[i] = 28 THEN BLACK ELSE Foreground(s, i)

IsFlashing(s, p)   == Between(s, p - 1, 8, p, {9})
IsConcealed(s, p)  == Between(s, p, 24, p - 1, AllColors)
IsHeld(s, p)       == Between(s, p, 30, p - 1, {31})
IsContiguous(s, p) == LET i == LastIn(s, p, {25, 26}) IN i = 0 \/ s[i] = 25
IsTall(s, p)       == Between(s, p - 1, 13, p, {12})

CharAt(s, p) ==
    GetCharCode(s[p] % 16, s[p] \div 16, IsAlpha(s, p), IsContiguous(s, p))

IsMosaic(s, p)  == s[p] >= 32 /\ ~IsAlpha(s, p)
HasBit6(code)   == (code \div 32) % 2 = 1
Size(s, p, tall) == IF tall /\ IsTall(s, p) THEN "double" ELSE "normal"

\* "the most recent mosaics character with bit 6 = '1' in its code on that row",
\* and a space again "on a change of alphanumeric/mosaics mode or on a change of
\* size", but not "by reinforcement of the existing size setting" (decoder.h:78).
\* Whether the row may have double height at all is tall.
HeldAt(s, p, tall) ==
    LET mosaic == Max({0} \cup {i \in 1 .. p - 1 : IsMosaic(s, i) /\ HasBit6(s[i])})
        change == \E i \in mosaic .. p - 1 : \/ IsAlpha(s, i) # IsAlpha(s, i + 1)
                                             \/ Size(s, i, tall) # Size(s, i + 1, tall)
    IN  IF mosaic = 0 \/ change THEN Space ELSE CharAt(s, mosaic)

CharOf(s, p, tall) ==
    IF s[p] >= 32 THEN CharAt(s, p)
    ELSE IF IsHeld(s, p) THEN HeldAt(s, p, tall) ELSE Space

AttrAt(s, p) ==
    [bold |-> FALSE,
     color_pair |-> IF has_colors THEN ColorPairNumber(Foreground(s, p), Background(s, p))
                                  ELSE 0,
     has_flash |-> IsFlashing(s, p), has_concealed |-> IsConcealed(s, p)]

\* "double height (but not on last row) and not if we're on the lower half of a
\* double height row" (decoder.c:202): row r is such a lower half, and what the
\* host sends for it is ignored.
Tall(frame, r)  == \E i \in DOMAIN CodesOf(frame, r) : CodesOf(frame, r)[i] = 13
IsLower(frame)  ==
    LET lower[r \in -1 .. MAX_ROWS - 1] ==
            r > 0 /\ Tall(frame, r - 1) /\ r - 1 < MAX_ROWS - 1 /\ ~lower[r - 1]
    IN  lower
MayBeTall(frame, r) == r < MAX_ROWS - 1 /\ ~IsLower(frame)[r]

\* The cell that the frame asks for at column p - 1 of row r.
CellAt(frame, r, p) ==
    LET s     == CodesOf(frame, r)
        above == CodesOf(frame, r - 1)
    IN  IF IsLower(frame)[r]
        THEN IF p \in DOMAIN above /\ IsTall(above, p)
             THEN [character |-> CharOf(above, p, TRUE).lower, attr |-> AttrAt(above, p)]
             ELSE BlankCell
        ELSE IF p \in DOMAIN s
             THEN LET tall == MayBeTall(frame, r)
                      ch   == CharOf(s, p, tall)
                  IN  [character |-> IF tall /\ IsTall(s, p) THEN ch.upper ELSE ch.single,
                       attr |-> AttrAt(s, p)]
             ELSE BlankCell

-----------------------------------------------------------------------------
(* Where the program does otherwise.                                       *)

\* The held mosaic shown at p is not that of decoder.h: the program holds any
\* character of mosaics mode, capitals too; a normal height code resets it on
\* text of normal height; and a double height code does not.
HoldDiffers(s, p, tall) ==
    LET last == Max({0} \cup {i \in 1 .. p - 1 : IsMosaic(s, i)})
    IN  /\ s[p] < 32 /\ IsHeld(s, p) /\ last # 0
        /\ \/ ~HasBit6(s[last])
           \/ \E i \in last + 1 .. p : s[i] = 12 /\ Size(s, i - 1, tall) = "normal"
           \/ \E i \in last + 1 .. p - 1 : s[i] = 13 /\ tall /\ Size(s, i, tall) = "normal"

\* Double height is refused on the row above the last one too, which changes
\* what that row and the last one show.
HeightDiffers(frame) ==
    /\ MAX_ROWS > 1
    /\ Tall(frame, MAX_ROWS - 2) /\ ~IsLower(frame)[MAX_ROWS - 2]

Differs(frame, r, p) ==
    LET drawn == IF IsLower(frame)[r] THEN r - 1 ELSE r
        s     == CodesOf(frame, drawn)
    IN  \/ r >= MAX_ROWS - 2 /\ HeightDiffers(frame)
        \/ p \in DOMAIN s /\ HoldDiffers(s, p, MayBeTall(frame, drawn))

-----------------------------------------------------------------------------
(* Frames of at most a screen of displayed codes, after a form feed.       *)

\* A screen fits the frame buffer (2000 bytes for 24 rows of 40).
ASSUME FrameAssumption == MAX_ROWS * MAX_COLS <= FRAME_BUFFER_MAX

\* The bytes that display a code: no cursor control and no escape.
Displayed ==
    {b \in Bytes : b \notin {0, 8, 9, 10, 11, 12, 13, 17, 20, 30} /\ b % 128 # ESCAPE}

FrameInit == decoder = FormFeed(InitDecoder(FALSE))

FrameNext ==
    \/ /\ Len(decoder.frame_buffer) < MAX_ROWS * MAX_COLS
       /\ \E b \in Displayed : Receive(b)
    \/ ToggleReveal

FrameSpec == FrameInit /\ [][FrameNext]_decoder

\* The cells that vt_decoder_decode() wrote, one byte at a time and with the
\* held mosaic, the "set-after" attributes and the ignored lower rows kept in
\* flags, are the ones that the codes of each row ask for, but for the mosaics
\* held by another rule and double height refused on the row above the last.
RowsMatchReference ==
    \A r \in Rows, p \in 1 .. MAX_COLS :
        \/ Differs(decoder.frame_buffer, r, p)
        \/ decoder.cells[<<r, p - 1>>] = CellAt(decoder.frame_buffer, r, p)
=============================================================================
