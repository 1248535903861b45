---------------------------- MODULE ReplayProofs ----------------------------
(***************************************************************************)
(* A saved frame, shown again, is the frame: for every screen, font, host  *)
(* and user, and frames of any length that the buffer keeps whole.         *)
(*                                                                         *)
(* The live decoder and the one of the viewer are related by Alike: they   *)
(* agree on all that the bytes of a frame determine.  Every byte takes     *)
(* decoders that are alike to decoders that are alike, and a form feed     *)
(* makes one that is like a fresh one of any other; the keys and the timer *)
(* leave each decoder like itself.  So the live decoder is at all times    *)
(* like the last of the decoders that a fresh one goes through on the      *)
(* bytes of the frame buffer (IsReplay), and the viewer is like the one    *)
(* that it has come to.                                                    *)
(***************************************************************************)
EXTENDS FrameFile, CursorProofs

-----------------------------------------------------------------------------
(* What decoders have in common.                                           *)

\* Characters and cells that look the same, as ReplayShowsSavedFrame has it.
LikeChar(a, b) == a = b \/ (a \in Blanks /\ b \in Blanks)

LikeCell(a, b) ==
    /\ LikeChar(a.character, b.character)
    /\ a.attr.color_pair = b.attr.color_pair
    /\ a.attr.has_flash = b.attr.has_flash
    /\ a.attr.has_concealed = b.attr.has_concealed

LikeCells(d, e) == \A p \in Screen : LikeCell(d.cells[p], e.cells[p])

\* The mosaic held in the first frame is NUL and a space in the others.
LikeHeld(a, b) == a = b \/ (a \in {Space, ZeroChar} /\ b \in {Space, ZeroChar})

\* All flags but the one of the hardware cursor, which a new frame keeps.
LikeFlags(f, g) ==
    /\ f.bg_color = g.bg_color
    /\ f.alpha_fg_color = g.alpha_fg_color /\ f.mosaic_fg_color = g.mosaic_fg_color
    /\ f.is_alpha = g.is_alpha /\ f.is_contiguous = g.is_contiguous
    /\ f.is_flashing = g.is_flashing /\ f.is_escaped = g.is_escaped
    /\ f.is_boxing = g.is_boxing /\ f.is_concealed = g.is_concealed
    /\ f.is_mosaic_held = g.is_mosaic_held
    /\ f.is_double_height = g.is_double_height
    /\ LikeHeld(f.held_mosaic, g.held_mosaic)

LikePlace(d, e) ==
    d.row = e.row /\ d.col = e.col /\ d.dheight_low_row = e.dheight_low_row

Alike(d, e) == LikePlace(d, e) /\ LikeFlags(d.flags, e.flags) /\ LikeCells(d, e)

\* Every decoder is like itself.
LEMMA AlikeReflexive == ASSUME NEW d PROVE Alike(d, d)
BY DEF Alike, LikePlace, LikeFlags, LikeHeld, LikeCells, LikeCell, LikeChar

\* What is like the like of a decoder is like that decoder.
LEMMA AlikeTransitive ==
    ASSUME NEW d, NEW e, NEW f, Alike(d, e), Alike(e, f)
    PROVE  Alike(d, f)
<1>1. LikeCells(d, f)
  BY Zenon DEF Alike, LikeCells, LikeCell, LikeChar
<1>2. LikeFlags(d.flags, f.flags)
  BY Zenon DEF Alike, LikeFlags, LikeHeld
<1> QED
  BY <1>1, <1>2 DEF Alike, LikePlace

\* A decoder is like one that is like it.
LEMMA AlikeSymmetric == ASSUME NEW d, NEW e, Alike(d, e) PROVE Alike(e, d)
<1>1. LikeCells(e, d)
  BY Zenon DEF Alike, LikeCells, LikeCell, LikeChar
<1>2. LikeFlags(e.flags, d.flags)
  BY Zenon DEF Alike, LikeFlags, LikeHeld
<1> QED
  BY <1>1, <1>2 DEF Alike, LikePlace

\* Attributes, and cells, are their fields.
LEMMA CellFields ==
    /\ \A x, y \in Attrs :
          /\ x.bold = y.bold /\ x.color_pair = y.color_pair
          /\ x.has_flash = y.has_flash /\ x.has_concealed = y.has_concealed
          => x = y
    /\ \A x, y \in Cells : x.character = y.character /\ x.attr = y.attr => x = y
BY SMT DEF Attrs, Cells

\* An attribute with another bold.
LEMMA BoldOfAttr ==
    ASSUME NEW x \in Attrs, NEW bold \in BOOLEAN
    PROVE  LET y == [x EXCEPT !.bold = bold]
           IN  /\ y \in Attrs /\ y.bold = bold /\ y.color_pair = x.color_pair
               /\ y.has_flash = x.has_flash /\ y.has_concealed = x.has_concealed
<1>1. [x EXCEPT !.bold = bold] \in Attrs
  BY SMT DEF Attrs
<1>2. /\ [x EXCEPT !.bold = bold].bold = bold
      /\ [x EXCEPT !.bold = bold].color_pair = x.color_pair
      /\ [x EXCEPT !.bold = bold].has_flash = x.has_flash
      /\ [x EXCEPT !.bold = bold].has_concealed = x.has_concealed
  BY SMT DEF Attrs
<1> QED
  BY <1>1, <1>2

\* The look of a cell, by its fields.
LEMMA LookFields ==
    ASSUME NEW x \in Cells
    PROVE  /\ Look(x) \in Cells
           /\ Look(x).character = IF x.character \in Blanks THEN SPACE ELSE x.character
           /\ Look(x).attr = [x.attr EXCEPT !.bold = FALSE]
<1> DEFINE a == [x.attr EXCEPT !.bold = FALSE]
           c == IF x.character \in Blanks THEN SPACE ELSE x.character
<1>1. x.attr \in Attrs /\ x.character \in CodePoints /\ SPACE \in CodePoints
  BY SMT DEF Cells, SPACE, CodePoints
<1>2. a \in Attrs /\ c \in CodePoints
  BY <1>1, BoldOfAttr
<1>3. Look(x) = [[character |-> x.character, attr |-> a] EXCEPT !.character = c]
  BY DEF Look, Content
<1> HIDE DEF a, c
<1>4. Look(x) \in Cells /\ Look(x).character = c /\ Look(x).attr = a
  BY <1>1, <1>2, <1>3, SMT DEF Cells
<1> QED
  BY <1>4 DEF a, c

\* Cells that are alike look the same.
LEMMA LikeCellsLook ==
    ASSUME NEW a \in Cells, NEW b \in Cells, LikeCell(a, b)
    PROVE  Look(a) = Look(b)
<1> DEFINE x == [a.attr EXCEPT !.bold = FALSE]
           y == [b.attr EXCEPT !.bold = FALSE]
<1>1. a.attr \in Attrs /\ b.attr \in Attrs /\ FALSE \in BOOLEAN
  BY DEF Cells
<1>2. /\ x \in Attrs /\ x.bold = FALSE /\ x.color_pair = a.attr.color_pair
      /\ x.has_flash = a.attr.has_flash /\ x.has_concealed = a.attr.has_concealed
  BY <1>1, BoldOfAttr
<1>3. /\ y \in Attrs /\ y.bold = FALSE /\ y.color_pair = b.attr.color_pair
      /\ y.has_flash = b.attr.has_flash /\ y.has_concealed = b.attr.has_concealed
  BY <1>1, BoldOfAttr
<1>4. /\ Look(a) \in Cells /\ Look(a).attr = x
      /\ Look(a).character = IF a.character \in Blanks THEN SPACE ELSE a.character
  BY LookFields
<1>5. /\ Look(b) \in Cells /\ Look(b).attr = y
      /\ Look(b).character = IF b.character \in Blanks THEN SPACE ELSE b.character
  BY LookFields
<1> HIDE DEF x, y
<1>6. x = y
  BY <1>2, <1>3, CellFields DEF LikeCell
<1>7. Look(a).character = Look(b).character
  BY <1>4, <1>5 DEF LikeCell, LikeChar
<1> QED
  BY <1>4, <1>5, <1>6, <1>7, CellFields

\* Two records of the decoder with other flags.
LEMMA AlikeWithFlags ==
    ASSUME NEW d \in DecoderStates, NEW e \in DecoderStates, Alike(d, e),
           NEW f, NEW g, LikeFlags(f, g)
    PROVE  Alike([d EXCEPT !.flags = f], [e EXCEPT !.flags = g])
<1> DEFINE u == [d EXCEPT !.flags = f]
           v == [e EXCEPT !.flags = g]
<1>1. /\ u.cells = d.cells /\ v.cells = e.cells
      /\ u.row = d.row /\ v.row = e.row /\ u.col = d.col /\ v.col = e.col
      /\ u.dheight_low_row = d.dheight_low_row /\ v.dheight_low_row = e.dheight_low_row
      /\ u.flags = f /\ v.flags = g
  BY SMT DEF DecoderStates
<1> HIDE DEF u, v
<1>2. Alike(u, v)
  BY <1>1, Zenon DEF Alike, LikePlace, LikeCells
<1> QED
  BY <1>2 DEF u, v

\* Two with another place.
LEMMA AlikeWithPlace ==
    ASSUME NEW d \in DecoderStates, NEW e \in DecoderStates, Alike(d, e), NEW r, NEW c
    PROVE  /\ Alike([d EXCEPT !.row = r], [e EXCEPT !.row = r])
           /\ Alike([d EXCEPT !.col = c], [e EXCEPT !.col = c])
           /\ Alike([d EXCEPT !.dheight_low_row = r], [e EXCEPT !.dheight_low_row = r])
<1>1. Alike([d EXCEPT !.row = r], [e EXCEPT !.row = r])
  BY SMT DEF Alike, LikePlace, LikeFlags, LikeCells, LikeCell, DecoderStates
<1>2. Alike([d EXCEPT !.col = c], [e EXCEPT !.col = c])
  BY SMT DEF Alike, LikePlace, LikeFlags, LikeCells, LikeCell, DecoderStates
<1>3. Alike([d EXCEPT !.dheight_low_row = r], [e EXCEPT !.dheight_low_row = r])
  BY SMT DEF Alike, LikePlace, LikeFlags, LikeCells, LikeCell, DecoderStates
<1> QED
  BY <1>1, <1>2, <1>3

-----------------------------------------------------------------------------
(* Operations that move the cursor or change flags.                        *)

\* Decoders with like places, flags and the cells of like decoders are alike.
LEMMA AlikeFrom ==
    ASSUME NEW d, NEW e, LikeCells(d, e), NEW u, NEW v,
           u.cells = d.cells, v.cells = e.cells,
           LikePlace(u, v), LikeFlags(u.flags, v.flags)
    PROVE  Alike(u, v)
BY DEF Alike, LikeCells

\* A decoder that differs in nothing that a frame determines is like it.
LEMMA AlikeSame ==
    ASSUME NEW d, NEW e, LikePlace(d, e), d.flags = e.flags, d.cells = e.cells
    PROVE  Alike(d, e)
BY AlikeReflexive, AlikeFrom DEF Alike

\* Kept bytes are not looked at.
LEMMA BufferAlike ==
    ASSUME NEW d \in DecoderStates, NEW b
    PROVE  Alike(Buffer(d, b), d)
<1>1. /\ LikePlace(Buffer(d, b), d) /\ Buffer(d, b).flags = d.flags
      /\ Buffer(d, b).cells = d.cells
  BY SMT DEF Buffer, LikePlace, DecoderStates
<1> QED
  BY <1>1, AlikeSame

\* The default flags, whatever was held.
LEMMA DefaultAlike ==
    ASSUME NEW held, NEW kept, LikeHeld(held, kept), NEW on, NEW off
    PROVE  LikeFlags(DefaultFlags(held, on), DefaultFlags(kept, off))
BY DEF LikeFlags, DefaultFlags

\* A new row starts alike.
LEMMA ResetAlike ==
    ASSUME NEW d \in DecoderStates, NEW e \in DecoderStates, Alike(d, e)
    PROVE  Alike(ResetFlags(d), ResetFlags(e))
<1>1. LikeHeld(Space, Space)
  BY DEF LikeHeld
<1> QED
  BY <1>1, DefaultAlike, AlikeWithFlags DEF ResetFlags

\* The place of the cursor, moved in both.
LEMMA MoveAlike ==
    ASSUME NEW d \in DecoderStates, NEW e \in DecoderStates, Alike(d, e),
           NEW r \in Rows, NEW c \in Cols
    PROVE  /\ Alike([d EXCEPT !.row = r, !.col = c], [e EXCEPT !.row = r, !.col = c])
           /\ Alike([d EXCEPT !.col = c, !.row = r], [e EXCEPT !.col = c, !.row = r])
<1> DEFINE u == [d EXCEPT !.row = r]
           v == [e EXCEPT !.row = r]
           x == [d EXCEPT !.col = c]
           y == [e EXCEPT !.col = c]
<1>1. /\ Alike(u, v) /\ u \in DecoderStates /\ v \in DecoderStates
      /\ Alike(x, y) /\ x \in DecoderStates /\ y \in DecoderStates
  BY AlikeWithPlace, RowType, ColType
<1>2. /\ [d EXCEPT !.row = r, !.col = c] = [u EXCEPT !.col = c]
      /\ [e EXCEPT !.row = r, !.col = c] = [v EXCEPT !.col = c]
      /\ [d EXCEPT !.col = c, !.row = r] = [x EXCEPT !.row = r]
      /\ [e EXCEPT !.col = c, !.row = r] = [y EXCEPT !.row = r]
  OBVIOUS
<1> HIDE DEF u, v, x, y
<1> QED
  BY <1>1, <1>2, AlikeWithPlace, Zenon

\* The cursor controls that fill nothing.
LEMMA CursorOpsAlike ==
    ASSUME NEW d \in DecoderStates, NEW e \in DecoderStates, Alike(d, e)
    PROVE  /\ Alike(Backspace(d), Backspace(e)) /\ Alike(HTab(d), HTab(e))
           /\ Alike(LineFeed(d), LineFeed(e)) /\ Alike(VTab(d), VTab(e))
<1>1. /\ e.row = d.row /\ e.col = d.col
      /\ RowAbove(e) = RowAbove(d) /\ RowBelow(e) = RowBelow(d)
  BY DEF Alike, LikePlace, RowAbove, RowBelow
<1>2. Alike(Backspace(d), Backspace(e))
  BY <1>1, Neighbours, Edges, MoveAlike, AlikeWithPlace, Zenon DEF Backspace
<1>3. Alike(HTab(d), HTab(e))
  BY <1>1, Neighbours, Edges, MoveAlike, AlikeWithPlace, Zenon DEF HTab
<1>4. Alike(VTab(d), VTab(e))
  BY <1>1, AlikeWithPlace DEF VTab
<1>5. Alike(LineFeed(d), LineFeed(e))
  <2>1. RowBelow(d) \in Rows
    BY Neighbours
  <2> QED
    BY <1>1, <2>1, RowType, AlikeWithPlace, ResetAlike DEF LineFeed
<1> QED
  BY <1>2, <1>3, <1>4, <1>5

\* The step to the next column, or row.
LEMMA AdvanceAlike ==
    ASSUME NEW d \in DecoderStates, NEW e \in DecoderStates, Alike(d, e)
    PROVE  Alike(Advance(d), Advance(e))
<1> DEFINE r == IF d.row + 1 < MAX_ROWS THEN d.row + 1 ELSE 0
           u == [d EXCEPT !.row = r, !.col = 0]
           v == [e EXCEPT !.row = r, !.col = 0]
<1>1. e.row = d.row /\ e.col = d.col
  BY DEF Alike, LikePlace
<1>2. r \in Rows /\ 0 \in Cols
  BY Edges, Neighbours
<1>3. NextRow(d) = ResetFlags(u) /\ NextRow(e) = ResetFlags(v)
  BY <1>1, Zenon DEF NextRow
<1> HIDE DEF r
<1>4. u \in DecoderStates /\ v \in DecoderStates /\ Alike(u, v)
  BY <1>2, CursorType, MoveAlike
<1> HIDE DEF u, v
<1>5. Alike(NextRow(d), NextRow(e))
  BY <1>3, <1>4, ResetAlike
<1> QED
  BY <1>1, <1>5, AlikeWithPlace, Zenon DEF Advance

\* A flag that is set in both.
LEMMA LikeFlag ==
    ASSUME NEW f \in Flags, NEW g \in Flags, LikeFlags(f, g), NEW x, NEW y, LikeHeld(x, y)
    PROVE  /\ LikeFlags([f EXCEPT !.bg_color = x], [g EXCEPT !.bg_color = x])
           /\ LikeFlags([f EXCEPT !.alpha_fg_color = x], [g EXCEPT !.alpha_fg_color = x])
           /\ LikeFlags([f EXCEPT !.mosaic_fg_color = x], [g EXCEPT !.mosaic_fg_color = x])
           /\ LikeFlags([f EXCEPT !.is_alpha = x], [g EXCEPT !.is_alpha = x])
           /\ LikeFlags([f EXCEPT !.is_contiguous = x], [g EXCEPT !.is_contiguous = x])
           /\ LikeFlags([f EXCEPT !.is_flashing = x], [g EXCEPT !.is_flashing = x])
           /\ LikeFlags([f EXCEPT !.is_escaped = x], [g EXCEPT !.is_escaped = x])
           /\ LikeFlags([f EXCEPT !.is_boxing = x], [g EXCEPT !.is_boxing = x])
           /\ LikeFlags([f EXCEPT !.is_concealed = x], [g EXCEPT !.is_concealed = x])
           /\ LikeFlags([f EXCEPT !.is_mosaic_held = x], [g EXCEPT !.is_mosaic_held = x])
           /\ LikeFlags([f EXCEPT !.is_double_height = x], [g EXCEPT !.is_double_height = x])
           /\ LikeFlags([f EXCEPT !.is_cursor_on = x], [g EXCEPT !.is_cursor_on = x])
           /\ LikeFlags([f EXCEPT !.held_mosaic = x], [g EXCEPT !.held_mosaic = y])
<1>1. LikeFlags([f EXCEPT !.bg_color = x], [g EXCEPT !.bg_color = x])
  BY SMT DEF LikeFlags, LikeHeld, Flags
<1>2. LikeFlags([f EXCEPT !.alpha_fg_color = x], [g EXCEPT !.alpha_fg_color = x])
  BY SMT DEF LikeFlags, LikeHeld, Flags
<1>3. LikeFlags([f EXCEPT !.mosaic_fg_color = x], [g EXCEPT !.mosaic_fg_color = x])
  BY SMT DEF LikeFlags, LikeHeld, Flags
<1>4. LikeFlags([f EXCEPT !.is_alpha = x], [g EXCEPT !.is_alpha = x])
  BY SMT DEF LikeFlags, LikeHeld, Flags
<1>5. LikeFlags([f EXCEPT !.is_contiguous = x], [g EXCEPT !.is_contiguous = x])
  BY SMT DEF LikeFlags, LikeHeld, Flags
<1>6. LikeFlags([f EXCEPT !.is_flashing = x], [g EXCEPT !.is_flashing = x])
  BY SMT DEF LikeFlags, LikeHeld, Flags
<1>7. LikeFlags([f EXCEPT !.is_escaped = x], [g EXCEPT !.is_escaped = x])
  BY SMT DEF LikeFlags, LikeHeld, Flags
<1>8. LikeFlags([f EXCEPT !.is_boxing = x], [g EXCEPT !.is_boxing = x])
  BY SMT DEF LikeFlags, LikeHeld, Flags
<1>9. LikeFlags([f EXCEPT !.is_concealed = x], [g EXCEPT !.is_concealed = x])
  BY SMT DEF LikeFlags, LikeHeld, Flags
<1>10. LikeFlags([f EXCEPT !.is_mosaic_held = x], [g EXCEPT !.is_mosaic_held = x])
  BY SMT DEF LikeFlags, LikeHeld, Flags
<1>11. LikeFlags([f EXCEPT !.is_double_height = x], [g EXCEPT !.is_double_height = x])
  BY SMT DEF LikeFlags, LikeHeld, Flags
<1>12. LikeFlags([f EXCEPT !.is_cursor_on = x], [g EXCEPT !.is_cursor_on = x])
  BY SMT DEF LikeFlags, LikeHeld, Flags
<1>13. LikeFlags([f EXCEPT !.held_mosaic = x], [g EXCEPT !.held_mosaic = y])
  BY SMT DEF LikeFlags, Flags
<1> QED
  BY <1>1, <1>2, <1>3, <1>4, <1>5, <1>6, <1>7, <1>8, <1>9, <1>10, <1>11, <1>12, <1>13

\* The same of decoders.
LEMMA FlagAlike ==
    ASSUME NEW d \in DecoderStates, NEW e \in DecoderStates, Alike(d, e),
           NEW x, NEW y, LikeHeld(x, y)
    PROVE  /\ Alike([d EXCEPT !.flags.bg_color = x], [e EXCEPT !.flags.bg_color = x])
           /\ Alike([d EXCEPT !.flags.alpha_fg_color = x], [e EXCEPT !.flags.alpha_fg_color = x])
           /\ Alike([d EXCEPT !.flags.mosaic_fg_color = x], [e EXCEPT !.flags.mosaic_fg_color = x])
           /\ Alike([d EXCEPT !.flags.is_alpha = x], [e EXCEPT !.flags.is_alpha = x])
           /\ Alike([d EXCEPT !.flags.is_contiguous = x], [e EXCEPT !.flags.is_contiguous = x])
           /\ Alike([d EXCEPT !.flags.is_flashing = x], [e EXCEPT !.flags.is_flashing = x])
           /\ Alike([d EXCEPT !.flags.is_escaped = x], [e EXCEPT !.flags.is_escaped = x])
           /\ Alike([d EXCEPT !.flags.is_boxing = x], [e EXCEPT !.flags.is_boxing = x])
           /\ Alike([d EXCEPT !.flags.is_concealed = x], [e EXCEPT !.flags.is_concealed = x])
           /\ Alike([d EXCEPT !.flags.is_mosaic_held = x], [e EXCEPT !.flags.is_mosaic_held = x])
           /\ Alike([d EXCEPT !.flags.is_double_height = x], [e EXCEPT !.flags.is_double_height = x])
           /\ Alike([d EXCEPT !.flags.is_cursor_on = x], [e EXCEPT !.flags.is_cursor_on = x])
           /\ Alike([d EXCEPT !.flags.held_mosaic = x], [e EXCEPT !.flags.held_mosaic = y])
<1>1. d.flags \in Flags /\ e.flags \in Flags /\ LikeFlags(d.flags, e.flags)
  BY SMT DEF DecoderStates, Alike
<1> QED
  BY <1>1, LikeFlag, AlikeWithFlags

\* The flags that DC1, DC3 and ESC set.
LEMMA SwitchAlike ==
    ASSUME NEW d \in DecoderStates, NEW e \in DecoderStates, Alike(d, e), NEW on
    PROVE  /\ Alike(SetCursor(d, on), SetCursor(e, on))
           /\ Alike([d EXCEPT !.flags.is_escaped = on], [e EXCEPT !.flags.is_escaped = on])
<1>1. LikeHeld(on, on)
  BY DEF LikeHeld
<1> QED
  BY <1>1, FlagAlike DEF SetCursor

\* What the flags select is the same in both.
LEMMA LikeReads ==
    ASSUME NEW d, NEW e, Alike(d, e)
    PROVE  /\ DrawingColor(d) = DrawingColor(e)
           /\ d.flags.is_alpha = e.flags.is_alpha
           /\ CanDoubleHeight(d) <=> CanDoubleHeight(e)
           /\ e.row = d.row /\ e.col = d.col
BY DEF Alike, LikeFlags, LikePlace, DrawingColor, CanDoubleHeight

\* The attributes that take effect at once.
LEMMA SetAtAlike ==
    ASSUME NEW d \in DecoderStates, NEW e \in DecoderStates, Alike(d, e),
           NEW code \in 0 .. 127
    PROVE  Alike(SetAt(d, code), SetAt(e, code))
<1> DEFINE fg == IF d.flags.is_alpha THEN d.flags.alpha_fg_color ELSE d.flags.mosaic_fg_color
           u == [d EXCEPT !.flags.is_double_height = FALSE]
           v == [e EXCEPT !.flags.is_double_height = FALSE]
<1>1. fg = IF e.flags.is_alpha THEN e.flags.alpha_fg_color ELSE e.flags.mosaic_fg_color
  BY LikeReads DEF DrawingColor
<1>2. \A x : LikeHeld(x, x)
  BY DEF LikeHeld
<1>3. u \in DecoderStates /\ v \in DecoderStates /\ Alike(u, v)
  BY <1>2, BooleanFlagType, FlagAlike
<1> HIDE DEF fg, u, v
<1>4. Alike([u EXCEPT !.flags.held_mosaic = Space], [v EXCEPT !.flags.held_mosaic = Space])
  BY <1>2, <1>3, FlagAlike
<1>5. /\ [d EXCEPT !.flags.is_double_height = FALSE, !.flags.held_mosaic = Space]
            = [u EXCEPT !.flags.held_mosaic = Space]
      /\ [e EXCEPT !.flags.is_double_height = FALSE, !.flags.held_mosaic = Space]
            = [v EXCEPT !.flags.held_mosaic = Space]
  BY DEF u, v
<1>6. \A x : /\ Alike([d EXCEPT !.flags.is_flashing = x], [e EXCEPT !.flags.is_flashing = x])
             /\ Alike([d EXCEPT !.flags.is_concealed = x], [e EXCEPT !.flags.is_concealed = x])
             /\ Alike([d EXCEPT !.flags.is_contiguous = x], [e EXCEPT !.flags.is_contiguous = x])
             /\ Alike([d EXCEPT !.flags.bg_color = x], [e EXCEPT !.flags.bg_color = x])
             /\ Alike([d EXCEPT !.flags.is_mosaic_held = x],
                      [e EXCEPT !.flags.is_mosaic_held = x])
  BY <1>2, FlagAlike
<1>7. CASE code = 29
  <2>1. SetAt(d, code) = [d EXCEPT !.flags.bg_color = fg]
    BY SMT, <1>7 DEF SetAt, fg
  <2>2. SetAt(e, code) = [e EXCEPT !.flags.bg_color = fg]
    BY SMT, <1>1, <1>7 DEF SetAt
  <2> QED
    BY <1>6, <2>1, <2>2
<1>8. CASE code \in {9, 24, 25, 26, 28, 30}
  <2>1. CASE code = 9
    <3>1. /\ SetAt(d, code) = [d EXCEPT !.flags.is_flashing = FALSE]
          /\ SetAt(e, code) = [e EXCEPT !.flags.is_flashing = FALSE]
      BY SMT, <2>1 DEF SetAt
    <3> QED
      BY <1>6, <3>1, Zenon
  <2>2. CASE code = 24
    <3>1. /\ SetAt(d, code) = [d EXCEPT !.flags.is_concealed = TRUE]
          /\ SetAt(e, code) = [e EXCEPT !.flags.is_concealed = TRUE]
      BY SMT, <2>2 DEF SetAt
    <3> QED
      BY <1>6, <3>1, Zenon
  <2>3. CASE code = 25
    <3>1. /\ SetAt(d, code) = [d EXCEPT !.flags.is_contiguous = TRUE]
          /\ SetAt(e, code) = [e EXCEPT !.flags.is_contiguous = TRUE]
      BY SMT, <2>3 DEF SetAt
    <3> QED
      BY <1>6, <3>1, Zenon
  <2>4. CASE code = 26
    <3>1. /\ SetAt(d, code) = [d EXCEPT !.flags.is_contiguous = FALSE]
          /\ SetAt(e, code) = [e EXCEPT !.flags.is_contiguous = FALSE]
      BY SMT, <2>4 DEF SetAt
    <3> QED
      BY <1>6, <3>1, Zenon
  <2>5. CASE code = 28
    <3>1. /\ SetAt(d, code) = [d EXCEPT !.flags.bg_color = BLACK]
          /\ SetAt(e, code) = [e EXCEPT !.flags.bg_color = BLACK]
      BY SMT, <2>5 DEF SetAt
    <3> QED
      BY <1>6, <3>1, Zenon
  <2>6. CASE code = 30
    <3>1. /\ SetAt(d, code) = [d EXCEPT !.flags.is_mosaic_held = TRUE]
          /\ SetAt(e, code) = [e EXCEPT !.flags.is_mosaic_held = TRUE]
      BY SMT, <2>6 DEF SetAt
    <3> QED
      BY <1>6, <3>1, Zenon
  <2> QED
    BY <1>8, <2>1, <2>2, <2>3, <2>4, <2>5, <2>6
<1>9. CASE code = 12
  <2>1. /\ SetAt(d, code) = [d EXCEPT !.flags.is_double_height = FALSE,
                                       !.flags.held_mosaic = Space]
        /\ SetAt(e, code) = [e EXCEPT !.flags.is_double_height = FALSE,
                                       !.flags.held_mosaic = Space]
    BY SMT, <1>9 DEF SetAt
  <2> QED
    BY <1>4, <1>5, <2>1, Zenon
<1>10. CASE code \notin {9, 12, 24, 25, 26, 28, 29, 30}
  <2>1. SetAt(d, code) = d /\ SetAt(e, code) = e
    BY SMT, <1>10 DEF SetAt
  <2> QED
    BY <2>1
<1> QED
  BY <1>7, <1>8, <1>9, <1>10

\* A colour, of either mode.
LEMMA SelectAlike ==
    ASSUME NEW d \in DecoderStates, NEW e \in DecoderStates, Alike(d, e),
           NEW alpha \in BOOLEAN
    PROVE  Alike(Select(d, alpha), Select(e, alpha))
<1> DEFINE f == d.flags
           g == e.flags
           x == IF f.is_alpha # alpha THEN Space ELSE f.held_mosaic
           y == IF g.is_alpha # alpha THEN Space ELSE g.held_mosaic
           F == [f EXCEPT !.is_alpha = alpha]
           G == [g EXCEPT !.is_alpha = alpha]
           H == [F EXCEPT !.is_concealed = FALSE]
           K == [G EXCEPT !.is_concealed = FALSE]
<1>1. f \in Flags /\ g \in Flags /\ LikeFlags(f, g)
  BY SMT DEF DecoderStates, Alike
<1>2. LikeHeld(x, y) /\ \A z : LikeHeld(z, z)
  BY <1>1 DEF LikeFlags, LikeHeld
<1>3. Select(d, alpha) = [d EXCEPT !.flags = [H EXCEPT !.held_mosaic = x]]
  BY DEF Select
<1>4. Select(e, alpha) = [e EXCEPT !.flags = [K EXCEPT !.held_mosaic = y]]
  BY DEF Select
<1> HIDE DEF f, g, x, y
<1>5. F \in Flags /\ G \in Flags /\ FALSE \in BOOLEAN
  BY SMT, <1>1 DEF Flags
<1>6. LikeFlags(F, G)
  BY <1>1, <1>2, LikeFlag
<1> HIDE DEF F, G
<1>7. \A E \in Flags, no \in BOOLEAN : [E EXCEPT !.is_concealed = no] \in Flags
  BY SMT DEF Flags
<1>8. H \in Flags /\ K \in Flags
  BY <1>5, <1>7
<1>9. LikeFlags(H, K)
  BY <1>2, <1>5, <1>6, LikeFlag
<1> HIDE DEF H, K
<1>10. LikeFlags([H EXCEPT !.held_mosaic = x], [K EXCEPT !.held_mosaic = y])
  BY <1>2, <1>8, <1>9, LikeFlag
<1> QED
  BY <1>3, <1>4, <1>10, AlikeWithFlags

\* The attributes that take effect at the next cell.
LEMMA SetAfterAlike ==
    ASSUME NEW d \in DecoderStates, NEW e \in DecoderStates, Alike(d, e), NEW code \in 0 .. 127
    PROVE  Alike(SetAfter(d, code), SetAfter(e, code))
<1>1. \A x : LikeHeld(x, x)
  BY DEF LikeHeld
<1>2. CASE code \in AlphaColors
  <2> DEFINE u == Select(d, TRUE)
             v == Select(e, TRUE)
  <2>1. u \in DecoderStates /\ v \in DecoderStates /\ Alike(u, v)
    BY SelectType, SelectAlike
  <2>2. /\ SetAfter(d, code) = [u EXCEPT !.flags.alpha_fg_color = code]
        /\ SetAfter(e, code) = [v EXCEPT !.flags.alpha_fg_color = code]
    BY SMT, <1>2 DEF SetAfter, AlphaColors, MosaicColors
  <2> HIDE DEF u, v
  <2>3. Alike([u EXCEPT !.flags.alpha_fg_color = code], [v EXCEPT !.flags.alpha_fg_color = code])
    BY <1>1, <2>1, FlagAlike
  <2> QED
    BY <2>2, <2>3, Zenon
<1>3. CASE code \in MosaicColors
  <2> DEFINE u == Select(d, FALSE)
             v == Select(e, FALSE)
  <2>1. u \in DecoderStates /\ v \in DecoderStates /\ Alike(u, v)
    BY SelectType, SelectAlike
  <2>2. /\ SetAfter(d, code) = [u EXCEPT !.flags.mosaic_fg_color = code - 16]
        /\ SetAfter(e, code) = [v EXCEPT !.flags.mosaic_fg_color = code - 16]
    BY SMT, <1>3 DEF SetAfter, AlphaColors, MosaicColors
  <2> HIDE DEF u, v
  <2>3. \A x : Alike([u EXCEPT !.flags.mosaic_fg_color = x],
                    [v EXCEPT !.flags.mosaic_fg_color = x])
    BY <1>1, <2>1, FlagAlike
  <2> QED
    BY <2>2, <2>3, Zenon
<1>4. CASE code = 13 /\ CanDoubleHeight(d)
  <2> DEFINE u == [d EXCEPT !.flags.is_double_height = TRUE]
             v == [e EXCEPT !.flags.is_double_height = TRUE]
  <2>1. u \in DecoderStates /\ v \in DecoderStates /\ Alike(u, v)
    BY <1>1, BooleanFlagType, FlagAlike
  <2>2. CanDoubleHeight(e) /\ e.row = d.row
    BY <1>4, LikeReads
  <2>3. /\ SetAfter(d, code) = [u EXCEPT !.dheight_low_row = d.row + 1]
        /\ SetAfter(e, code) = [v EXCEPT !.dheight_low_row = d.row + 1]
    BY SMT, <1>4, <2>2 DEF SetAfter, AlphaColors, MosaicColors
  <2> HIDE DEF u, v
  <2>4. \A r : Alike([u EXCEPT !.dheight_low_row = r], [v EXCEPT !.dheight_low_row = r])
    BY <2>1, AlikeWithPlace
  <2> QED
    BY <2>3, <2>4, Zenon
<1>5. CASE /\ code \notin AlphaColors /\ code \notin MosaicColors
           /\ ~(code = 13 /\ CanDoubleHeight(d))
  <2>1. ~(code = 13 /\ CanDoubleHeight(e))
    BY <1>5, LikeReads
  <2>2. \A x : /\ Alike([d EXCEPT !.flags.is_flashing = x], [e EXCEPT !.flags.is_flashing = x])
               /\ Alike([d EXCEPT !.flags.is_boxing = x], [e EXCEPT !.flags.is_boxing = x])
               /\ Alike([d EXCEPT !.flags.is_mosaic_held = x],
                        [e EXCEPT !.flags.is_mosaic_held = x])
    BY <1>1, FlagAlike
  <2>3. CASE code = 8
    <3>1. /\ SetAfter(d, code) = [d EXCEPT !.flags.is_flashing = TRUE]
          /\ SetAfter(e, code) = [e EXCEPT !.flags.is_flashing = TRUE]
      BY SMT, <1>5, <2>3 DEF SetAfter
    <3> QED
      BY <2>2, <3>1, Zenon
  <2>4. CASE code = 10
    <3>1. /\ SetAfter(d, code) = [d EXCEPT !.flags.is_boxing = FALSE]
          /\ SetAfter(e, code) = [e EXCEPT !.flags.is_boxing = FALSE]
      BY SMT, <1>5, <2>4 DEF SetAfter
    <3> QED
      BY <2>2, <3>1, Zenon
  <2>5. CASE code = 11
    <3>1. /\ SetAfter(d, code) = [d EXCEPT !.flags.is_boxing = TRUE]
          /\ SetAfter(e, code) = [e EXCEPT !.flags.is_boxing = TRUE]
      BY SMT, <1>5, <2>5 DEF SetAfter
    <3> QED
      BY <2>2, <3>1, Zenon
  <2>6. CASE code = 31
    <3>1. /\ SetAfter(d, code) = [d EXCEPT !.flags.is_mosaic_held = FALSE]
          /\ SetAfter(e, code) = [e EXCEPT !.flags.is_mosaic_held = FALSE]
      BY SMT, <1>5, <2>6 DEF SetAfter
    <3> QED
      BY <2>2, <3>1, Zenon
  <2>7. CASE code \notin {8, 10, 11, 31}
    <3>1. SetAfter(d, code) = d /\ SetAfter(e, code) = e
      BY SMT, <1>5, <2>1, <2>7 DEF SetAfter
    <3> QED
      BY <3>1
  <2> QED
    BY <2>3, <2>4, <2>5, <2>6, <2>7
<1> QED
  BY <1>2, <1>3, <1>4, <1>5

-----------------------------------------------------------------------------
(* Drawing.                                                                *)

\* What is held alike is drawn alike.
LEMMA HeldChars ==
    ASSUME NEW a, NEW b, LikeHeld(a, b)
    PROVE  /\ LikeChar(a.single, b.single) /\ LikeChar(a.upper, b.upper)
           /\ LikeChar(a.lower, b.lower)
<1>1. /\ ZeroChar.single = 0 /\ ZeroChar.upper = 0 /\ ZeroChar.lower = 0
  BY DEF ZeroChar
<1> QED
  BY <1>1 DEF LikeHeld, LikeChar, Blanks

\* The attributes that the flags give a cell.
LEMMA LikeAttr ==
    ASSUME NEW d, NEW e, Alike(d, e)
    PROVE  /\ AttrOf(d).color_pair = AttrOf(e).color_pair
           /\ AttrOf(d).has_flash = AttrOf(e).has_flash
           /\ AttrOf(d).has_concealed = AttrOf(e).has_concealed
BY DEF Alike, LikeFlags, AttrOf

\* Cells put at the same positions, alike at each.
LEMMA PutCharsAlike ==
    ASSUME NEW d \in DecoderStates, NEW e \in DecoderStates, Alike(d, e),
           NEW P, NEW new, NEW put, DOMAIN new = P, DOMAIN put = P,
           \A p \in P : LikeCell(new[p], put[p])
    PROVE  Alike(PutChars(d, new), PutChars(e, put))
<1> DEFINE u == PutChars(d, new)
           v == PutChars(e, put)
<1>1. /\ u.flags = d.flags /\ v.flags = e.flags
      /\ u.row = d.row /\ v.row = e.row /\ u.col = d.col /\ v.col = e.col
      /\ u.dheight_low_row = d.dheight_low_row /\ v.dheight_low_row = e.dheight_low_row
  BY PutCharsFrame
<1>2. \A p \in Screen : /\ p \in DOMAIN new => u.cells[p] = new[p]
                        /\ p \notin DOMAIN new => u.cells[p] = d.cells[p]
  BY PutCharsCells
<1>3. \A p \in Screen : /\ p \in DOMAIN put => v.cells[p] = put[p]
                        /\ p \notin DOMAIN put => v.cells[p] = e.cells[p]
  BY PutCharsCells
<1> HIDE DEF u, v
<1>4. LikeCells(u, v)
  BY <1>2, <1>3 DEF LikeCells, Alike
<1>5. Alike(u, v)
  BY <1>1, <1>4 DEF Alike, LikePlace
<1> QED
  BY <1>5 DEF u, v

\* A character, or both halves of it.
LEMMA DrawAlike ==
    ASSUME NEW d \in DecoderStates, NEW e \in DecoderStates, Alike(d, e),
           NEW ch, NEW ck, LikeHeld(ch, ck)
    PROVE  Alike(Draw(d, ch), Draw(e, ck))
<1> DEFINE dh == d.flags.is_double_height
           here == <<d.row, d.col>>
           P == {here} \cup (IF dh THEN {<<d.dheight_low_row, d.col>>} ELSE {})
           Cell(c) == [character |-> c, attr |-> AttrOf(d)]
           Kell(c) == [character |-> c, attr |-> AttrOf(e)]
           new == [p \in P |-> IF p # here THEN Cell(ch.lower)
                               ELSE Cell(IF dh THEN ch.upper ELSE ch.single)]
           put == [p \in P |-> IF p # here THEN Kell(ck.lower)
                               ELSE Kell(IF dh THEN ck.upper ELSE ck.single)]
<1>1. /\ e.row = d.row /\ e.col = d.col /\ e.dheight_low_row = d.dheight_low_row
      /\ e.flags.is_double_height = dh
  BY DEF Alike, LikePlace, LikeFlags
<1>2. Draw(d, ch) = PutChars(d, new)
  BY DEF Draw
<1>3. Draw(e, ck) = PutChars(e, put)
  BY <1>1 DEF Draw
<1>4. \A x, y : LikeChar(x, y) => LikeCell(Cell(x), Kell(y))
  BY LikeAttr DEF LikeCell
<1> HIDE DEF Cell, Kell, P, here, dh
<1>5. \A p \in P : LikeCell(new[p], put[p])
  BY <1>4, HeldChars
<1>6. DOMAIN new = P /\ DOMAIN put = P
  OBVIOUS
<1> HIDE DEF new, put
<1> QED
  BY <1>2, <1>3, <1>5, <1>6, PutCharsAlike

\* The colours of the rest of a row.
LEMMA FillEndAlike ==
    ASSUME NEW d \in DecoderStates, NEW e \in DecoderStates, Alike(d, e)
    PROVE  Alike(FillEnd(d), FillEnd(e))
<1>1. e.row = d.row /\ e.col = d.col
  BY DEF Alike, LikePlace
<1>2. CASE d.col = 0
  BY <1>1, <1>2 DEF FillEnd
<1>3. CASE d.col # 0
  <2> DEFINE before == <<d.row, d.col - 1>>
             a == d.cells[before].attr
             b == e.cells[before].attr
             P == {d.row} \X (d.col .. MAX_COLS - 1)
             A == [ZeroAttr EXCEPT !.bold = a.bold, !.color_pair = a.color_pair]
             B == [ZeroAttr EXCEPT !.bold = b.bold, !.color_pair = b.color_pair]
             new == [p \in P |-> [character |-> d.cells[p].character, attr |-> A]]
             put == [p \in P |-> [character |-> e.cells[p].character, attr |-> B]]
  <2>1. before \in Screen
    BY SMT, <1>3, Neighbours DEF Screen, Cols
  <2>2. FillEnd(d) = PutChars(d, new)
    BY <1>3 DEF FillEnd
  <2>3. FillEnd(e) = PutChars(e, put)
    BY <1>1, <1>3 DEF FillEnd
  <2>4. a.color_pair = b.color_pair
    BY <2>1 DEF Alike, LikeCells, LikeCell
  <2> HIDE DEF a, b
  <2>5. /\ A.color_pair = B.color_pair /\ A.has_flash = B.has_flash
        /\ A.has_concealed = B.has_concealed
    BY <2>4 DEF ZeroAttr
  <2>6. P \subseteq Screen
    BY SMT, Neighbours DEF Screen, Cols
  <2> HIDE DEF A, B, P
  <2>7. \A p \in P : LikeCell(new[p], put[p])
    BY <2>5, <2>6 DEF Alike, LikeCells, LikeCell
  <2>8. DOMAIN new = P /\ DOMAIN put = P
    OBVIOUS
  <2> HIDE DEF new, put
  <2> QED
    BY <2>2, <2>3, <2>7, <2>8, PutCharsAlike
<1> QED
  BY <1>2, <1>3

\* CR and RS.
LEMMA FillOpsAlike ==
    ASSUME NEW d, Sound(d), NEW e, Sound(e), Alike(d, e)
    PROVE  /\ Alike(CarriageReturn(d), CarriageReturn(e))
           /\ Alike(BackToOrigin(d), BackToOrigin(e))
<1> DEFINE u == FillEnd(d)
           v == FillEnd(e)
<1>1. u \in DecoderStates /\ v \in DecoderStates /\ Alike(u, v)
  BY FillEndSound, FillEndAlike DEF Sound
<1>2. CarriageReturn(d) = [u EXCEPT !.col = 0] /\ CarriageReturn(e) = [v EXCEPT !.col = 0]
  BY DEF CarriageReturn
<1>3. /\ BackToOrigin(d) = [u EXCEPT !.col = 0, !.row = 0]
      /\ BackToOrigin(e) = [v EXCEPT !.col = 0, !.row = 0]
  BY DEF BackToOrigin
<1> HIDE DEF u, v
<1>4. Alike([u EXCEPT !.col = 0], [v EXCEPT !.col = 0])
  BY <1>1, AlikeWithPlace
<1>5. Alike([u EXCEPT !.col = 0, !.row = 0], [v EXCEPT !.col = 0, !.row = 0])
  BY <1>1, Edges, MoveAlike
<1> QED
  BY <1>2, <1>3, <1>4, <1>5, Zenon

\* A code, drawn or ignored.
LEMMA DrawCodeAlike ==
    ASSUME NEW d, Sound(d), NEW e, Sound(e), Alike(d, e), NEW code \in 0 .. 127
    PROVE  Alike(DrawCode(d, code), DrawCode(e, code))
<1>1. /\ d \in DecoderStates /\ e \in DecoderStates
      /\ e.row = d.row /\ e.dheight_low_row = d.dheight_low_row
      /\ e.flags.is_alpha = d.flags.is_alpha
      /\ e.flags.is_contiguous = d.flags.is_contiguous
      /\ e.flags.is_mosaic_held = d.flags.is_mosaic_held
      /\ LikeHeld(d.flags.held_mosaic, e.flags.held_mosaic)
      /\ \A x : LikeHeld(x, x)
  BY DEF Sound, Alike, LikePlace, LikeFlags, LikeHeld
<1>2. Alike(DrawAttribute(d), DrawAttribute(e))
  <2> DEFINE a == IF d.flags.is_mosaic_held THEN d.flags.held_mosaic ELSE Space
             b == IF e.flags.is_mosaic_held THEN e.flags.held_mosaic ELSE Space
  <2>1. LikeHeld(a, b)
    BY <1>1
  <2>2. DrawAttribute(d) = Draw(d, a) /\ DrawAttribute(e) = Draw(e, b)
    BY DEF DrawAttribute
  <2> HIDE DEF a, b
  <2> QED
    BY <1>1, <2>1, <2>2, DrawAlike
<1>3. Alike(DrawText(d, code), DrawText(e, code))
  <2> DEFINE ch == GetCharCode(code % 16, code \div 16, d.flags.is_alpha, d.flags.is_contiguous)
             u == Draw(d, ch)
             v == Draw(e, ch)
             a == IF d.flags.is_alpha THEN d.flags.held_mosaic ELSE ch
             b == IF e.flags.is_alpha THEN e.flags.held_mosaic ELSE ch
  <2>1. /\ d.flags.is_alpha \in BOOLEAN /\ d.flags.is_contiguous \in BOOLEAN
    BY SMT, <1>1 DEF DecoderStates, Flags
  <2>2. code % 16 \in RowCodes /\ code \div 16 \in ColCodes
    BY SMT DEF RowCodes, ColCodes
  <2>3. ch \in Chars
    BY <2>1, <2>2, CharType, Zenon
  <2>4. DrawText(d, code) = [u EXCEPT !.flags.held_mosaic = a]
    BY DEF DrawText
  <2>5. DrawText(e, code) = [v EXCEPT !.flags.held_mosaic = b]
    BY <1>1 DEF DrawText
  <2> HIDE DEF ch
  <2>6. LikeHeld(a, b)
    BY <1>1
  <2>7. u \in DecoderStates /\ v \in DecoderStates /\ Alike(u, v)
    BY <1>1, <2>3, DrawSound, DrawAlike DEF Sound
  <2> HIDE DEF u, v, a, b
  <2>8. Alike([u EXCEPT !.flags.held_mosaic = a], [v EXCEPT !.flags.held_mosaic = b])
    BY <2>6, <2>7, FlagAlike
  <2> QED
    BY <2>4, <2>5, <2>8, Zenon
<1> QED
  BY <1>1, <1>2, <1>3 DEF DrawCode

\* A code, displayed.
LEMMA DisplayCodeAlike ==
    ASSUME NEW d, Sound(d), NEW e, Sound(e), Alike(d, e), NEW code \in 0 .. 127
    PROVE  Alike(DisplayCode(d, code), DisplayCode(e, code))
<1> DEFINE At(x) == SetAt(x, code)
           Drawn(x) == DrawCode(x, code)
           After(x) == SetAfter(x, code)
<1>1. Sound(At(d)) /\ Sound(At(e)) /\ Alike(At(d), At(e))
  BY SetAtSound, SetAtAlike DEF Sound
<1>2. \A x, y : Sound(x) /\ Sound(y) /\ Alike(x, y)
                => Sound(Drawn(x)) /\ Sound(Drawn(y)) /\ Alike(Drawn(x), Drawn(y))
  <2>1. \A x : Sound(x) => Sound(Drawn(x))
    BY DrawAttributeSound, DrawTextSound DEF DrawCode
  <2> QED
    BY <2>1, DrawCodeAlike
<1>3. \A x, y : Sound(x) /\ Sound(y) /\ Alike(x, y)
                => Alike(Advance(After(x)), Advance(After(y)))
  <2>1. \A x, y : Sound(x) /\ Sound(y) /\ Alike(x, y)
                  => Sound(After(x)) /\ Sound(After(y)) /\ Alike(After(x), After(y))
    BY SetAfterSound, SetAfterAlike DEF Sound
  <2> HIDE DEF After
  <2> QED
    BY <2>1, AdvanceAlike DEF Sound
<1> HIDE DEF At, Drawn, After
<1>4. Alike(Advance(After(Drawn(At(d)))), Advance(After(Drawn(At(e)))))
  BY <1>1, <1>2, <1>3
<1> QED
  BY <1>4 DEF DisplayCode, At, Drawn, After

-----------------------------------------------------------------------------
(* Bytes, frames and keys.                                                 *)

\* The decoder that vt_show_file() starts with.
Fresh == InitDecoder(FALSE)

\* Fresh decoders are alike, with and without --bold.
LEMMA InitAlike ==
    ASSUME NEW bold, NEW light PROVE Alike(InitDecoder(bold), InitDecoder(light))
<1>1. LikeFlags(InitDecoder(bold).flags, InitDecoder(light).flags)
  BY DEF InitDecoder, LikeFlags, LikeHeld
<1>2. LikePlace(InitDecoder(bold), InitDecoder(light))
  BY DEF InitDecoder, LikePlace
<1>3. LikeCells(InitDecoder(bold), InitDecoder(light))
  BY DEF InitDecoder, LikeCells, LikeCell, LikeChar
<1> QED
  BY <1>1, <1>2, <1>3 DEF Alike

\* A new frame is like a fresh decoder, and the buffer starts with it.
LEMMA NewFrameAlike ==
    ASSUME NEW d \in DecoderStates
    PROVE  Alike(NewFrame(d), Fresh) /\ NewFrame(d).frame_buffer = << >>
<1> DEFINE w == [d EXCEPT !.row = 0, !.col = 0, !.dheight_low_row = -1,
                          !.frame_buffer = << >>, !.screen_revealed_state = FALSE]
           e == ResetFlags(w)
           new == [p \in Screen |-> BlankCell]
           n == NewFrame(d)
           i == Fresh
<1>1. e \in DecoderStates
  BY NewFrameStart
<1>2. n = PutChars(e, new)
  BY DEF NewFrame
<1>3. /\ e.row = 0 /\ e.col = 0 /\ e.dheight_low_row = -1 /\ e.frame_buffer = << >>
  BY SMT DEF ResetFlags, DecoderStates
<1>4. e.flags = DefaultFlags(Space, d.flags.is_cursor_on)
  BY SMT DEF ResetFlags, DecoderStates
<1>5. /\ i.row = 0 /\ i.col = 0 /\ i.dheight_low_row = -1
      /\ i.flags = DefaultFlags(ZeroChar, FALSE)
      /\ \A p \in Screen : i.cells[p] = BlankCell
  BY DEF Fresh, InitDecoder
<1> HIDE DEF w, e, n, i
<1>6. /\ n.row = e.row /\ n.col = e.col /\ n.dheight_low_row = e.dheight_low_row
      /\ n.flags = e.flags /\ n.frame_buffer = e.frame_buffer
  BY <1>1, <1>2, PutCharsFrame
<1>7. \A p \in Screen : n.cells[p] = BlankCell
  <2>1. \A p \in Screen : p \in DOMAIN new => n.cells[p] = new[p]
    BY <1>1, <1>2, PutCharsCells
  <2> QED
    BY <2>1
<1>8. LikeFlags(n.flags, i.flags)
  <2>1. LikeHeld(Space, ZeroChar)
    BY DEF LikeHeld
  <2> QED
    BY <1>4, <1>5, <1>6, <2>1, DefaultAlike
<1>9. LikeCells(n, i)
  BY <1>5, <1>7 DEF LikeCells, LikeCell, LikeChar
<1>10. Alike(n, i) /\ n.frame_buffer = << >>
  BY <1>3, <1>5, <1>6, <1>8, <1>9 DEF Alike, LikePlace
<1> QED
  BY <1>10 DEF n, i

\* vt_put_char() of the cells that are there, for another phase.
LEMMA RedrawAlike ==
    ASSUME NEW d, NEW e \in DecoderStates, NEW P,
           LikePlace(e, d), e.flags = d.flags, e.cells = d.cells,
           e.frame_buffer = d.frame_buffer
    PROVE  Alike(Redraw(e, P), d) /\ Redraw(e, P).frame_buffer = d.frame_buffer
<1> DEFINE new == [p \in P |-> e.cells[p]]
           u == PutChars(e, new)
<1>1. Redraw(e, P) = u
  BY DEF Redraw
<1>2. /\ u.flags = e.flags /\ u.row = e.row /\ u.col = e.col
      /\ u.dheight_low_row = e.dheight_low_row /\ u.frame_buffer = e.frame_buffer
  BY PutCharsFrame
<1>3. \A p \in Screen : /\ p \in DOMAIN new => u.cells[p] = new[p]
                        /\ p \notin DOMAIN new => u.cells[p] = e.cells[p]
  BY PutCharsCells
<1> HIDE DEF u
<1>4. \A p \in Screen : u.cells[p] = e.cells[p]
  BY <1>3
<1>5. LikeCells(u, d)
  BY <1>4 DEF LikeCells, LikeCell, LikeChar
<1>6. LikeFlags(u.flags, d.flags)
  BY <1>2 DEF LikeFlags, LikeHeld
<1> QED
  BY <1>1, <1>2, <1>5, <1>6 DEF Alike, LikePlace

\* The timer and the keys change nothing that a frame determines.
LEMMA TogglesAlike ==
    ASSUME NEW d \in DecoderStates
    PROVE  /\ Alike(FlashToggled(d), d) /\ FlashToggled(d).frame_buffer = d.frame_buffer
           /\ Alike(RevealToggled(d), d) /\ RevealToggled(d).frame_buffer = d.frame_buffer
           /\ \A b : /\ Alike([d EXCEPT !.bold_mode = b], d)
                     /\ [d EXCEPT !.bold_mode = b].frame_buffer = d.frame_buffer
<1>1. Alike(FlashToggled(d), d) /\ FlashToggled(d).frame_buffer = d.frame_buffer
  <2> DEFINE on == ~d.screen_flash_state
             e == [d EXCEPT !.screen_flash_state = on]
             P == {p \in Screen : d.cells[p].attr.has_flash}
  <2>1. e \in DecoderStates
    BY ScreenStateType
  <2>2. /\ LikePlace(e, d) /\ e.flags = d.flags /\ e.cells = d.cells
        /\ e.frame_buffer = d.frame_buffer
    BY SMT DEF LikePlace, DecoderStates
  <2>3. FlashToggled(d) = Redraw(e, P)
    BY DEF FlashToggled
  <2> HIDE DEF e, P
  <2> QED
    BY <2>1, <2>2, <2>3, RedrawAlike
<1>2. Alike(RevealToggled(d), d) /\ RevealToggled(d).frame_buffer = d.frame_buffer
  <2> DEFINE on == ~d.screen_revealed_state
             e == [d EXCEPT !.screen_revealed_state = on]
             P == {p \in Screen : d.cells[p].attr.has_concealed}
  <2>1. e \in DecoderStates
    BY ScreenStateType
  <2>2. /\ LikePlace(e, d) /\ e.flags = d.flags /\ e.cells = d.cells
        /\ e.frame_buffer = d.frame_buffer
    BY SMT DEF LikePlace, DecoderStates
  <2>3. RevealToggled(d) = Redraw(e, P)
    BY DEF RevealToggled
  <2> HIDE DEF e, P
  <2> QED
    BY <2>1, <2>2, <2>3, RedrawAlike
<1>3. ASSUME NEW b
      PROVE  /\ Alike([d EXCEPT !.bold_mode = b], d)
             /\ [d EXCEPT !.bold_mode = b].frame_buffer = d.frame_buffer
  <2> DEFINE e == [d EXCEPT !.bold_mode = b]
  <2>1. /\ LikePlace(e, d) /\ e.flags = d.flags /\ e.cells = d.cells
        /\ e.frame_buffer = d.frame_buffer
    BY SMT DEF LikePlace, DecoderStates
  <2> HIDE DEF e
  <2>2. Alike(e, d) /\ e.frame_buffer = d.frame_buffer
    BY <2>1, AlikeSame
  <2> QED
    BY <2>2 DEF e
<1> QED
  BY <1>1, <1>2, <1>3

\* One handler for each byte, whatever the state.
LEMMA Handlers ==
    ASSUME NEW b \in Bytes
    PROVE  \/ b # 12 /\ \A d : DecodeByte(d, b) = d
           \/ b # 12 /\ \A d : DecodeByte(d, b) = Backspace(d)
           \/ b # 12 /\ \A d : DecodeByte(d, b) = HTab(d)
           \/ b # 12 /\ \A d : DecodeByte(d, b) = LineFeed(d)
           \/ b # 12 /\ \A d : DecodeByte(d, b) = VTab(d)
           \/ b = 12 /\ \A d : DecodeByte(d, b) = FormFeed(d)
           \/ b # 12 /\ \A d : DecodeByte(d, b) = CarriageReturn(d)
           \/ b # 12 /\ \A d : DecodeByte(d, b) = SetCursor(d, TRUE)
           \/ b # 12 /\ \A d : DecodeByte(d, b) = SetCursor(d, FALSE)
           \/ b # 12 /\ \A d : DecodeByte(d, b) = BackToOrigin(d)
           \/ b # 12 /\ \A d : DecodeByte(d, b) = Display7Bit(d, b)
<1>0. b \in 0 .. 255
  BY DecoderAssumption
<1>1. CASE b = 0
  <2>1. \A d : DecodeByte(d, b) = d
    BY SMT, <1>1 DEF DecodeByte
  <2>2. b # 12
    BY <1>1
  <2> QED
    BY <2>1, <2>2, Zenon
<1>2. CASE b = 8
  <2>1. \A d : DecodeByte(d, b) = Backspace(d)
    BY SMT, <1>2 DEF DecodeByte
  <2>2. b # 12
    BY <1>2
  <2> QED
    BY <2>1, <2>2, Zenon
<1>3. CASE b = 9
  <2>1. \A d : DecodeByte(d, b) = HTab(d)
    BY SMT, <1>3 DEF DecodeByte
  <2>2. b # 12
    BY <1>3
  <2> QED
    BY <2>1, <2>2, Zenon
<1>4. CASE b = 10
  <2>1. \A d : DecodeByte(d, b) = LineFeed(d)
    BY SMT, <1>4 DEF DecodeByte
  <2>2. b # 12
    BY <1>4
  <2> QED
    BY <2>1, <2>2, Zenon
<1>5. CASE b = 11
  <2>1. \A d : DecodeByte(d, b) = VTab(d)
    BY SMT, <1>5 DEF DecodeByte
  <2>2. b # 12
    BY <1>5
  <2> QED
    BY <2>1, <2>2, Zenon
<1>6. CASE b = 12
  <2>1. \A d : DecodeByte(d, b) = FormFeed(d)
    BY SMT, <1>6 DEF DecodeByte
  <2> QED
    BY <1>6, <2>1, Zenon
<1>7. CASE b = 13
  <2>1. \A d : DecodeByte(d, b) = CarriageReturn(d)
    BY SMT, <1>7 DEF DecodeByte
  <2>2. b # 12
    BY <1>7
  <2> QED
    BY <2>1, <2>2, Zenon
<1>8. CASE b = 17
  <2>1. \A d : DecodeByte(d, b) = SetCursor(d, TRUE)
    BY SMT, <1>8 DEF DecodeByte
  <2>2. b # 12
    BY <1>8
  <2> QED
    BY <2>1, <2>2, Zenon
<1>9. CASE b = 20
  <2>1. \A d : DecodeByte(d, b) = SetCursor(d, FALSE)
    BY SMT, <1>9 DEF DecodeByte
  <2>2. b # 12
    BY <1>9
  <2> QED
    BY <2>1, <2>2, Zenon
<1>10. CASE b = 30
  <2>1. \A d : DecodeByte(d, b) = BackToOrigin(d)
    BY SMT, <1>10 DEF DecodeByte
  <2>2. b # 12
    BY <1>10
  <2> QED
    BY <2>1, <2>2, Zenon
<1>11. CASE b \notin {0, 8, 9, 10, 11, 12, 13, 17, 20, 30}
  <2>1. /\ b # 0 /\ b # 8 /\ b # 9 /\ b # 10 /\ b # 11 /\ b # 12
        /\ b # 13 /\ b # 17 /\ b # 20 /\ b # 30
    BY <1>11
  <2>2. \A d : DecodeByte(d, b) = Display7Bit(d, b)
    BY <2>1, Zenon DEF DecodeByte
  <2> QED
    BY <2>1, <2>2, Zenon
<1> QED
  BY <1>1, <1>2, <1>3, <1>4, <1>5, <1>6, <1>7, <1>8, <1>9, <1>10, <1>11

\* A byte that is already kept.
LEMMA DecodeByteAlike ==
    ASSUME NEW d, Sound(d), NEW e, Sound(e), Alike(d, e), NEW b \in Bytes
    PROVE  Alike(DecodeByte(d, b), DecodeByte(e, b))
<1>1. d \in DecoderStates /\ e \in DecoderStates
  BY DEF Sound
<1>2. Alike(Display7Bit(d, b), Display7Bit(e, b))
  <2> DEFINE u == [d EXCEPT !.flags.is_escaped = FALSE]
             v == [e EXCEPT !.flags.is_escaped = FALSE]
             code == CodeOf(d, b)
  <2>1. Sound(u) /\ Sound(v) /\ Alike(u, v)
    BY <1>1, QuietFlagSound, SwitchAlike
  <2>2. CodeOf(e, b) = code
    BY DEF CodeOf, Alike, LikeFlags
  <2>3. code \in 0 .. 127
    BY <1>1, CodeType
  <2>4. /\ Display7Bit(d, b) = IF code = ESCAPE THEN [u EXCEPT !.flags.is_escaped = TRUE]
                               ELSE DisplayCode(u, code)
        /\ Display7Bit(e, b) = IF code = ESCAPE THEN [v EXCEPT !.flags.is_escaped = TRUE]
                               ELSE DisplayCode(v, code)
    BY <2>2, Zenon DEF Display7Bit
  <2> HIDE DEF u, v, code
  <2>5. /\ Alike([u EXCEPT !.flags.is_escaped = TRUE], [v EXCEPT !.flags.is_escaped = TRUE])
        /\ Alike(DisplayCode(u, code), DisplayCode(v, code))
    BY <2>1, <2>3, SwitchAlike, DisplayCodeAlike DEF Sound
  <2> QED
    BY <2>4, <2>5, Zenon
<1>3. Alike(FormFeed(d), FormFeed(e))
  <2>1. /\ Alike(NewFrame(d), Fresh) /\ Alike(NewFrame(e), Fresh)
    BY <1>1, NewFrameAlike
  <2> QED
    BY <2>1, AlikeSymmetric, AlikeTransitive DEF FormFeed
<1>4. /\ Alike(SetCursor(d, TRUE), SetCursor(e, TRUE))
      /\ Alike(SetCursor(d, FALSE), SetCursor(e, FALSE))
  BY <1>1, SwitchAlike
<1>5. /\ Alike(Backspace(d), Backspace(e)) /\ Alike(HTab(d), HTab(e))
      /\ Alike(LineFeed(d), LineFeed(e)) /\ Alike(VTab(d), VTab(e))
      /\ Alike(CarriageReturn(d), CarriageReturn(e))
      /\ Alike(BackToOrigin(d), BackToOrigin(e))
  BY <1>1, CursorOpsAlike, FillOpsAlike
<1> QED
  BY <1>2, <1>3, <1>4, <1>5, Handlers

\* A byte takes decoders that are alike to decoders that are alike.
LEMMA DecodeAlike ==
    ASSUME NEW d, Sound(d), NEW e, Sound(e), Alike(d, e), NEW b \in Bytes
    PROVE  Alike(Decode(d, b), Decode(e, b))
<1> DEFINE u == Buffer(d, b)
           v == Buffer(e, b)
<1>1. Sound(u) /\ Sound(v) /\ Alike(u, d) /\ Alike(v, e)
  BY BufferSound, BufferAlike DEF Sound
<1> HIDE DEF u, v
<1>2. Alike(u, v)
  BY <1>1, AlikeSymmetric, AlikeTransitive
<1>3. Alike(DecodeByte(u, b), DecodeByte(v, b))
  BY <1>1, <1>2, DecodeByteAlike
<1> QED
  BY <1>3 DEF Decode, u, v

\* No code that is displayed touches the frame buffer.
LEMMA DisplayCodeBuffer ==
    ASSUME NEW d, Sound(d), NEW code \in 0 .. 127
    PROVE  DisplayCode(d, code).frame_buffer = d.frame_buffer
<1>1. ASSUME NEW x \in DecoderStates
      PROVE  /\ SetAt(x, code).frame_buffer = x.frame_buffer
             /\ SetAfter(x, code).frame_buffer = x.frame_buffer
             /\ Advance(x).frame_buffer = x.frame_buffer
  <2>1. SetAt(x, code).frame_buffer = x.frame_buffer
    BY SMT DEF SetAt, DecoderStates
  <2>2. SetAfter(x, code).frame_buffer = x.frame_buffer
    BY SMT DEF SetAfter, Select, DecoderStates
  <2>3. Advance(x).frame_buffer = x.frame_buffer
    BY SMT DEF Advance, NextRow, ResetFlags, DecoderStates
  <2> QED
    BY <2>1, <2>2, <2>3
<1>2. ASSUME NEW x, Sound(x)
      PROVE  Sound(DrawCode(x, code)) /\ DrawCode(x, code).frame_buffer = x.frame_buffer
  <2>1. x \in DecoderStates
    BY <1>2 DEF Sound
  <2>2. \A ch : Draw(x, ch).frame_buffer = x.frame_buffer
    BY <2>1, PutCharsFrame DEF Draw
  <2>3. DrawText(x, code).frame_buffer = x.frame_buffer
    <3> DEFINE ch == GetCharCode(code % 16, code \div 16,
                                 x.flags.is_alpha, x.flags.is_contiguous)
               u == Draw(x, ch)
               held == IF x.flags.is_alpha THEN x.flags.held_mosaic ELSE ch
    <3>1. /\ x.flags.is_alpha \in BOOLEAN /\ x.flags.is_contiguous \in BOOLEAN
      BY SMT, <2>1 DEF DecoderStates, Flags
    <3>2. code % 16 \in RowCodes /\ code \div 16 \in ColCodes
      BY SMT DEF RowCodes, ColCodes
    <3>3. ch \in Chars
      BY <3>1, <3>2, CharType, Zenon
    <3>4. DrawText(x, code) = [u EXCEPT !.flags.held_mosaic = held]
      BY DEF DrawText
    <3> HIDE DEF ch, held
    <3>5. u \in DecoderStates /\ u.frame_buffer = x.frame_buffer
      BY <1>2, <2>2, <3>3, DrawSound DEF Sound
    <3> HIDE DEF u
    <3> QED
      BY <3>4, <3>5, FlagsFrame
  <2>4. DrawAttribute(x).frame_buffer = x.frame_buffer
    BY <2>2 DEF DrawAttribute
  <2> QED
    BY <1>2, <2>3, <2>4, DrawAttributeSound, DrawTextSound DEF DrawCode
<1> DEFINE a == SetAt(d, code)
           b == DrawCode(a, code)
           c == SetAfter(b, code)
<1>3. Sound(a) /\ a.frame_buffer = d.frame_buffer
  BY <1>1, SetAtSound DEF Sound
<1> HIDE DEF a
<1>4. Sound(b) /\ b.frame_buffer = a.frame_buffer
  BY <1>2, <1>3
<1> HIDE DEF b
<1>5. Sound(c) /\ c.frame_buffer = b.frame_buffer
  BY <1>1, <1>4, SetAfterSound DEF Sound
<1> HIDE DEF c
<1>6. Advance(c).frame_buffer = c.frame_buffer
  BY <1>1, <1>5 DEF Sound
<1> QED
  BY <1>3, <1>4, <1>5, <1>6 DEF DisplayCode, a, b, c

\* Nor do the other codes, but for the form feed that empties it.
LEMMA DecodeByteBuffer ==
    ASSUME NEW d, Sound(d), NEW b \in Bytes
    PROVE  DecodeByte(d, b).frame_buffer = IF b = 12 THEN << >> ELSE d.frame_buffer
<1>1. d \in DecoderStates
  BY DEF Sound
<1>2. \A r, c : /\ [d EXCEPT !.row = r].frame_buffer = d.frame_buffer
                /\ [d EXCEPT !.col = c].frame_buffer = d.frame_buffer
                /\ [d EXCEPT !.col = c, !.row = r].frame_buffer = d.frame_buffer
  BY SMT, <1>1 DEF DecoderStates
<1>3. /\ Backspace(d).frame_buffer = d.frame_buffer
      /\ HTab(d).frame_buffer = d.frame_buffer
      /\ VTab(d).frame_buffer = d.frame_buffer
  BY <1>2 DEF Backspace, HTab, VTab
<1>4. LineFeed(d).frame_buffer = d.frame_buffer
  BY SMT, <1>1 DEF LineFeed, ResetFlags, DecoderStates
<1>5. /\ CarriageReturn(d).frame_buffer = d.frame_buffer
      /\ BackToOrigin(d).frame_buffer = d.frame_buffer
  <2> DEFINE u == FillEnd(d)
  <2>1. u \in DecoderStates
    BY FillEndSound DEF Sound
  <2>2. u.frame_buffer = d.frame_buffer
    BY <1>1, PutCharsFrame DEF FillEnd
  <2> HIDE DEF u
  <2>3. /\ [u EXCEPT !.col = 0].frame_buffer = u.frame_buffer
        /\ [u EXCEPT !.col = 0, !.row = 0].frame_buffer = u.frame_buffer
    BY SMT, <2>1 DEF DecoderStates
  <2> QED
    BY <2>2, <2>3 DEF CarriageReturn, BackToOrigin, u
<1>6. /\ SetCursor(d, TRUE).frame_buffer = d.frame_buffer
      /\ SetCursor(d, FALSE).frame_buffer = d.frame_buffer
  BY <1>1, FlagsFrame DEF SetCursor
<1>7. Display7Bit(d, b).frame_buffer = d.frame_buffer
  <2> DEFINE u == [d EXCEPT !.flags.is_escaped = FALSE]
             v == [u EXCEPT !.flags.is_escaped = TRUE]
  <2>1. Sound(u) /\ u \in DecoderStates /\ u.frame_buffer = d.frame_buffer
    BY <1>1, QuietFlagSound, FlagsFrame DEF Sound
  <2>2. Display7Bit(d, b) = IF CodeOf(d, b) = ESCAPE THEN v
                            ELSE DisplayCode(u, CodeOf(d, b))
    BY DEF Display7Bit
  <2>3. CodeOf(d, b) \in 0 .. 127
    BY <1>1, CodeType
  <2> HIDE DEF u
  <2>4. v.frame_buffer = u.frame_buffer
    BY <2>1, FlagsFrame
  <2> HIDE DEF v
  <2> QED
    BY <2>1, <2>2, <2>3, <2>4, DisplayCodeBuffer
<1>8. FormFeed(d).frame_buffer = << >>
  BY <1>1, NewFrameAlike DEF FormFeed
<1> QED
  BY <1>3, <1>4, <1>5, <1>6, <1>7, <1>8, Handlers

\* A byte with the frame buffer: a form feed empties it, and any other byte is
\* appended while there is room.
LEMMA DecodeBuffer ==
    ASSUME NEW d, Sound(d), NEW b \in Bytes
    PROVE  Decode(d, b).frame_buffer =
               IF b = 12 THEN << >>
               ELSE IF Len(d.frame_buffer) < FRAME_BUFFER_MAX
               THEN Append(d.frame_buffer, b) ELSE d.frame_buffer
<1> DEFINE u == Buffer(d, b)
<1>1. Sound(u)
  BY BufferSound
<1>2. u.frame_buffer = IF Len(d.frame_buffer) < FRAME_BUFFER_MAX
                       THEN Append(d.frame_buffer, b) ELSE d.frame_buffer
  BY SMT DEF Buffer, Sound, DecoderStates
<1> HIDE DEF u
<1>3. DecodeByte(u, b).frame_buffer = IF b = 12 THEN << >> ELSE u.frame_buffer
  BY <1>1, DecodeByteBuffer
<1> QED
  BY <1>2, <1>3 DEF Decode, u

-----------------------------------------------------------------------------
(* The bytes of a frame, decoded from a fresh start.                       *)

\* The decoders that a fresh one goes through on bytes.
IsReplay(trail, bytes) ==
    /\ trail[0] = Fresh
    /\ \A i \in 0 .. Len(bytes) : Sound(trail[i])
    /\ \A i \in 1 .. Len(bytes) : trail[i] = Decode(trail[i - 1], bytes[i])

\* The bytes make a decoder like d of a fresh one.
Makes(bytes, d) ==
    \E trail : IsReplay(trail, bytes) /\ Alike(trail[Len(bytes)], d)

\* A frame that is kept whole can be made of its bytes.
Kept(d) == Len(d.frame_buffer) < FRAME_BUFFER_MAX => Makes(d.frame_buffer, d)

\* The viewer is like what a fresh decoder is after the bytes that were read.
Shows(bytes, left, shown, made) ==
    \E trail :
        /\ IsReplay(trail, bytes) /\ Alike(trail[Len(bytes)], made)
        /\ Len(left) <= Len(bytes)
        /\ \A i \in 1 .. Len(left) : left[i] = bytes[Len(bytes) - Len(left) + i]
        /\ Alike(shown, trail[Len(bytes) - Len(left)])

\* No bytes make a fresh decoder, and anything like one.
LEMMA NothingMakes ==
    ASSUME NEW d, Alike(d, Fresh), NEW bytes, bytes = << >>
    PROVE  Makes(bytes, d)
<1> DEFINE trail == [i \in {0} |-> Fresh]
<1>1. Len(bytes) = 0 /\ trail[0] = Fresh /\ Sound(trail[0])
  BY InitSound DEF Fresh
<1> HIDE DEF trail
<1>2. IsReplay(trail, bytes) /\ Alike(trail[Len(bytes)], d)
  BY <1>1, AlikeSymmetric DEF IsReplay
<1> QED
  BY <1>2 DEF Makes

\* One more byte.
LEMMA AppendMakes ==
    ASSUME NEW bytes \in Seq(Bytes), NEW d, Sound(d), Makes(bytes, d), NEW b \in Bytes
    PROVE  Makes(Append(bytes, b), Decode(d, b))
<1> DEFINE n == Len(bytes)
           more == Append(bytes, b)
<1>1. PICK trail : IsReplay(trail, bytes) /\ Alike(trail[n], d)
  BY DEF Makes
<1>2. n \in Nat /\ Len(more) = n + 1 /\ more[n + 1] = b /\ \A i \in 1 .. n : more[i] = bytes[i]
  OBVIOUS
<1> HIDE DEF n, more
<1> DEFINE next == [i \in 0 .. n + 1 |-> IF i = n + 1 THEN Decode(trail[n], b) ELSE trail[i]]
<1>3. Sound(trail[n]) /\ Sound(Decode(trail[n], b))
  BY <1>1, <1>2, DecodeSound DEF IsReplay, n
<1>4. next[n + 1] = Decode(trail[n], b) /\ \A i \in 0 .. n : next[i] = trail[i]
  BY <1>2
<1> HIDE DEF next
<1>5. next[0] = Fresh
  BY <1>1, <1>2, <1>4 DEF IsReplay
<1>6. \A i \in 0 .. n + 1 : Sound(next[i])
  BY <1>1, <1>2, <1>3, <1>4 DEF IsReplay, n
<1>7. ASSUME NEW i \in 1 .. n + 1
      PROVE  next[i] = Decode(next[i - 1], more[i])
  <2>1. CASE i = n + 1
    BY <1>2, <1>4, <2>1
  <2>2. CASE i # n + 1
    <3>1. i \in 1 .. n /\ i \in 0 .. n /\ i - 1 \in 0 .. n
      BY <1>2, <2>2
    <3>2. trail[i] = Decode(trail[i - 1], bytes[i])
      BY <1>1, <3>1 DEF IsReplay, n
    <3> QED
      BY <1>2, <1>4, <3>1, <3>2
  <2> QED
    BY <2>1, <2>2
<1>8. IsReplay(next, more)
  BY <1>2, <1>5, <1>6, <1>7 DEF IsReplay
<1>9. Alike(next[Len(more)], Decode(d, b))
  BY <1>1, <1>2, <1>3, <1>4, DecodeAlike
<1> QED
  BY <1>8, <1>9 DEF Makes, more

\* What makes a decoder makes all that is like it.
LEMMA LikeMakes ==
    ASSUME NEW bytes, NEW d, Makes(bytes, d), NEW e, Alike(e, d)
    PROVE  Makes(bytes, e)
BY AlikeSymmetric, AlikeTransitive DEF Makes

\* A byte of the live session: the decoder is at all times what its frame
\* buffer makes, as long as the buffer is not full.
LEMMA DecodeKept ==
    ASSUME NEW d, Sound(d), Kept(d), NEW b \in Bytes
    PROVE  Kept(Decode(d, b))
<1> DEFINE e == Decode(d, b)
           bytes == d.frame_buffer
<1>1. bytes \in Seq(Bytes) /\ Len(bytes) \in Nat
  BY SMT DEF Sound, DecoderStates
<1>2. e.frame_buffer = IF b = 12 THEN << >>
                       ELSE IF Len(bytes) < FRAME_BUFFER_MAX THEN Append(bytes, b) ELSE bytes
  BY DecodeBuffer
<1>3. CASE b = 12
  <2> DEFINE u == Buffer(d, b)
  <2>1. u \in DecoderStates
    BY BufferSound DEF Sound
  <2>2. e = NewFrame(u)
    BY SMT, <1>3 DEF Decode, DecodeByte, FormFeed
  <2> HIDE DEF e, u
  <2>3. Makes(e.frame_buffer, e)
    BY <2>1, <2>2, NewFrameAlike, NothingMakes
  <2> QED
    BY <2>3 DEF Kept, e
<1>4. CASE b # 12 /\ Len(bytes) < FRAME_BUFFER_MAX
  <2>1. Makes(Append(bytes, b), e)
    BY <1>1, <1>4, AppendMakes DEF Kept
  <2> QED
    BY <1>2, <1>4, <2>1 DEF Kept
<1>5. CASE b # 12 /\ ~(Len(bytes) < FRAME_BUFFER_MAX)
  BY <1>2, <1>5 DEF Kept
<1> QED
  BY <1>3, <1>4, <1>5

\* A key or a tick.
LEMMA QuietKept ==
    ASSUME NEW d, Kept(d), NEW e, Alike(e, d), e.frame_buffer = d.frame_buffer
    PROVE  Kept(e)
BY LikeMakes DEF Kept

\* A byte of the file.
LEMMA ReadShows ==
    ASSUME NEW bytes \in Seq(Bytes), NEW left \in Seq(Bytes), left # << >>,
           NEW shown, Sound(shown), NEW made, Shows(bytes, left, shown, made)
    PROVE  Shows(bytes, Tail(left), Decode(shown, Head(left)), made)
<1> DEFINE n == Len(bytes)
           m == Len(left)
           b == Head(left)
           rest == Tail(left)
           k == n - m
<1>1. PICK trail :
          /\ IsReplay(trail, bytes) /\ Alike(trail[n], made)
          /\ m <= n
          /\ \A i \in 1 .. m : left[i] = bytes[k + i]
          /\ Alike(shown, trail[k])
  BY DEF Shows
<1>2. /\ n \in Nat /\ m \in Nat /\ m >= 1 /\ b = left[1] /\ b \in Bytes
      /\ Len(rest) = m - 1 /\ \A i \in 1 .. m - 1 : rest[i] = left[i + 1]
  OBVIOUS
<1>3. k \in 0 .. n /\ k + 1 \in 1 .. n /\ b = bytes[k + 1]
  BY <1>1, <1>2
<1>4. trail[k + 1] = Decode(trail[k], b) /\ Sound(trail[k])
  BY <1>1, <1>3 DEF IsReplay
<1>5. Alike(Decode(shown, b), trail[k + 1])
  BY <1>1, <1>2, <1>4, DecodeAlike
<1>6. \A i \in 1 .. m - 1 : rest[i] = bytes[k + 1 + i]
  BY <1>1, <1>2
<1>7. n - Len(rest) = k + 1 /\ Len(rest) <= n
  BY <1>1, <1>2
<1> HIDE DEF n, m, b, rest, k
<1>8. /\ IsReplay(trail, bytes) /\ Alike(trail[Len(bytes)], made)
      /\ Len(rest) <= Len(bytes)
      /\ \A i \in 1 .. Len(rest) : rest[i] = bytes[Len(bytes) - Len(rest) + i]
      /\ Alike(Decode(shown, b), trail[Len(bytes) - Len(rest)])
  BY <1>1, <1>2, <1>5, <1>6, <1>7 DEF n
<1> QED
  BY <1>8 DEF Shows, b, rest

-----------------------------------------------------------------------------
(* The invariant and the theorem.                                          *)

FileInv ==
    /\ Sound(decoder) /\ Sound(original) /\ Sound(viewer)
    /\ stage \in {"live", "saved", "viewing"}
    /\ file \in Seq(Bytes) /\ unread \in Seq(Bytes)
    /\ Kept(decoder)
    /\ Complete => Makes(file, original)
    /\ stage # "viewing" => unread = << >>
    /\ stage = "viewing" /\ Complete => Shows(file, unread, viewer, original)

\* A fresh session.
LEMMA FileInitInv == FileInit => FileInv
<1> SUFFICES ASSUME FileInit PROVE FileInv
  OBVIOUS
<1>1. PICK bold \in BOOLEAN : decoder = InitDecoder(bold)
  BY DEF FileInit, Init
<1>2. Sound(decoder) /\ Sound(original) /\ Sound(viewer)
  BY <1>1, InitSound DEF FileInit
<1>3. Alike(decoder, Fresh)
  BY <1>1, InitAlike DEF Fresh
<1>4. decoder.frame_buffer = << >> /\ << >> \in Seq(Bytes)
  BY <1>1 DEF InitDecoder
<1>5. Makes(decoder.frame_buffer, decoder)
  BY <1>3, <1>4, NothingMakes
<1> QED
  BY <1>2, <1>4, <1>5 DEF FileInit, FileInv, Kept

\* Every step of the session and of the viewer preserves the invariant.
LEMMA FileStep == FileInv /\ [FileNext]_vars => FileInv'
<1> SUFFICES ASSUME FileInv, [FileNext]_vars PROVE FileInv'
  OBVIOUS
<1>1. CASE Live
  <2>1. /\ stage # "viewing" /\ stage' = stage /\ file' = file /\ original' = original
        /\ viewer' = viewer /\ unread' = unread /\ Next
    BY <1>1 DEF Live
  <2>2. Sound(decoder')
    BY <2>1, StepSound DEF FileInv
  <2>3. Kept(decoder')
    <3>1. ASSUME NEW b \in Bytes, Receive(b) PROVE Kept(decoder')
      BY <3>1, DecodeKept DEF Receive, FileInv
    <3>2. decoder \in DecoderStates
      BY DEF FileInv, Sound
    <3>3. CASE ToggleFlash
      BY <3>2, <3>3, TogglesAlike, QuietKept DEF ToggleFlash, FileInv
    <3>4. CASE ToggleReveal
      BY <3>2, <3>4, TogglesAlike, QuietKept DEF ToggleReveal, FileInv
    <3>5. CASE ToggleBold
      <4> DEFINE on == ~decoder.bold_mode
      <4>1. decoder' = [decoder EXCEPT !.bold_mode = on]
        BY <3>5 DEF ToggleBold
      <4> HIDE DEF on
      <4> QED
        BY <3>2, <4>1, TogglesAlike, QuietKept DEF FileInv
    <3> QED
      BY <2>1, <3>1, <3>3, <3>4, <3>5 DEF Next
  <2> QED
    BY <2>1, <2>2, <2>3 DEF FileInv, Complete
<1>2. CASE SaveFrame
  <2>1. decoder.frame_buffer \in Seq(Bytes)
    BY SMT DEF FileInv, Sound, DecoderStates
  <2> QED
    BY <1>2, <2>1 DEF SaveFrame, FileInv, Complete, Kept
<1>3. CASE ShowFile
  <2>1. Sound(viewer')
    BY <1>3, InitSound DEF ShowFile
  <2>2. ASSUME Complete PROVE Shows(file, file, Fresh, original)
    <3>1. PICK trail : IsReplay(trail, file) /\ Alike(trail[Len(file)], original)
      BY <2>2 DEF FileInv, Makes
    <3>2. Len(file) \in Nat /\ Alike(Fresh, trail[0])
      BY <3>1, AlikeReflexive DEF IsReplay, FileInv
    <3> QED
      BY <3>1, <3>2 DEF Shows
  <2> QED
    BY <1>3, <2>1, <2>2 DEF ShowFile, FileInv, Complete, Fresh
<1>4. CASE ReadFile
  <2>1. Head(unread) \in Bytes /\ Tail(unread) \in Seq(Bytes) /\ stage = "viewing"
    BY <1>4 DEF ReadFile, FileInv
  <2>2. Sound(viewer')
    BY <1>4, <2>1, DecodeSound DEF ReadFile, FileInv
  <2>3. Complete => Shows(file, unread', viewer', original)
    BY <1>4, <2>1, ReadShows DEF ReadFile, FileInv
  <2> QED
    BY <1>4, <2>1, <2>2, <2>3 DEF ReadFile, FileInv, Complete
<1>5. ASSUME stage = "viewing", Sound(viewer'), Alike(viewer', viewer),
             UNCHANGED <<decoder, stage, file, original, unread>>
      PROVE  FileInv'
  <2>1. Complete => Shows(file, unread, viewer', original)
    BY <1>5, AlikeTransitive DEF FileInv, Shows
  <2> QED
    BY <1>5, <2>1 DEF FileInv, Complete
<1>6. CASE ViewerReveal
  BY <1>5, <1>6, TogglesAlike, RevealToggledSound DEF ViewerReveal, Viewing, FileInv, Sound
<1>7. CASE ViewerFlash
  BY <1>5, <1>7, TogglesAlike, FlashToggledSound DEF ViewerFlash, Viewing, FileInv, Sound
<1>8. CASE UNCHANGED vars
  BY <1>8 DEF vars, FileInv, Complete
<1> QED
  BY <1>1, <1>2, <1>3, <1>4, <1>6, <1>7, <1>8 DEF FileNext

\* The invariant, once the file has been read, is that the frame is shown.
LEMMA FileInvShows == FileInv => ReplayShowsSavedFrame
<1> SUFFICES ASSUME FileInv, Viewing, Complete
             PROVE  /\ \A p \in Screen : Look(viewer.cells[p]) = Look(original.cells[p])
                    /\ viewer.row = original.row /\ viewer.col = original.col
                    /\ viewer.dheight_low_row = original.dheight_low_row
  BY DEF ReplayShowsSavedFrame
<1>1. Alike(viewer, original)
  <2>1. stage = "viewing" /\ Len(unread) = 0 /\ Len(file) \in Nat
    BY DEF Viewing, FileInv
  <2>2. PICK trail : /\ Alike(trail[Len(file)], original)
                     /\ Alike(viewer, trail[Len(file) - Len(unread)])
    BY <2>1 DEF FileInv, Shows
  <2> QED
    BY <2>1, <2>2, AlikeTransitive
<1>2. \A p \in Screen : viewer.cells[p] \in Cells /\ original.cells[p] \in Cells
  BY SMT DEF FileInv, Sound, DecoderStates
<1> QED
  BY <1>1, <1>2, LikeCellsLook DEF Alike, LikePlace, LikeCells

\* FileInv holds in every reachable state.
THEOREM FileInvariance == FileSpec => []FileInv
BY FileInitInv, FileStep, PTL DEF FileSpec

\* Whatever the host sent and the user typed before and after CTRL-f, a frame
\* of fewer bytes than the buffer holds is shown by --file as it was saved.
THEOREM ReplayIsFaithful == FileSpec => []ReplayShowsSavedFrame
BY FileInvariance, FileInvShows, PTL
=============================================================================
