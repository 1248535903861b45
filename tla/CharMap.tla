------------------------------ MODULE CharMap ------------------------------
(***************************************************************************)
(* The two fonts: src/bedstead.c and src/galax.c.  A font turns a Viewdata *)
(* character code, split into its column (the top three bits) and its row  *)
(* (the low four bits), into the code point that the terminal displays,    *)
(* given whether alphanumerics or mosaics are selected, whether mosaics    *)
(* are contiguous, and which half of a double height character is wanted.  *)
(*                                                                         *)
(* A font is a function, as struct vt_decoder_state holds it: a pointer    *)
(* map_char that the decoder is parameterised by.                          *)
(***************************************************************************)
EXTENDS Integers

RowCodes == 0 .. 15
ColCodes == 0 .. 7

\* <<row_code, col_code, is_alpha, is_contiguous, is_dheight, is_dheight_lower>>
MapKeys == RowCodes \X ColCodes \X BOOLEAN \X BOOLEAN \X BOOLEAN \X BOOLEAN

CodePoints == Nat     \* wchar_t
SPACE == 32

-----------------------------------------------------------------------------
(* Bedstead.  It has no double height glyphs: an upper half looks like the *)
(* single height character and a lower half is blank.                      *)

BedMosaic(row, col, contiguous) ==
    (CASE col = 2 -> \hEE00 [] col = 3 -> \hEE10
       [] col = 6 -> \hEE40 [] col = 7 -> \hEE50)
    + (IF contiguous THEN 0 ELSE \h20) + row

BedCapital(row) ==     \* column 5, the same for alphanumerics and mosaics
    CASE row = 11 -> \h2190 [] row = 12 -> \hBD   [] row = 13 -> \h2192
      [] row = 14 -> \h2191 [] row = 15 -> \h23
      [] OTHER -> \h50 + row

BedAlpha(row, col) ==
    CASE col = 2 /\ row = 3  -> \hA3
      [] col = 6 /\ row = 0  -> \h2013
      [] col = 7 /\ row = 11 -> \hBC
      [] col = 7 /\ row = 12 -> \h2016
      [] col = 7 /\ row = 13 -> \hBE
      [] col = 7 /\ row = 14 -> \hF7
      [] col = 7 /\ row = 15 -> \h25A0
      [] OTHER -> 16 * col + row

BedMapChar ==
    [k \in MapKeys |->
        LET row == k[1]  col == k[2]  is_alpha == k[3]
        IN  IF (k[5] /\ k[6]) \/ col \in {0, 1} THEN SPACE
            ELSE CASE col = 4 -> \h40 + row
                   [] col = 5 -> BedCapital(row)
                   [] col \notin {4, 5} /\ is_alpha  -> BedAlpha(row, col)
                   [] col \notin {4, 5} /\ ~is_alpha -> BedMosaic(row, col, k[4])]

-----------------------------------------------------------------------------
(* Galax.  Every glyph has an upper and a lower half at a fixed distance.  *)

GalMosaic(row, col, contiguous, dheight, lower) ==
    (CASE col = 2 -> \hE200 + row [] col = 3 -> \hE210 + row
       [] col = 6 -> \hE220 + row [] col = 7 -> \hE230 + row
       [] OTHER -> SPACE)
    + (IF contiguous THEN 0 ELSE \hC0)
    + (IF ~dheight THEN 0 ELSE IF lower THEN \h80 ELSE \h40)

GalAlpha(row, col, dheight, lower) ==
    (CASE col \in {0, 1}         -> SPACE
       [] col = 2 /\ row = 3     -> \hA3
       [] col = 5 /\ row = 12    -> \hBD
       [] col = 5 /\ row = 15    -> \h23
       [] col = 7 /\ row = 11    -> \hBC
       [] col = 7 /\ row = 13    -> \hBE
       [] col = 7 /\ row = 14    -> \hF7
       [] col = 7 /\ row = 15    -> \hB6
       [] OTHER                  -> 16 * col + row)
    + (IF ~dheight THEN 0 ELSE IF lower THEN \hE100 ELSE \hE000)

\* Capitals (columns 4 and 5) are alphanumerics whatever is selected.
GalMapChar ==
    [k \in MapKeys |->
        IF k[3] \/ k[2] \in {4, 5} THEN GalAlpha(k[1], k[2], k[5], k[6])
        ELSE GalMosaic(k[1], k[2], k[4], k[5], k[6])]
=============================================================================
