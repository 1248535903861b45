--------------------------- MODULE ScreenCursor ---------------------------
(***************************************************************************)
(* What a Viewdata display promises about its cursor: the positions of the *)
(* screen, in reading order, form a ring.  Displaying a character or a     *)
(* horizontal tab moves one place on and a backspace one place back, a     *)
(* line feed and a vertical tab move by a whole row, a carriage return     *)
(* goes to the start of the row and a new frame to the origin.  Decoder    *)
(* implements this with a row and a column that wrap separately.           *)
(***************************************************************************)
EXTENDS Integers

CONSTANTS Height, Width     \* rows and columns, both positive

VARIABLE pos

Size == Height * Width

\* The position that is k places after p on the ring, for k up to Size.
After(p, k) == IF p + k < Size THEN p + k ELSE p + k - Size

CursorInit == pos = 0

Forward  == pos' = After(pos, 1)
Back     == pos' = After(pos, Size - 1)
Down     == pos' = After(pos, Width)
Up       == pos' = After(pos, Size - Width)
RowStart == \E r \in 0 .. Height - 1 :
                pos' = r * Width /\ pos \in pos' .. pos' + Width - 1
Origin   == pos' = 0

CursorNext == Forward \/ Back \/ Down \/ Up \/ RowStart \/ Origin

CursorSpec == CursorInit /\ [][CursorNext]_pos
=============================================================================
