---------------------------- MODULE SerialClaims ----------------------------
(***************************************************************************)
(* What the comment of decoder.h says of held mosaics and the decoder does *)
(* not do.  The run sends the codes of one case of HoldDiffers.            *)
(***************************************************************************)
EXTENDS MCSerialAttributes

\* Hold, a mosaic colour, a mosaic and normal height.
NormalHeight == {145, 33, 158, 140}

\* decoder.h:78-82: where the rule of the held mosaic allows a substitution, the
\* character drawn is the one that the rule names.
HeldMosaicRule ==
    \A r \in Rows :
        LET s == CodesOf(decoder.frame_buffer, r)
        IN  \A p \in DOMAIN s :
                s[p] < 32 /\ IsHeld(s, p) /\ ~IsAlpha(s, p)
                    /\ ~IsLower(decoder.frame_buffer)[r] /\ ~HeightDiffers(decoder.frame_buffer)
                => decoder.cells[<<r, p - 1>>] = CellAt(decoder.frame_buffer, r, p)
=============================================================================
