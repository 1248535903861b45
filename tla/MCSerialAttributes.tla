------------------------- MODULE MCSerialAttributes -------------------------
(***************************************************************************)
(* An instance of SerialAttributes for TLC: frames of the 8-bit forms of   *)
(* the codes, of three kinds that each vary what interacts.                *)
(***************************************************************************)
EXTENDS SerialAttributes

\* Every attribute that matters within a row, a mosaic and a letter.
AllBytes == {129, 145, 136, 137, 140, 141, 152, 154, 156, 157, 158, 159, 33, 65}

\* A first row of at most 4 codes, whatever they are.
AttributesVary(frame) == Len(frame) <= 4

\* A first row of hold, mosaics, capitals and both heights.
HeldBytes == {140, 141, 145, 33, 65, 158}
HeldMosaicsVary(frame) ==
    Len(frame) <= MAX_COLS /\ \A i \in DOMAIN frame : frame[i] \in HeldBytes

\* Rows with both heights, a mosaic colour and a mosaic in the last two places.
TallBytes == {140, 141, 145, 33}
HeightsVary(frame) ==
    \A i \in DOMAIN frame :
        frame[i] \in IF (i - 1) % MAX_COLS >= MAX_COLS - 2 THEN TallBytes ELSE {33}

\* What is concealed is revealed in the first kind of frames, which may end there.
SampleNext ==
    /\ FrameNext
    /\ LET frame == decoder'.frame_buffer
       IN  IF frame = decoder.frame_buffer THEN AttributesVary(frame)
           ELSE /\ ~decoder.screen_revealed_state
                /\ AttributesVary(frame) \/ HeldMosaicsVary(frame) \/ HeightsVary(frame)

SampleSpec == FrameInit /\ [][SampleNext]_decoder
=============================================================================
