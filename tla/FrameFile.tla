----------------------------- MODULE FrameFile -----------------------------
(***************************************************************************)
(* A frame saved with CTRL-f and shown with --file: the decoder of a live  *)
(* session keeps the raw bytes of the frame, vt_decoder_save() writes them *)
(* to a file and vt_show_file() decodes them from a fresh start, possibly  *)
(* in another run of the program.  The session is not followed any further *)
(* once the viewer has started.                                            *)
(*                                                                         *)
(* Both runs have the same font and colours.  Left out: the name of the    *)
(* file, bytes that fail to be written, and --bold for the viewer, which   *)
(* only changes the bold of its cells.                                     *)
(***************************************************************************)
EXTENDS Decoder

VARIABLES
    stage,      \* "live", then "saved" once there is a file, then "viewing"
    file,       \* the saved bytes
    original,   \* history: the live decoder when it saved them
    viewer,     \* the decoder of vt_show_file()
    unread      \* the bytes that vt_show_file() has not read yet

vars == <<decoder, stage, file, original, viewer, unread>>

FileInit ==
    /\ Init
    /\ stage = "live"
    /\ file = << >> /\ original = decoder
    /\ viewer = InitDecoder(FALSE) /\ unread = << >>

\* The host, the timer and the keys of the live session.
Live == Next /\ stage # "viewing" /\ UNCHANGED <<stage, file, original, viewer, unread>>

\* vt_save(): an existing file is overwritten.
SaveFrame ==
    /\ stage \in {"live", "saved"}
    /\ stage' = "saved"
    /\ file' = decoder.frame_buffer
    /\ original' = decoder
    /\ UNCHANGED <<decoder, viewer, unread>>

\* vidtex --file: CTRL-b is not a key here.
ShowFile ==
    /\ stage = "saved"
    /\ stage' = "viewing"
    /\ viewer' = InitDecoder(FALSE)
    /\ unread' = file
    /\ UNCHANGED <<decoder, file, original>>

\* The file is decoded to its end before the keyboard or the timer is looked at.
ReadFile ==
    /\ unread # << >>
    /\ viewer' = Decode(viewer, Head(unread))
    /\ unread' = Tail(unread)
    /\ UNCHANGED <<decoder, stage, file, original>>

Viewing == stage = "viewing" /\ unread = << >>

ViewerReveal ==
    /\ Viewing
    /\ viewer' = RevealToggled(viewer)
    /\ UNCHANGED <<decoder, stage, file, original, unread>>
ViewerFlash ==
    /\ Viewing
    /\ viewer' = FlashToggled(viewer)
    /\ UNCHANGED <<decoder, stage, file, original, unread>>

FileNext ==
    Live \/ SaveFrame \/ ShowFile \/ ReadFile \/ ViewerReveal \/ ViewerFlash

FileSpec == FileInit /\ [][FileNext]_vars

-----------------------------------------------------------------------------

\* The cells of a frame that was kept whole.
Complete == Len(file) < FRAME_BUFFER_MAX

\* A cell as far as the file determines it: bold is a key of the session.
Content(cell) ==
    [character |-> cell.character,
     attr |-> [cell.attr EXCEPT !.bold = FALSE]]

\* The same, for a reader to whom NUL looks like a space of any height.
Blanks == {0, Space.single, Space.upper, Space.lower}
Look(cell) ==
    [Content(cell) EXCEPT
        !.character = IF cell.character \in Blanks THEN SPACE ELSE cell.character]

\* Wherever in a frame CTRL-f was typed, and whatever the decoder did before
\* the frame began, the viewer ends with the cells and the cursor as they were: the
\* frame buffer holds all that the frame was made from, and nothing of an
\* earlier frame or of the flags it left behind shows through.  A NUL counts as
\* a space here: vt_decoder_init() starts the first frame before it computes
\* state->space, so that a mosaic held there is a NUL, and a space later.
ReplayShowsSavedFrame ==
    Viewing /\ Complete =>
        /\ \A p \in Screen : Look(viewer.cells[p]) = Look(original.cells[p])
        /\ viewer.row = original.row /\ viewer.col = original.col
        /\ viewer.dheight_low_row = original.dheight_low_row
=============================================================================
