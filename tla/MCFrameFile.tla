---------------------------- MODULE MCFrameFile ----------------------------
(***************************************************************************)
(* Instances of FrameFile for TLC: the host and the user of the live       *)
(* session together take MaxInputs steps.                                  *)
(***************************************************************************)
EXTENDS FrameFile

CONSTANT MaxInputs      \* bound on the steps of the live session

VARIABLE inputs

\* Frames, rows, the cursor, double height, hold, a mosaic and a letter.
FrameBytes == {8, 12, 13, 27, 141, 145, 152, 158, 33, 65}

MCInit == FileInit /\ inputs = 0

MCNext ==
    \/ /\ inputs < MaxInputs
       /\ inputs' = inputs + 1
       /\ Live
    \/ /\ SaveFrame \/ ShowFile \/ ReadFile \/ ViewerReveal \/ ViewerFlash
       /\ UNCHANGED inputs

MCSpec == MCInit /\ [][MCNext]_<<vars, inputs>>
=============================================================================
