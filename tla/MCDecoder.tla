----------------------------- MODULE MCDecoder -----------------------------
(***************************************************************************)
(* Instances of Decoder for TLC: a small screen and hosts that each send   *)
(* the bytes that matter to one group of properties.  The flash timer may  *)
(* expire at any moment; the host and the user together take MaxInputs     *)
(* steps.                                                                  *)
(***************************************************************************)
EXTENDS Decoder

CONSTANT MaxInputs      \* bound on the bytes received and the keys typed

VARIABLES inputs, host

\* Cursor movement, double height (escaped and as an 8-bit code) and text.
HeightHost == {8, 9, 10, 11, 12, 13, 27, 30, 65, 77, 140, 141}

\* Concealed and flashing text and what redraws it.
DisplayHost == {8, 12, 13, 65, 129, 136, 137, 152}

\* Colours, mosaics and hold, across rows and frames.
MosaicHost ==
    {0, 8, 10, 12, 17, 20, 30, 33, 65, 128, 129, 140, 145, 154, 157, 158}

AllBytes == HeightHost \cup DisplayHost \cup MosaicHost

MCInit == Init /\ inputs = 0 /\ host \in {HeightHost, DisplayHost, MosaicHost}

MCNext ==
    \/ /\ inputs < MaxInputs
       /\ inputs' = inputs + 1
       /\ \/ \E b \in host : Receive(b)
          \/ ToggleReveal
          \/ ToggleBold
       /\ UNCHANGED host
    \/ /\ ToggleFlash
       /\ UNCHANGED <<inputs, host>>

MCSpec == MCInit /\ [][MCNext]_<<decoder, inputs, host>>
=============================================================================
