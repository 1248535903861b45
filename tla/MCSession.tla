----------------------------- MODULE MCSession -----------------------------
(***************************************************************************)
(* Instances of Session for TLC: short files and a user who types MaxKeys  *)
(* keys, in MCPatientSpec after waiting for a page and in HastySpec at any *)
(* moment.                                                                 *)
(***************************************************************************)
EXTENDS ViewdataHost

CONSTANT MaxKeys        \* bound on the keys that the user types

VARIABLE keys

\* Programs '1', of two frames, and '2', of one: characters with and without
\* a shift, the bar, three quarters, a space, a space under a shift and the
\* end of a line.
TwoPrograms == {49, 50}
TwoFiles    == (49 :> <<65, 200, 124>>) @@ (50 :> <<13, 160>>)
TwoEnds     == (49 :> <<2, 3>>) @@ (50 :> <<2>>)
OneProgram  == {49}
OneFile     == (49 :> <<32>>)
OneEnd      == (49 :> <<1>>)

PieceData(p, n) ==
    LET piece == Piece(p, n - 1)
    IN  FlattenSeq([i \in DOMAIN piece |-> Encoded(piece[i])]) \o Ending(p, n)

\* A page of text has the bar, once before a code that is not known and once before
\* that of the bar.
TeleTransmission ==
    (TextPage :> <<12, CHAR_BAR, 63, CHAR_BAR, BAR, 65>>) @@
    [page \in TelePages \ {TextPage} |->
        LET p == page.program  n == page.frame
        IN  Transmitted(<<12>> \o
                Frame(n, IF n = 1 THEN HeaderData(p) ELSE PieceData(p, n)))]

\* The pages, encoded once.
Encodings == TeleTransmission

\* CTRL-g, CTRL-r, the key of the next frame, and the programs.
AllKeys == {KEY_DOWNLOAD, 18, MORE, 49, 50}
FewKeys == {KEY_DOWNLOAD, MORE, 49}

MCInit == Init /\ keys = 0

Type(key) ==
    /\ keys < MaxKeys
    /\ keys' = keys + 1
    /\ TypeKey(key)

\* Every action but the user's.
Unattended ==
    /\ Program \/ HostAnswers \/ HostCloses \/ TimerExpires \/ Signal
    /\ UNCHANGED keys

MCVars == <<vars, keys>>
MCFairness ==
    /\ WF_MCVars(Program /\ UNCHANGED keys)
    /\ WF_MCVars(TimerExpires /\ UNCHANGED keys)
    /\ WF_MCVars(HostAnswers /\ UNCHANGED keys)

MCPatientNext == Unattended \/ \E key \in Keys : Patient(key) /\ Type(key)
MCPatientSpec == MCInit /\ [][MCPatientNext]_MCVars /\ MCFairness

HastyNext == Unattended \/ \E key \in Keys : Type(key)
HastySpec == MCInit /\ [][HastyNext]_MCVars /\ MCFairness
=============================================================================
