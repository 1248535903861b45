---------------------------- MODULE ViewdataHost ----------------------------
(***************************************************************************)
(* What a Viewdata host sends: an external service.  It answers every key  *)
(* with a frame.  A telesoftware page is a header frame that names a file  *)
(* and then the frames with its content, in the format that telesoft.c     *)
(* decodes; every other page is text.  The module gives Session this host  *)
(* and says what a user gets from it.                                      *)
(***************************************************************************)
EXTENDS Session, SequencesExt

CONSTANTS
    Programs,       \* the telesoftware pages, named for the key that leads there
    Content,        \* for each of them its content
    Ends            \* and how much of it there is up to the end of each data frame

INDEX == 48     \* '0', the key of a page of text

FileName(p) == <<p>>

\* How much of the content its first n data frames hold, and what the next holds.
UpTo(p, n)  == IF n = 0 THEN 0 ELSE Ends[p][n]
Piece(p, n) == SubSeq(Content[p], UpTo(p, n - 1) + 1, UpTo(p, n))

\* A frame of a page: the header is frame 1, and a page of text has frame 0.
Page(p, frame) == [program |-> p, frame |-> frame]
TextPage  == Page(INDEX, 0)
Frames(p) == 1 + Len(Ends[p])
TelePages == {TextPage} \cup UNION {{Page(p, n) : n \in 1 .. Frames(p)} : p \in Programs}

\* Where a key leads from a page.
TelePageAfter ==
    [pk \in TelePages \X Ascii |->
        LET page == pk[1]  key == pk[2]
        IN  IF key \in Programs THEN Page(key, 1)
            ELSE IF key = MORE /\ page # TextPage /\ page.frame < Frames(page.program)
            THEN Page(page.program, page.frame + 1)
            ELSE TextPage]

-----------------------------------------------------------------------------
(* The format of a telesoftware frame.                                     *)

\* The code of the largest shift that brings a character into the range of data,
\* or of none if it is there already.
ShiftOf(c) ==
    IF c \in 32 .. 126 THEN 48
    ELSE Max({code \in SHIFTS : c - ShiftOffset(code) \in 32 .. 126})

\* A character under the shift that applies to it.
Symbol(d) ==
    CASE d = CHAR_BAR            -> <<CHAR_BAR, BAR>>
      [] d = CHAR_THREE_QUARTERS -> <<CHAR_BAR, CHAR_THREE_QUARTERS>>
      [] d = CHAR_SPACE          -> <<CHAR_THREE_QUARTERS>>
      [] OTHER                   -> <<d>>

Encoded(c) ==
    LET code == ShiftOf(c)
    IN  IF c = CR THEN <<CHAR_BAR, END_OF_LINE>>
        ELSE IF code = 48 THEN Symbol(c)
        ELSE <<CHAR_BAR, code>> \o Symbol(c - ShiftOffset(code)) \o <<CHAR_BAR, 48>>

\* The exclusive or of characters: a bit is set if it is in an odd number of them.
Checksum(bytes) ==
    LET Odd(w) == Cardinality({i \in DOMAIN bytes : Bit(bytes[i], w) = 1}) % 2
    IN  Odd(1) + 2 * Odd(2) + 4 * Odd(4) + 8 * Odd(8) + 16 * Odd(16) + 32 * Odd(32)
            + 64 * Odd(64)

\* Three decimal digits.
Digits(sum) == <<48 + sum \div 100, 48 + ((sum \div 10) % 10), 48 + (sum % 10)>>

\* Every byte has even parity.
Transmitted(bytes) == [i \in DOMAIN bytes |-> bytes[i] + 128 * Parity(bytes[i])]

\* |A |G letter block |I data |Z and the checksum, over all between |A and |Z.
Frame(n, data) ==
    LET inner == <<CHAR_BAR, FRAME_LETTER, 96 + n, 48, CHAR_BAR, TERMINATOR>> \o data
    IN  <<CHAR_BAR, START_FRAME>> \o inner \o <<CHAR_BAR, END_OF_FRAME>>
            \o Digits(Checksum(inner))

\* The name of the file and, after |L, the number of frames.
HeaderData(p) == FileName(p) \o <<CHAR_BAR, END_OF_LINE, 48, 48 + Len(Ends[p])>>

\* The bytes encode the characters of a piece, one after the other.
IsEncoding(bytes, piece) ==
    \E cut \in [0 .. Len(piece) -> 0 .. Len(bytes)] :
        /\ cut[0] = 0 /\ cut[Len(piece)] = Len(bytes)
        /\ \A i \in 1 .. Len(piece) :
              SubSeq(bytes, cut[i - 1] + 1, cut[i]) = Encoded(piece[i])

\* The last frame of a file ends with |F.
Ending(p, n) == IF n = Frames(p) THEN <<CHAR_BAR, END_OF_FILE>> ELSE << >>

\* The codes with an effect that outlasts them: they begin or end a frame or a
\* file, wait for more bytes, or shift what follows.
LastingCodes == {START_FRAME, END_OF_FILE, FRAME_LETTER, END_OF_FRAME} \cup (SHIFTS \ {48})

\* A page of text has any bytes.  A bar among them is a character of the screen,
\* and takes the byte after it for a code: one without a lasting effect.
IsText(bytes) ==
    \A i \in DOMAIN bytes : bytes[i] % 128 = CHAR_BAR =>
        i < Len(bytes) /\ bytes[i + 1] % 128 \notin LastingCodes

\* What the host sends for a page: text, or a frame that has bytes 10 and on for
\* its data.
IsTransmission(bytes, page) ==
    LET p == page.program
        n == page.frame
        data == [i \in 1 .. Len(bytes) - 14 |-> bytes[9 + i] % 128]
        body == SubSeq(data, 1, Len(data) - Len(Ending(p, n)))
    IN  /\ bytes \in Seq(Byte)
        /\ IF page = TextPage THEN IsText(bytes)
           ELSE /\ bytes = Transmitted(<<12>> \o Frame(n, data))
                /\ n = 1 => data = HeaderData(p)
                /\ n > 1 => data = body \o Ending(p, n) /\ IsEncoding(body, Piece(p, n - 1))

\* There are data frames, their number is one digit, the last of them has the end
\* of the content, and no program has the key of the next frame or the bar for its
\* name.
ASSUME HostAssumption ==
    /\ Programs \subseteq Ascii \ {CHAR_BAR, MORE}
    /\ Content \in [Programs -> Seq(Byte)]
    /\ Ends \in [Programs -> Seq(Nat)]
    /\ \A p \in Programs :
          /\ Len(Ends[p]) \in 1 .. 9
          /\ \A m, n \in 0 .. Len(Ends[p]) : m <= n => UpTo(p, m) <= UpTo(p, n)
          /\ UpTo(p, Len(Ends[p])) = Len(Content[p])
    /\ Pages = TelePages /\ HomePage = TextPage /\ PageAfter = TelePageAfter
    /\ \A page \in TelePages : IsTransmission(Transmission[page], page)

-----------------------------------------------------------------------------
(* What a user gets who waits for a page before the next key, and types    *)
(* CTRL-g on a header only.                                                *)

Patient(key) ==
    /\ typed = << >> /\ to_host = << >> /\ to_client = << >>
    /\ pc \in {"test", "poll"} /\ ~is_downloading
    /\ key = KEY_DOWNLOAD => host.frame = 1

PatientNext ==
    \/ Program
    \/ HostAnswers \/ HostCloses
    \/ \E key \in Keys : Patient(key) /\ TypeKey(key)
    \/ TimerExpires \/ Signal

PatientSpec == Init /\ [][PatientNext]_vars /\ Fairness

\* Files have the names and the contents that the host gave them, whichever
\* way the frames are split over reads: complete once their download is over,
\* and up to some point if it is going on or was cut off.
FilesAreFaithful ==
    \A name \in DOMAIN disk : \E p \in Programs :
        /\ name = FileName(p)
        /\ IsPrefix(disk[name], Content[p])
        /\ pc \notin {"cleanup", "exited"} /\ name # download_file => disk[name] = Content[p]

\* The next frame of a file is asked for once, and when all of the frame before
\* it has been decoded.
AsksBetweenFrames ==
    is_downloading /\ to_host # << >> /\ pc # "exited" =>
        Len(to_host) = 1 /\ to_client = << >> /\ buffer = << >>

\* A frame that arrives as it was sent passes its checks, however it is split over
\* reads: the decoder sums what the host has summed.  Not invalid_checksum, which
\* the rest of the last frame sets if it is read after FileEnds: the frame number
\* is 0 then, and the sum of the frame is gone.
ChecksAgree ==
    tele.end_of_frame /\ tele.frame_number # 0 =>
        /\ tele.check.checksum = tele.check.running_checksum
        /\ ~tele.check.parity_error

-----------------------------------------------------------------------------
(* What holds for any user.                                                *)

\* What a header writes if it is decoded as data: the name, |L and two digits.
HeaderCharacters(p) == {DataChar(p), CR, 48, 48 + Len(Ends[p])}
FrameCharacters == UNION {ToSet(Content[p]) \cup HeaderCharacters(p) : p \in Programs}

\* What a code of a page of text writes: it may be |L, |E or |}.
CodeCharacters == {CR, CHAR_BAR, CHAR_THREE_QUARTERS}
FileCharacters == FrameCharacters \cup CodeCharacters

\* A file has only characters that frames carry, and of a page of text no more than
\* what its codes write.  Keys go to the host during a download and its answers are
\* decoded into the file, end_of_file may be left over from before the download and
\* reset the decoder within a frame, but outside a frame nothing is data.
TextStaysOut ==
    \A name \in DOMAIN disk : ToSet(disk[name]) \subseteq FileCharacters

-----------------------------------------------------------------------------
(* Liveness.                                                               *)

\* A download that has started comes to its end, unless the session or the
\* connection does.
DownloadFinishes == is_downloading ~> ~is_downloading \/ pc = "exited" \/ ~host_open
=============================================================================
