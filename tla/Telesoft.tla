------------------------------ MODULE Telesoft ------------------------------
(***************************************************************************)
(* The telesoftware decoder of src/telesoft.c: the state machine that      *)
(* picks a file out of the frames of a Viewdata page.  A frame starts with *)
(* |A and ends with |Z and three digits; other control codes are a bar and *)
(* a character as well, and the rest is data.  The first frame of a page   *)
(* is a header that names the file.                                        *)
(*                                                                         *)
(* struct vt_tele_state is a record; TeleByte is the body of the loop of   *)
(* vt_tele_decode() and TeleOutput is what it writes to fd_out.            *)
(*                                                                         *)
(* The fields that check a frame, which no other code looks at, are the    *)
(* record check.                                                           *)
(*                                                                         *)
(* Left out: the bound of the array filename, which nothing tests:         *)
(* filename and filename_len are one sequence.  A NUL in a name would end  *)
(* it for open() and is a character like any other here.                   *)
(***************************************************************************)
EXTENDS Integers, Sequences

Byte  == 0 .. 255
Ascii == 0 .. 127

CHAR_BAR            == 124
CHAR_THREE_QUARTERS == 125
CHAR_SPACE          == 32
CR                  == 13

\* The control codes, by what they do.
SHIFTS        == 48 .. 53       \* '0' to '5'
START_FRAME   == 65             \* 'A'
START_DATA    == 68             \* 'D'
BAR           == 69             \* 'E'
END_OF_FILE   == 70             \* 'F'
FRAME_LETTER  == 71             \* 'G'
TERMINATOR    == 73             \* 'I'
END_OF_LINE   == 76             \* 'L'
START_HEADER  == 84             \* 'T'
END_OF_FRAME  == 90             \* 'Z'

\* What a shift code adds to the data that follows it.
ShiftOffset(code) ==
    CASE code = 48 -> 0  [] code = 49 -> -64 [] code = 50 -> 64
      [] code = 51 -> 96 [] code = 52 -> 128 [] code = 53 -> 160
ShiftOffsets == {0, -64, 64, 96, 128, 160}

Checks ==
    [running_checksum : Int, checksum : Int, frame_letter : Ascii,
     invalid_checksum : BOOLEAN, parity_error : BOOLEAN]

TeleStates ==
    [state : 0 .. 4, frame_number : Nat, shift_offset : ShiftOffsets,
     control_code : Ascii, ignore : BOOLEAN, in_frame : BOOLEAN,
     filename : Seq(Ascii), end_of_file : BOOLEAN, end_of_frame : BOOLEAN,
     check : Checks]

\* Only |G and |Z wait for more bytes than their code, one and three.
Waits(t) ==
    t.state >= 2 => \/ t.control_code = END_OF_FRAME
                    \/ t.control_code = FRAME_LETTER /\ t.state = 2

\* vt_tele_reset()
TeleReset ==
    [state |-> 0, frame_number |-> 0, shift_offset |-> 0, control_code |-> 0,
     ignore |-> FALSE, in_frame |-> FALSE, filename |-> << >>,
     end_of_file |-> FALSE, end_of_frame |-> FALSE,
     check |-> [running_checksum |-> 0, checksum |-> 0, frame_letter |-> 0,
                invalid_checksum |-> FALSE, parity_error |-> FALSE]]

-----------------------------------------------------------------------------

\* Mutant of InData: data is also what is not in a frame.
InDataAnywhere(t) == t.state = 0

\* A byte of data: kept in the name by the header, after its |I.
InData(t)   == t.in_frame /\ t.state = 0
IsName(t)   == ~t.ignore /\ t.frame_number = 1 /\ t.control_code = TERMINATOR
Data(t, b)  == IF IsName(t) THEN [t EXCEPT !.filename = Append(t.filename, b)] ELSE t

\* Mutants of EndOfFrame: the checksum has no end, and the frame ends before it.
EndOfFrameWithoutEnd(t) ==
    CASE t.state = 1 -> [t EXCEPT !.state = 2, !.in_frame = FALSE]
      [] t.state \in {2, 3} -> [t EXCEPT !.state = t.state + 1]
      [] t.state = 4 -> [t EXCEPT !.end_of_frame = TRUE, !.state = 5]
EndOfFrameAtOnce(t) ==
    CASE t.state = 1 -> [t EXCEPT !.state = 2, !.in_frame = FALSE, !.end_of_frame = TRUE]
      [] t.state \in {2, 3} -> [t EXCEPT !.state = t.state + 1]
      [] t.state = 4 -> [t EXCEPT !.state = 0]

\* |Z and the three digits of the checksum that follow it.
EndOfFrame(t) ==
    CASE t.state = 1 -> [t EXCEPT !.state = 2, !.in_frame = FALSE]
      [] t.state \in {2, 3} -> [t EXCEPT !.state = t.state + 1]
      [] t.state = 4 -> [t EXCEPT !.state = 0, !.end_of_frame = TRUE]

\* The second and later bytes of a control sequence, and what they change.
\* Everything that is not known is ignored up to the next |I.
Obey(t) ==
    LET code == t.control_code
        done == [t EXCEPT !.state = 0]
    IN  CASE code \in SHIFTS     -> [done EXCEPT !.shift_offset = ShiftOffset(code)]
          [] code = START_FRAME  -> [done EXCEPT !.frame_number = t.frame_number + 1,
                                                 !.in_frame = TRUE]
          [] code = END_OF_FILE  -> [done EXCEPT !.end_of_file = TRUE, !.in_frame = FALSE]
          [] code = FRAME_LETTER -> IF t.state = 1 THEN [t EXCEPT !.state = 2]
                                    ELSE [done EXCEPT !.ignore = TRUE]
          [] code = TERMINATOR   -> [done EXCEPT !.ignore = FALSE]
          [] code = END_OF_LINE  -> [done EXCEPT !.ignore = t.ignore \/ t.frame_number = 1]
          [] code = END_OF_FRAME -> EndOfFrame(t)
          [] code \in {START_DATA, START_HEADER, BAR, CHAR_THREE_QUARTERS} -> done
          [] OTHER -> [done EXCEPT !.ignore = TRUE]

Control(t, b) ==
    Obey(IF t.state = 1 THEN [t EXCEPT !.control_code = b] ELSE t)

\* A byte without its parity bit: where it leads, apart from the checks.
Taken(t, b) ==
    IF b = CHAR_BAR THEN [t EXCEPT !.state = 1]
    ELSE IF InData(t) THEN Data(t, b)
    ELSE IF t.state >= 1 THEN Control(t, b)
    ELSE t

-----------------------------------------------------------------------------
(* The checks of a frame: even parity, and a checksum in three digits.     *)

Bit(a, w) == (a \div w) % 2

\* vt_parity()
Parity(a) ==
    (Bit(a, 1) + Bit(a, 2) + Bit(a, 4) + Bit(a, 8) + Bit(a, 16) + Bit(a, 32) + Bit(a, 64)) % 2

\* a ^ b of two characters.
Xor(a, b) ==
    LET Digit(w) == w * ((Bit(a, w) + Bit(b, w)) % 2)
    IN  Digit(1) + Digit(2) + Digit(4) + Digit(8) + Digit(16) + Digit(32) + Digit(64)

\* Mutant of LetterChecked: the letter is not summed.
LetterUnsummed(c, b) == [c EXCEPT !.frame_letter = b]

\* The byte after |G.
LetterChecked(c, b) ==
    [c EXCEPT !.running_checksum = Xor(c.running_checksum, b), !.frame_letter = b]

\* The code itself: |A starts the sum and |Z ends it.
CodeChecked(c, code) ==
    CASE code = START_FRAME  -> [c EXCEPT !.running_checksum = 0]
      [] code = END_OF_FRAME -> [c EXCEPT !.checksum = 0]
      [] OTHER -> [c EXCEPT !.running_checksum = Xor(Xor(c.running_checksum, CHAR_BAR), code)]

\* A digit of the checksum: the third is in state 4.
DigitChecked(c, state, b) ==
    LET weight == CASE state = 2 -> 100 [] state = 3 -> 10 [] OTHER -> 1
        sum == c.checksum + (b - 48) * weight
    IN  [c EXCEPT !.checksum = sum,
                  !.invalid_checksum =
                      c.invalid_checksum \/ (state = 4 /\ sum # c.running_checksum)]

\* What one byte changes in the checks, after its parity.
Summed(t, c, b) ==
    CASE b = CHAR_BAR -> c
      [] b # CHAR_BAR /\ InData(t) ->
             [c EXCEPT !.running_checksum = Xor(c.running_checksum, b)]
      [] b # CHAR_BAR /\ t.state = 1 -> CodeChecked(c, b)
      [] b # CHAR_BAR /\ t.state > 1 ->
             IF t.control_code = FRAME_LETTER THEN LetterChecked(c, b)
             ELSE DigitChecked(c, t.state, b)
      [] OTHER -> c

ParityChecked(t, byte) ==
    [t.check EXCEPT !.parity_error =
        t.check.parity_error \/ (t.in_frame /\ Parity(byte) # byte \div 128)]

\* One turn of the loop of vt_tele_decode().
TeleByte(t, byte) ==
    LET b == byte % 128
    IN  [Taken(t, b) EXCEPT !.check = Summed(t, ParityChecked(t, byte), b)]

-----------------------------------------------------------------------------
(* What is written.                                                        *)

\* Mutant of DataChar: three quarters is itself.
DataCharAsIs(b) == b

\* A space is sent as three quarters.
DataChar(b) == IF b = CHAR_THREE_QUARTERS THEN CHAR_SPACE ELSE b

\* A char of 8 bits.
Char(n) == n % 256

\* What TeleByte writes to the file: nothing or one character.
TeleOutput(t, byte) ==
    LET b == byte % 128
        shift == t.shift_offset
    IN  IF b = CHAR_BAR THEN << >>
        ELSE IF InData(t)
        THEN IF t.ignore \/ t.frame_number = 1 THEN << >>
             ELSE <<Char(DataChar(b) + shift)>>
        ELSE IF t.state # 1 THEN << >>
        ELSE CASE b = CHAR_THREE_QUARTERS -> <<Char(CHAR_THREE_QUARTERS + shift)>>
               [] b = BAR -> <<Char(CHAR_BAR + shift)>>
               [] b = END_OF_LINE /\ t.frame_number # 1 -> <<CR>>
               [] OTHER -> << >>

\* vt_tele_decode() forgets the end of the frame and the parity of the call
\* before it.
TeleStart(t) ==
    [t EXCEPT !.end_of_frame = FALSE, !.check = [t.check EXCEPT !.parity_error = FALSE]]

\* What vt_tele_decode_header() returns.  filename is an array: its test
\* against NULL is always true.
HeaderDecoded(t) == t.frame_number = 1
=============================================================================
