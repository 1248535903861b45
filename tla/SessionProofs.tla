---------------------------- MODULE SessionProofs ----------------------------
(***************************************************************************)
(* Proofs about module Session: its types, that a download always has its  *)
(* file open, and when an open file is lost, for any host, any keys and    *)
(* any size of the read buffer.                                            *)
(*                                                                         *)
(* The first half shows that the telesoftware decoder keeps its type       *)
(* whatever bytes it is given, one lemma for each operator of Telesoft.    *)
(* The second half has one lemma for each group of actions, which shows    *)
(* that they keep IInv.                                                    *)
(***************************************************************************)
EXTENDS Session, FiniteSetTheorems, WellFoundedInduction, TLAPS

-----------------------------------------------------------------------------
(* The decoder of module Telesoft.                                         *)

\* A byte without its parity bit is a character, and a char has 8 bits.
LEMMA ModuloRange ==
    ASSUME NEW n \in Int
    PROVE  n % 128 \in Ascii /\ n % 256 \in Byte
BY SMT DEF Ascii, Byte

\* A shift code selects one of six offsets.
LEMMA ShiftType ==
    ASSUME NEW code \in SHIFTS
    PROVE  ShiftOffset(code) \in ShiftOffsets
BY SMT DEF SHIFTS, ShiftOffset, ShiftOffsets

\* vt_tele_reset() gives a state of the right type.
LEMMA ResetType == TeleReset \in TeleStates /\ Waits(TeleReset)
<1>1. TeleReset.check \in Checks
  BY SMT DEF TeleReset, Checks, Ascii
<1>2. TeleReset.state = 0 /\ TeleReset.control_code \in Ascii
  BY SMT DEF TeleReset, Ascii
<1>3. TeleReset \in TeleStates
  BY <1>1, SMT DEF TeleReset, TeleStates, ShiftOffsets, Ascii
<1> QED BY <1>2, <1>3, SMT DEF Waits

\* Setting one field of the state to a value of its type.
LEMMA FieldTypes ==
    ASSUME NEW t \in TeleStates, NEW b \in BOOLEAN
    PROVE  /\ [t EXCEPT !.ignore = b] \in TeleStates
           /\ [t EXCEPT !.in_frame = b] \in TeleStates
           /\ [t EXCEPT !.end_of_file = b] \in TeleStates
           /\ [t EXCEPT !.end_of_frame = b] \in TeleStates
           /\ \A n \in 0 .. 4 : [t EXCEPT !.state = n] \in TeleStates
           /\ \A n \in Nat : [t EXCEPT !.frame_number = n] \in TeleStates
           /\ \A c \in Ascii : [t EXCEPT !.control_code = c] \in TeleStates
           /\ \A c \in ShiftOffsets : [t EXCEPT !.shift_offset = c] \in TeleStates
           /\ \A s \in Seq(Ascii) : [t EXCEPT !.filename = s] \in TeleStates
           /\ \A c \in Checks : [t EXCEPT !.check = c] \in TeleStates
<1>1. [t EXCEPT !.ignore = b] \in TeleStates BY SMT DEF TeleStates
<1>2. [t EXCEPT !.in_frame = b] \in TeleStates BY SMT DEF TeleStates
<1>3. [t EXCEPT !.end_of_file = b] \in TeleStates BY SMT DEF TeleStates
<1>4. [t EXCEPT !.end_of_frame = b] \in TeleStates BY SMT DEF TeleStates
<1>5. \A n \in 0 .. 4 : [t EXCEPT !.state = n] \in TeleStates BY SMT DEF TeleStates
<1>6. \A n \in Nat : [t EXCEPT !.frame_number = n] \in TeleStates BY SMT DEF TeleStates
<1>7. \A c \in Ascii : [t EXCEPT !.control_code = c] \in TeleStates BY SMT DEF TeleStates
<1>8. \A c \in ShiftOffsets : [t EXCEPT !.shift_offset = c] \in TeleStates BY SMT DEF TeleStates
<1>9. \A s \in Seq(Ascii) : [t EXCEPT !.filename = s] \in TeleStates BY SMT DEF TeleStates
<1>10. \A c \in Checks : [t EXCEPT !.check = c] \in TeleStates BY SMT DEF TeleStates
<1> QED BY <1>1, <1>2, <1>3, <1>4, <1>5, <1>6, <1>7, <1>8, <1>9, <1>10, Zenon

\* The fields that the proofs below look at.
LEMMA FieldRanges ==
    ASSUME NEW t \in TeleStates
    PROVE  /\ t.state \in 0 .. 4 /\ t.frame_number \in Nat
           /\ t.shift_offset \in ShiftOffsets /\ t.control_code \in Ascii
           /\ t.ignore \in BOOLEAN /\ t.filename \in Seq(Ascii)
           /\ t.in_frame \in BOOLEAN /\ t.check \in Checks
BY SMT DEF TeleStates

\* Setting a field other than state and control_code.
LEMMA OtherFields ==
    ASSUME NEW t \in TeleStates, NEW b \in BOOLEAN
    PROVE  LET Same(u) == u \in TeleStates /\ u.state = t.state /\ u.control_code = t.control_code
           IN  /\ Same([t EXCEPT !.ignore = b])
               /\ Same([t EXCEPT !.in_frame = b])
               /\ Same([t EXCEPT !.end_of_file = b])
               /\ Same([t EXCEPT !.end_of_frame = b])
               /\ \A n \in Nat : Same([t EXCEPT !.frame_number = n])
               /\ \A c \in ShiftOffsets : Same([t EXCEPT !.shift_offset = c])
               /\ \A c \in Checks : Same([t EXCEPT !.check = c])
<1> DEFINE Same(u) == u \in TeleStates /\ u.state = t.state /\ u.control_code = t.control_code
<1>1. Same([t EXCEPT !.ignore = b]) BY FieldTypes, SMT DEF TeleStates
<1>2. Same([t EXCEPT !.in_frame = b]) BY FieldTypes, SMT DEF TeleStates
<1>3. Same([t EXCEPT !.end_of_file = b]) BY FieldTypes, SMT DEF TeleStates
<1>4. Same([t EXCEPT !.end_of_frame = b]) BY FieldTypes, SMT DEF TeleStates
<1>5. ASSUME NEW n \in Nat PROVE Same([t EXCEPT !.frame_number = n])
  BY FieldTypes, SMT DEF TeleStates
<1>6. ASSUME NEW c \in ShiftOffsets PROVE Same([t EXCEPT !.shift_offset = c])
  BY FieldTypes, SMT DEF TeleStates
<1>7. ASSUME NEW c \in Checks PROVE Same([t EXCEPT !.check = c])
  BY FieldTypes, SMT DEF TeleStates
<1> QED BY <1>1, <1>2, <1>3, <1>4, <1>5, <1>6, <1>7, Zenon

\* Setting the field check.
LEMMA WithCheck ==
    ASSUME NEW t \in TeleStates, NEW c \in Checks, NEW v, v = [t EXCEPT !.check = c]
    PROVE  v \in TeleStates /\ v.state = t.state /\ v.control_code = t.control_code
BY OtherFields, ZenonT(60)

\* Setting one field of the checks to a value of its type.
LEMMA CheckFields ==
    ASSUME NEW c \in Checks
    PROVE  /\ \A n \in Int : [c EXCEPT !.running_checksum = n] \in Checks
           /\ \A n \in Int : [c EXCEPT !.checksum = n] \in Checks
           /\ \A b \in Ascii : [c EXCEPT !.frame_letter = b] \in Checks
           /\ \A v \in BOOLEAN : [c EXCEPT !.invalid_checksum = v] \in Checks
           /\ \A v \in BOOLEAN : [c EXCEPT !.parity_error = v] \in Checks
           /\ c.running_checksum \in Int /\ c.checksum \in Int
           /\ c.invalid_checksum \in BOOLEAN /\ c.parity_error \in BOOLEAN
<1>1. \A n \in Int : [c EXCEPT !.running_checksum = n] \in Checks BY SMT DEF Checks
<1>2. \A n \in Int : [c EXCEPT !.checksum = n] \in Checks BY SMT DEF Checks
<1>3. \A b \in Ascii : [c EXCEPT !.frame_letter = b] \in Checks BY SMT DEF Checks
<1>4. \A v \in BOOLEAN : [c EXCEPT !.invalid_checksum = v] \in Checks BY SMT DEF Checks
<1>5. \A v \in BOOLEAN : [c EXCEPT !.parity_error = v] \in Checks BY SMT DEF Checks
<1>6. /\ c.running_checksum \in Int /\ c.checksum \in Int
      /\ c.invalid_checksum \in BOOLEAN /\ c.parity_error \in BOOLEAN
  BY SMT DEF Checks
<1> QED BY <1>1, <1>2, <1>3, <1>4, <1>5, <1>6, Zenon

\* The call of vt_tele_decode() keeps the type.
LEMMA StartType ==
    ASSUME NEW t \in TeleStates, Waits(t)
    PROVE  TeleStart(t) \in TeleStates /\ Waits(TeleStart(t))
<1> DEFINE u == [t EXCEPT !.end_of_frame = FALSE]
           c == [t.check EXCEPT !.parity_error = FALSE]
<1>1. c \in Checks
  BY FieldRanges, CheckFields, Zenon
<1>2. u \in TeleStates /\ u.state = t.state /\ u.control_code = t.control_code
  BY OtherFields, ZenonT(60)
<1>3. TeleStart(t) = [u EXCEPT !.check = c]
  BY SMT DEF TeleStart
<1> HIDE DEF u, c
<1>4. /\ TeleStart(t) \in TeleStates
      /\ TeleStart(t).state = u.state /\ TeleStart(t).control_code = u.control_code
  BY <1>1, <1>2, <1>3, WithCheck
<1> QED BY <1>2, <1>4, Zenon DEF Waits

\* A byte of data keeps the type.
LEMMA DataType ==
    ASSUME NEW t \in TeleStates, Waits(t), NEW b \in Ascii
    PROVE  Data(t, b) \in TeleStates /\ Waits(Data(t, b))
<1>1. Append(t.filename, b) \in Seq(Ascii)
  BY FieldRanges
<1>2. Data(t, b) \in TeleStates
  BY <1>1, FieldTypes, Zenon DEF Data
<1>3. Data(t, b).state = t.state /\ Data(t, b).control_code = t.control_code
  BY SMT DEF Data, TeleStates
<1> QED BY <1>2, <1>3, Zenon DEF Waits

\* Setting the field state.
LEMMA StateType ==
    ASSUME NEW t \in TeleStates, NEW n \in 0 .. 4
    PROVE  /\ [t EXCEPT !.state = n] \in TeleStates
           /\ [t EXCEPT !.state = n].state = n
           /\ [t EXCEPT !.state = n].control_code = t.control_code
<1>1. [t EXCEPT !.state = n] \in TeleStates
  BY FieldTypes, Zenon
<1> QED BY <1>1, SMT DEF TeleStates

\* |Z and its digits keep the type, and the state never passes 4.
LEMMA EndOfFrameType ==
    ASSUME NEW t \in TeleStates, t.state >= 1, t.control_code = END_OF_FRAME
    PROVE  EndOfFrame(t) \in TeleStates /\ Waits(EndOfFrame(t))
<1>1. CASE t.state = 1
  <2> DEFINE u == [t EXCEPT !.state = 2]
  <2>1. u \in TeleStates /\ u.state = 2 /\ u.control_code = END_OF_FRAME
    <3>1. 2 \in 0 .. 4 OBVIOUS
    <3> QED BY <3>1, StateType, Zenon
  <2>2. EndOfFrame(t) = [u EXCEPT !.in_frame = FALSE]
    BY <1>1, SMT DEF EndOfFrame
  <2> HIDE DEF u
  <2>3. /\ EndOfFrame(t) \in TeleStates
        /\ EndOfFrame(t).control_code = END_OF_FRAME
    BY <2>1, <2>2, OtherFields, ZenonT(60)
  <2> QED BY <2>3, Zenon DEF Waits
<1>2. CASE t.state \in {2, 3}
  <2>1. PICK n \in 0 .. 4 : n = t.state + 1 BY <1>2
  <2>2. t.state # 1 /\ t.state # 4 BY <1>2
  <2>3. EndOfFrame(t) = [t EXCEPT !.state = n]
    BY <1>2, <2>1, <2>2, Zenon DEF EndOfFrame
  <2> DEFINE u == [t EXCEPT !.state = n]
  <2>4. u \in TeleStates /\ u.control_code = t.control_code
    BY StateType
  <2> HIDE DEF u
  <2>5. EndOfFrame(t) \in TeleStates /\ EndOfFrame(t).control_code = END_OF_FRAME
    BY <2>3, <2>4, SMT DEF u
  <2> QED BY <2>5, Zenon DEF Waits
<1>3. CASE t.state = 4
  <2> DEFINE u == [t EXCEPT !.state = 0]
  <2>1. u \in TeleStates /\ u.control_code = END_OF_FRAME
    <3>1. 0 \in 0 .. 4 OBVIOUS
    <3> QED BY <3>1, StateType, Zenon
  <2>2. EndOfFrame(t) = [u EXCEPT !.end_of_frame = TRUE]
    BY <1>3, SMT DEF EndOfFrame
  <2> HIDE DEF u
  <2>3. /\ EndOfFrame(t) \in TeleStates
        /\ EndOfFrame(t).control_code = END_OF_FRAME
    BY <2>1, <2>2, OtherFields, ZenonT(60)
  <2> QED BY <2>3, Zenon DEF Waits
<1>4. t.state \in {1, 2, 3, 4} BY FieldRanges
<1> QED BY <1>1, <1>2, <1>3, <1>4

\* A control code keeps the type; of those that do not wait for more bytes all
\* leave the state at 0.
LEMMA ObeyType ==
    ASSUME NEW t \in TeleStates, Waits(t), t.state >= 1
    PROVE  Obey(t) \in TeleStates /\ Waits(Obey(t))
<1> DEFINE done == [t EXCEPT !.state = 0]
<1>1. done \in TeleStates /\ done.state = 0
  <2>1. 0 \in 0 .. 4 OBVIOUS
  <2> QED BY <2>1, StateType, Zenon
<1>2. \/ Obey(t) = done
      \/ \E b \in BOOLEAN : Obey(t) = [done EXCEPT !.ignore = b]
      \/ \E s \in ShiftOffsets : Obey(t) = [done EXCEPT !.shift_offset = s]
      \/ \E n \in Nat : Obey(t) = [done EXCEPT !.frame_number = n, !.in_frame = TRUE]
      \/ Obey(t) = [done EXCEPT !.end_of_file = TRUE, !.in_frame = FALSE]
      \/ t.control_code = FRAME_LETTER /\ Obey(t) = [t EXCEPT !.state = 2]
      \/ t.control_code = END_OF_FRAME /\ Obey(t) = EndOfFrame(t)
  <2>1. t.control_code \in SHIFTS =>
           Obey(t) = [done EXCEPT !.shift_offset = ShiftOffset(t.control_code)]
    BY SMT DEF Obey, SHIFTS, START_FRAME, END_OF_FILE, FRAME_LETTER, TERMINATOR,
       END_OF_LINE, END_OF_FRAME, START_DATA, START_HEADER, BAR, CHAR_THREE_QUARTERS
  <2>2. t.control_code \notin SHIFTS =>
           \/ Obey(t) = done
           \/ Obey(t) = [done EXCEPT !.ignore = TRUE]
           \/ Obey(t) = [done EXCEPT !.ignore = FALSE]
           \/ Obey(t) = [done EXCEPT !.ignore = t.ignore \/ t.frame_number = 1]
           \/ Obey(t) = [done EXCEPT !.frame_number = t.frame_number + 1, !.in_frame = TRUE]
           \/ Obey(t) = [done EXCEPT !.end_of_file = TRUE, !.in_frame = FALSE]
           \/ t.control_code = FRAME_LETTER /\ Obey(t) = [t EXCEPT !.state = 2]
           \/ t.control_code = END_OF_FRAME /\ Obey(t) = EndOfFrame(t)
    BY SMT DEF Obey, SHIFTS, START_FRAME, END_OF_FILE, FRAME_LETTER, TERMINATOR,
       END_OF_LINE, END_OF_FRAME, START_DATA, START_HEADER, BAR, CHAR_THREE_QUARTERS
  <2>3. t.frame_number + 1 \in Nat BY FieldRanges
  <2>4. (t.ignore \/ t.frame_number = 1) \in BOOLEAN OBVIOUS
  <2> HIDE DEF done
  <2> QED BY <2>1, <2>2, <2>3, <2>4, ShiftType, Zenon
<1> HIDE DEF done
<1> DEFINE Done(u) == u \in TeleStates /\ u.state = 0
<1>3. ASSUME Done(Obey(t)) PROVE Obey(t) \in TeleStates /\ Waits(Obey(t))
  BY <1>3, SMT DEF Waits
<1>4. ASSUME Obey(t) = done PROVE Done(Obey(t))
  BY <1>1, <1>4, Zenon
<1>5. ASSUME NEW b \in BOOLEAN, Obey(t) = [done EXCEPT !.ignore = b] PROVE Done(Obey(t))
  <2> DEFINE v == [done EXCEPT !.ignore = b]
  <2>1. v \in TeleStates /\ v.state = done.state BY <1>1, OtherFields, ZenonT(60)
  <2> HIDE DEF v
  <2>2. Obey(t) = v BY <1>5, Zenon DEF v
  <2> QED BY <1>1, <2>1, <2>2, Zenon
<1>6. ASSUME NEW s \in ShiftOffsets, Obey(t) = [done EXCEPT !.shift_offset = s]
      PROVE  Done(Obey(t))
  <2> DEFINE v == [done EXCEPT !.shift_offset = s]
  <2>1. v \in TeleStates /\ v.state = done.state BY <1>1, OtherFields, ZenonT(60)
  <2> HIDE DEF v
  <2>2. Obey(t) = v BY <1>6, Zenon DEF v
  <2> QED BY <1>1, <2>1, <2>2, Zenon
<1>7. ASSUME NEW n \in Nat, Obey(t) = [done EXCEPT !.frame_number = n, !.in_frame = TRUE]
      PROVE  Done(Obey(t))
  <2> DEFINE v == [done EXCEPT !.frame_number = n]
  <2>1. Done(v) BY <1>1, OtherFields, ZenonT(60)
  <2>2. Obey(t) = [v EXCEPT !.in_frame = TRUE] BY <1>7, SMT
  <2> HIDE DEF v
  <2> QED BY <2>1, <2>2, OtherFields, ZenonT(60)
<1>8. ASSUME Obey(t) = [done EXCEPT !.end_of_file = TRUE, !.in_frame = FALSE]
      PROVE  Done(Obey(t))
  <2> DEFINE v == [done EXCEPT !.end_of_file = TRUE]
  <2>1. Done(v) BY <1>1, OtherFields, ZenonT(60)
  <2>2. Obey(t) = [v EXCEPT !.in_frame = FALSE] BY <1>8, SMT
  <2> HIDE DEF v
  <2> QED BY <2>1, <2>2, OtherFields, ZenonT(60)
<1>9. CASE t.control_code = FRAME_LETTER /\ Obey(t) = [t EXCEPT !.state = 2]
  <2> DEFINE v == [t EXCEPT !.state = 2]
  <2>1. 2 \in 0 .. 4 OBVIOUS
  <2>2. v \in TeleStates /\ v.state = 2 /\ v.control_code = FRAME_LETTER
    BY <1>9, <2>1, StateType, Zenon
  <2> HIDE DEF v
  <2> QED BY <1>9, <2>2, Zenon DEF Waits, v
<1>10. CASE t.control_code = END_OF_FRAME /\ Obey(t) = EndOfFrame(t)
  BY <1>10, EndOfFrameType, Zenon
<1> HIDE DEF Done
<1> QED BY <1>2, <1>3, <1>4, <1>5, <1>6, <1>7, <1>8, <1>9, <1>10, Zenon

\* A byte without its parity bit keeps the type.
LEMMA TakenType ==
    ASSUME NEW t \in TeleStates, Waits(t), NEW b \in Ascii
    PROVE  Taken(t, b) \in TeleStates /\ Waits(Taken(t, b))
<1> DEFINE u == IF t.state = 1 THEN [t EXCEPT !.control_code = b] ELSE t
<1>2. CASE b = CHAR_BAR
  <2> DEFINE v == [t EXCEPT !.state = 1]
  <2>1. 1 \in 0 .. 4 OBVIOUS
  <2>2. v \in TeleStates /\ v.state = 1 BY <2>1, StateType, Zenon
  <2>3. Taken(t, b) = v BY <1>2, Zenon DEF Taken
  <2> HIDE DEF v
  <2> QED BY <2>2, <2>3, SMT DEF Waits
<1>3. CASE b # CHAR_BAR /\ InData(t)
  BY <1>3, DataType, Zenon DEF Taken
<1>4. CASE b # CHAR_BAR /\ ~InData(t) /\ t.state >= 1
  <2>1. u \in TeleStates /\ Waits(u) /\ u.state >= 1
    <3>1. CASE t.state = 1
      <4>1. u \in TeleStates BY <3>1, FieldTypes, Zenon
      <4>2. u.state = 1 BY <3>1, SMT DEF TeleStates
      <4> QED BY <4>1, <4>2, SMT DEF Waits
    <3>2. CASE t.state # 1 BY <1>4, <3>2
    <3> QED BY <3>1, <3>2
  <2>2. Taken(t, b) = Obey(u)
    BY <1>4, Zenon DEF Taken, Control
  <2> HIDE DEF u
  <2> QED BY <2>1, <2>2, ObeyType, Zenon
<1>5. CASE b # CHAR_BAR /\ ~InData(t) /\ ~(t.state >= 1)
  BY <1>5, Zenon DEF Taken
<1> QED BY <1>2, <1>3, <1>4, <1>5

\* The exclusive or of two numbers is a number.
LEMMA XorType ==
    ASSUME NEW a \in Int, NEW b \in Int
    PROVE  Xor(a, b) \in Int
<1>1. \A n \in Int, w \in Nat \ {0} : Bit(n, w) \in Int
  BY SMT DEF Bit
<1>2. \A w \in Nat \ {0} : w * ((Bit(a, w) + Bit(b, w)) % 2) \in Int
  <2> TAKE w \in Nat \ {0}
  <2>1. (Bit(a, w) + Bit(b, w)) % 2 \in {0, 1}
    <3> DEFINE x == Bit(a, w) + Bit(b, w)
    <3>1. x \in Int BY <1>1
    <3> HIDE DEF x
    <3>2. x % 2 \in {0, 1} BY <3>1, SMT
    <3> QED BY <3>2, Zenon DEF x
  <2>2. w * 0 \in Int /\ w * 1 \in Int
    OBVIOUS
  <2> QED BY <2>1, <2>2, Zenon
<1> QED BY <1>2, SMT DEF Xor

\* The checks of a frame keep their types.
LEMMA SummedType ==
    ASSUME NEW t \in TeleStates, NEW c \in Checks, NEW b \in Ascii
    PROVE  Summed(t, c, b) \in Checks
<1>1. Xor(c.running_checksum, b) \in Int
  <2>1. b \in Int BY SMT DEF Ascii
  <2>2. c.running_checksum \in Int BY CheckFields, Zenon
  <2> QED BY <2>1, <2>2, XorType, Zenon
<1>2. LetterChecked(c, b) \in Checks
  <2> DEFINE d == [c EXCEPT !.running_checksum = Xor(c.running_checksum, b)]
  <2>1. d \in Checks BY <1>1, CheckFields, Zenon
  <2>2. LetterChecked(c, b) = [d EXCEPT !.frame_letter = b] BY SMT DEF LetterChecked
  <2> HIDE DEF d
  <2> QED BY <2>1, <2>2, CheckFields, Zenon
<1>3. CodeChecked(c, b) \in Checks
  <2>1. Xor(c.running_checksum, CHAR_BAR) \in Int
    <3>1. CHAR_BAR \in Int BY DEF CHAR_BAR
    <3>2. c.running_checksum \in Int BY CheckFields, Zenon
    <3> QED BY <3>1, <3>2, XorType, Zenon
  <2>2. Xor(Xor(c.running_checksum, CHAR_BAR), b) \in Int
    <3>1. b \in Int BY SMT DEF Ascii
    <3> QED BY <2>1, <3>1, XorType, Zenon
  <2>3. 0 \in Int OBVIOUS
  <2>4. /\ [c EXCEPT !.running_checksum = 0] \in Checks
        /\ [c EXCEPT !.checksum = 0] \in Checks
        /\ [c EXCEPT !.running_checksum = Xor(Xor(c.running_checksum, CHAR_BAR), b)] \in Checks
    BY <2>2, <2>3, CheckFields, Zenon
  <2> QED BY <2>4, Zenon DEF CodeChecked
<1>4. DigitChecked(c, t.state, b) \in Checks
  <2> DEFINE weight == CASE t.state = 2 -> 100 [] t.state = 3 -> 10 [] OTHER -> 1
             sum == c.checksum + (b - 48) * weight
             bad == c.invalid_checksum \/ (t.state = 4 /\ sum # c.running_checksum)
             d == [c EXCEPT !.checksum = sum]
  <2>1. weight \in {1, 10, 100} BY Zenon
  <2> HIDE DEF weight
  <2>2. sum \in Int
    <3>1. (b - 48) * 1 \in Int /\ (b - 48) * 10 \in Int /\ (b - 48) * 100 \in Int
      BY SMT DEF Ascii
    <3>2. (b - 48) * weight \in Int BY <2>1, <3>1, Zenon
    <3> QED BY <3>2, CheckFields, SMT
  <2>3. bad \in BOOLEAN BY CheckFields, Zenon
  <2> HIDE DEF sum
  <2>4. d \in Checks BY <2>2, CheckFields, Zenon
  <2>5. DigitChecked(c, t.state, b) = [d EXCEPT !.invalid_checksum = bad]
    BY SMT DEF DigitChecked, sum, weight
  <2> HIDE DEF d, bad
  <2> QED BY <2>3, <2>4, <2>5, CheckFields, Zenon
<1>5. [c EXCEPT !.running_checksum = Xor(c.running_checksum, b)] \in Checks
  BY <1>1, CheckFields, Zenon
<1> QED BY <1>2, <1>3, <1>4, <1>5, Zenon DEF Summed

\* One turn of the loop of vt_tele_decode() keeps the type.
LEMMA ByteType ==
    ASSUME NEW t \in TeleStates, Waits(t), NEW byte \in Byte
    PROVE  TeleByte(t, byte) \in TeleStates /\ Waits(TeleByte(t, byte))
<1> DEFINE b == byte % 128
           u == Taken(t, b)
           error == t.check.parity_error \/ (t.in_frame /\ Parity(byte) # byte \div 128)
           d == Summed(t, ParityChecked(t, byte), b)
<1>1. b \in Ascii BY ModuloRange DEF Byte
<1>2. error \in BOOLEAN BY FieldRanges, CheckFields, Zenon
<1>3. ParityChecked(t, byte) \in Checks
  <2>1. ParityChecked(t, byte) = [t.check EXCEPT !.parity_error = error]
    BY Zenon DEF ParityChecked
  <2> HIDE DEF error
  <2>2. t.check \in Checks BY FieldRanges, Zenon
  <2>3. [t.check EXCEPT !.parity_error = error] \in Checks BY <1>2, <2>2, CheckFields
  <2> QED BY <2>1, <2>3, Zenon
<1>4. d \in Checks BY <1>1, <1>3, SummedType
<1>5. u \in TeleStates /\ Waits(u) BY <1>1, TakenType
<1>6. TeleByte(t, byte) = [u EXCEPT !.check = d] BY Zenon DEF TeleByte
<1> HIDE DEF u, d
<1>7. /\ TeleByte(t, byte) \in TeleStates
      /\ TeleByte(t, byte).state = u.state /\ TeleByte(t, byte).control_code = u.control_code
  BY <1>4, <1>5, <1>6, WithCheck
<1> QED BY <1>5, <1>7, Zenon DEF Waits

\* What is written to the file is bytes.
LEMMA OutputType ==
    ASSUME NEW t \in TeleStates, NEW byte \in Byte
    PROVE  TeleOutput(t, byte) \in Seq(Byte)
<1> DEFINE b == byte % 128
<1>1. b \in Ascii /\ t.shift_offset \in Int
  BY ModuloRange, FieldRanges, SMT DEF Byte, ShiftOffsets
<1>2. Char(DataChar(b) + t.shift_offset) \in Byte
  BY <1>1, ModuloRange, SMT DEF Char, DataChar, Ascii, CHAR_SPACE
<1>3. Char(CHAR_THREE_QUARTERS + t.shift_offset) \in Byte
  BY <1>1, ModuloRange, SMT DEF Char, CHAR_THREE_QUARTERS
<1>4. Char(CHAR_BAR + t.shift_offset) \in Byte
  BY <1>1, ModuloRange, SMT DEF Char, CHAR_BAR
<1>5. CR \in Byte BY SMT DEF CR, Byte
<1> HIDE DEF b
<1>6. \/ TeleOutput(t, byte) = << >>
      \/ TeleOutput(t, byte) = <<Char(DataChar(b) + t.shift_offset)>>
      \/ TeleOutput(t, byte) = <<Char(CHAR_THREE_QUARTERS + t.shift_offset)>>
      \/ TeleOutput(t, byte) = <<Char(CHAR_BAR + t.shift_offset)>>
      \/ TeleOutput(t, byte) = <<CR>>
  BY SMT DEF TeleOutput, b
<1>7. \A x \in Byte : <<x>> \in Seq(Byte) OBVIOUS
<1>8. << >> \in Seq(Byte) OBVIOUS
<1> QED BY <1>2, <1>3, <1>4, <1>5, <1>6, <1>7, <1>8, Zenon

-----------------------------------------------------------------------------

\* Sending a byte to the host keeps the types of what it changes.
LEMMA WriteType ==
    ASSUME TypeOK, NEW key \in Ascii, Write(key)
    PROVE  /\ to_host' \in Seq(Ascii)
           /\ socket_closed' \in BOOLEAN /\ terminate_received' \in BOOLEAN
<1>1. Append(to_host, key) \in Seq(Ascii) BY DEF TypeOK
<1> QED BY <1>1, Zenon DEF Write, TypeOK, flags

-----------------------------------------------------------------------------
(* The files that are open.                                                *)

\* Of a set of natural numbers that is not empty Min is one.
LEMMA MinIsElement ==
    ASSUME NEW S, S \subseteq Nat, S # {}
    PROVE  Min(S) \in S
<1>1. PICK x \in S : \A y \in S : <<y, x>> \notin OpToRel(<, Nat)
  BY NatLessThanWellFounded, WFMin
<1>2. \A y \in S : ~(y < x) BY <1>1, Zenon DEF OpToRel
<1>3. \A y \in S : x <= y BY <1>2
<1> QED BY <1>3, Zenon DEF Min

\* There is a descriptor that is free, however many are open.
LEMMA NewFdIsNew ==
    ASSUME DOMAIN opened \subseteq Nat, IsFiniteSet(DOMAIN opened)
    PROVE  NewFd \in Nat /\ NewFd \notin DOMAIN opened
<1> DEFINE open == DOMAIN opened
           n == Cardinality(open)
           S == {fd \in 0 .. n : fd \notin open}
<1>1. n \in Nat BY FS_CardinalityType
<1>2. Cardinality(0 .. n) = n + 1 BY <1>1, FS_Interval
<1>3. S # {}
  <2> SUFFICES ASSUME S = {} PROVE FALSE OBVIOUS
  <2>1. 0 .. n \subseteq open OBVIOUS
  <2>2. Cardinality(0 .. n) <= n BY <2>1, FS_Subset
  <2> QED BY <1>1, <1>2, <2>2
<1>4. S \subseteq Nat BY <1>1
<1>5. Min(S) \in S BY <1>3, <1>4, MinIsElement
<1>6. NewFd = Min(S) BY Zenon DEF NewFd
<1>7. \A fd \in S : fd \notin DOMAIN opened BY Zenon
<1> HIDE DEF S
<1> QED BY <1>4, <1>5, <1>6, <1>7, Zenon

\* The descriptors keep their types.
FdsOK(fds) ==
    /\ DOMAIN fds \subseteq Nat /\ IsFiniteSet(DOMAIN fds)
    /\ \A fd \in DOMAIN fds : fds[fd] \in Names

\* A file that is closed, whether it was open or not.
LEMMA ClosedType ==
    ASSUME FdsOK(opened)
    PROVE  FdsOK(Closed)
<1>1. DOMAIN Closed = DOMAIN opened \ {download_fd}
  BY Zenon DEF Closed
<1>2. \A fd \in DOMAIN Closed : Closed[fd] = opened[fd] /\ fd \in DOMAIN opened
  BY Zenon DEF Closed
<1>3. IsFiniteSet(DOMAIN Closed)
  BY <1>1, FS_Subset, Zenon DEF FdsOK
<1> QED BY <1>1, <1>2, <1>3, Zenon DEF FdsOK

\* A file that is opened is that of download_fd.
LEMMA OpenedType ==
    ASSUME FdsOK(opened), NEW name \in Names,
           opened' = [fd \in DOMAIN opened \cup {NewFd} |->
                         IF fd = NewFd THEN name ELSE opened[fd]]
    PROVE  /\ FdsOK(opened')
           /\ NewFd \in DOMAIN opened' /\ opened'[NewFd] = name
           /\ NewFd \in Nat
<1>1. NewFd \in Nat
  BY NewFdIsNew, Zenon DEF FdsOK
<1>2. DOMAIN opened' = DOMAIN opened \cup {NewFd}
  BY Zenon
<1>3. NewFd \in DOMAIN opened' /\ opened'[NewFd] = name
  BY Zenon
<1>4. \A fd \in DOMAIN opened' : opened'[fd] \in Names
  BY Zenon DEF FdsOK
<1>5. IsFiniteSet(DOMAIN opened')
  BY <1>2, FS_AddElement, Zenon DEF FdsOK
<1>6. DOMAIN opened' \subseteq Nat
  BY <1>1, <1>2, Zenon DEF FdsOK
<1> QED BY <1>1, <1>3, <1>4, <1>5, <1>6, Zenon DEF FdsOK

-----------------------------------------------------------------------------
(* The program and its surroundings.                                       *)

\* TypeOK is needed for the descriptors, the domain of disk and the type of what
\* is appended to a file; DecodesIntoOpenFile says which file it is.
IInv == TypeOK /\ DecodesIntoOpenFile

\* The invariant holds initially.
LEMMA InitInv == Init => IInv
<1> SUFFICES ASSUME Init PROVE IInv OBVIOUS
<1>1. tele \in TeleStates /\ Waits(tele) BY ResetType DEF Init
<1>2. to_client \in Seq(Byte) /\ host \in Pages BY SessionAssumption DEF Init
<1>3. DOMAIN disk = {} BY DEF Init
<1>4. buffer \in Seq(Byte) /\ to_host \in Seq(Ascii) /\ typed \in Seq(Ascii) BY DEF Init
<1>5. download_fd \in Nat \cup {NoFd} BY Zenon DEF Init
<1>8. DOMAIN opened = {} BY DEF Init
<1>9. FdsOK(opened)
  <2>1. IsFiniteSet({}) BY FS_EmptySet
  <2> QED BY <1>8, <2>1, Zenon DEF FdsOK
<1>6. pc \in Places /\ revents \subseteq Sources BY SMT DEF Init, Places, Sources
<1>7. DecodesIntoOpenFile BY Zenon DEF Init, DecodesIntoOpenFile
<1> QED BY <1>1, <1>2, <1>3, <1>4, <1>5, <1>6, <1>7, <1>9, Zenon DEF Init, IInv, TypeOK, FdsOK

\* The steps of the loop that do not touch a file or a byte.
LEMMA ProgramPaces ==
    ASSUME IInv, Test \/ Poll \/ SkipSocket \/ SkipKey \/ HeaderLookedFor \/ CloseFails
    PROVE  IInv'
<1> USE DEF IInv, TypeOK, DecodesIntoOpenFile, Places, download, program, flags, wire, outside
<1>1. CASE Test BY <1>1, SMT DEF Test
<1>2. CASE Poll BY <1>2, SMT DEF Poll, Ready
<1>3. CASE SkipSocket BY <1>3, SMT DEF SkipSocket
<1>4. CASE SkipKey BY <1>4, SMT DEF SkipKey
<1>5. CASE HeaderLookedFor BY <1>5, SMT DEF HeaderLookedFor, Decoded, HeaderDecoded
<1>6. CASE CloseFails
  <2>1. FdsOK(opened')
    <3>1. FdsOK(opened) BY Zenon DEF FdsOK
    <3>2. opened' = opened \/ opened' = Closed BY <1>6, Zenon DEF CloseFails
    <3> QED BY <3>1, <3>2, ClosedType, Zenon
  <2>2. /\ DOMAIN opened' \subseteq Nat /\ IsFiniteSet(DOMAIN opened')
        /\ \A fd \in DOMAIN opened' : opened'[fd] \in Names
    BY <2>1, Zenon DEF FdsOK
  <2> QED BY <1>6, <2>2, SMT DEF CloseFails, Decoded
<1> QED BY <1>1, <1>2, <1>3, <1>4, <1>5, <1>6

\* A read moves a part of to_client to the buffer.
LEMMA ReadSocketInv ==
    ASSUME IInv, ReadSocket
    PROVE  IInv'
<1>1. PICK n \in 1 .. Len(to_client) :
          /\ buffer' = SubSeq(to_client, 1, n)
          /\ to_client' = SubSeq(to_client, n + 1, Len(to_client))
  BY DEF ReadSocket
<1>2. buffer' \in Seq(Byte) /\ to_client' \in Seq(Byte)
  BY <1>1 DEF IInv, TypeOK
<1>3. tele' \in TeleStates /\ Waits(tele')
  BY StartType, Zenon DEF IInv, TypeOK, ReadSocket
<1>4. pc = "socket" /\ pc' = "decode"
  BY DEF ReadSocket
<1>5. UNCHANGED <<revents, download, flags, disk, to_host, outside>>
  BY DEF ReadSocket
<1> QED BY <1>2, <1>3, <1>4, <1>5, SMT
        DEF IInv, TypeOK, DecodesIntoOpenFile, Places, download, flags, outside

\* A byte is decoded into the open file, or into none.
LEMMA DecodeByteInv ==
    ASSUME IInv, DecodeByte
    PROVE  IInv'
<1>1. Head(buffer) \in Byte /\ Tail(buffer) \in Seq(Byte)
  BY DEF IInv, TypeOK, DecodeByte
<1>2. tele' \in TeleStates /\ Waits(tele')
  BY <1>1, ByteType, Zenon DEF IInv, TypeOK, DecodeByte
<1>3. /\ DOMAIN disk' = DOMAIN disk
      /\ \A name \in DOMAIN disk' : disk'[name] \in Seq(Byte)
  <2>1. CASE ~is_downloading
    BY <2>1 DEF IInv, TypeOK, DecodeByte
  <2>2. CASE is_downloading
    <3> DEFINE more == TeleOutput(tele, Head(buffer))
    <3>1. disk' = [disk EXCEPT ![download_file] = disk[download_file] \o more]
      BY <2>2, SMT DEF DecodeByte
    <3>2. download_file \in DOMAIN disk
      BY <2>2, SMT DEF DecodeByte, IInv, DecodesIntoOpenFile, download_file
    <3>3. more \in Seq(Byte)
      BY <1>1, OutputType DEF IInv, TypeOK
    <3> HIDE DEF more
    <3>4. disk[download_file] \o more \in Seq(Byte)
      BY <3>2, <3>3 DEF IInv, TypeOK
    <3> QED BY <3>1, <3>2, <3>4 DEF IInv, TypeOK
  <2> QED BY <2>1, <2>2
<1>4. pc = "decode" /\ buffer' = Tail(buffer)
  BY DEF DecodeByte
<1>5. UNCHANGED <<pc, revents, download, flags, wire, outside>>
  BY DEF DecodeByte
<1> QED BY <1>1, <1>2, <1>3, <1>4, <1>5, SMT
        DEF IInv, TypeOK, DecodesIntoOpenFile, Places, download, flags, wire, outside

\* A frame that does not end the file changes nothing but what is sent.
LEMMA FrameContinuesInv ==
    ASSUME IInv, FrameContinues
    PROVE  IInv'
<1>1. /\ to_host' \in Seq(Ascii)
      /\ socket_closed' \in BOOLEAN /\ terminate_received' \in BOOLEAN
  <2>1. CASE tele.end_of_frame
    <3>1. Write(MORE) BY <2>1 DEF FrameContinues
    <3>2. MORE \in Ascii BY SMT DEF MORE, Ascii
    <3> QED BY <3>1, <3>2, WriteType DEF IInv
  <2>2. CASE ~tele.end_of_frame
    BY <2>2, SMT DEF FrameContinues, IInv, TypeOK, flags
  <2> QED BY <2>1, <2>2
<1>2. pc = "decode" /\ pc' = "stdin"
  BY DEF FrameContinues, Decoded
<1>3. UNCHANGED <<revents, buffer, tele, download, disk, to_client, outside>>
  BY DEF FrameContinues
<1> QED BY <1>1, <1>2, <1>3, SMT
        DEF IInv, TypeOK, DecodesIntoOpenFile, Places, download, outside

\* The end of the file ends the download and closes the file together.
LEMMA FileEndsInv ==
    ASSUME IInv, FileEnds
    PROVE  IInv'
<1>1. /\ to_host' \in Seq(Ascii)
      /\ socket_closed' \in BOOLEAN /\ terminate_received' \in BOOLEAN
  <2>1. MORE \in Ascii BY SMT DEF MORE, Ascii
  <2> QED BY <2>1, WriteType DEF IInv, FileEnds
<1>2. tele' \in TeleStates /\ Waits(tele')
  BY ResetType, Zenon DEF FileEnds
<1>3. download_fd' = NoFd /\ download_fd' \in Nat \cup {NoFd}
  BY Zenon DEF FileEnds
<1>4. ~is_downloading' /\ is_downloading' \in BOOLEAN /\ can_download' \in BOOLEAN
  BY Zenon DEF FileEnds
<1>5. pc' = "stdin"
  BY DEF FileEnds
<1>6. UNCHANGED <<revents, buffer, disk, to_client, outside>>
  BY DEF FileEnds
<1>7. /\ DOMAIN opened' \subseteq Nat /\ IsFiniteSet(DOMAIN opened')
      /\ \A fd \in DOMAIN opened' : opened'[fd] \in Names
  <2>1. FdsOK(opened) BY Zenon DEF IInv, TypeOK, FdsOK
  <2>2. opened' = Closed BY Zenon DEF FileEnds
  <2> QED BY <2>1, <2>2, ClosedType, Zenon DEF FdsOK
<1> QED BY <1>1, <1>2, <1>3, <1>4, <1>5, <1>6, <1>7, SMT
        DEF IInv, TypeOK, DecodesIntoOpenFile, Places, outside

\* What the user typed is characters.
LEMMA KeyType ==
    ASSUME TypeOK, KeyReady
    PROVE  Head(typed) \in Ascii /\ Tail(typed) \in Seq(Ascii)
BY DEF TypeOK, KeyReady

\* CTRL-g opens the file in the step that begins the download.
LEMMA StartDownloadInv ==
    ASSUME IInv, StartDownload
    PROVE  IInv'
<1>1. /\ to_host' \in Seq(Ascii)
      /\ socket_closed' \in BOOLEAN /\ terminate_received' \in BOOLEAN
  <2>1. MORE \in Ascii BY SMT DEF MORE, Ascii
  <2> QED BY <2>1, WriteType DEF IInv, StartDownload
<1>2. typed' \in Seq(Ascii)
  BY KeyType DEF IInv, StartDownload, ReadKey
<1>3. tele.filename \in Names
  BY FieldRanges DEF IInv, TypeOK, Names
<1>4. /\ DOMAIN disk' = DOMAIN disk \cup {tele.filename}
      /\ \A name \in DOMAIN disk' : disk'[name] \in Seq(Byte)
  BY SMT DEF IInv, TypeOK, StartDownload
<1>5. DOMAIN disk' \subseteq Names
  BY <1>3, <1>4 DEF IInv, TypeOK
<1>6. download_fd' = NewFd /\ is_downloading' = TRUE
  BY DEF StartDownload
<1>10. /\ FdsOK(opened')
       /\ NewFd \in DOMAIN opened' /\ opened'[NewFd] = tele.filename
       /\ NewFd \in Nat
  <2>1. FdsOK(opened) BY Zenon DEF IInv, TypeOK, FdsOK
  <2>2. opened' = [fd \in DOMAIN opened \cup {NewFd} |->
                      IF fd = NewFd THEN tele.filename ELSE opened[fd]]
    BY Zenon DEF StartDownload
  <2> QED BY <1>3, <2>1, <2>2, OpenedType
<1>11. /\ download_fd' \in Nat \cup {NoFd}
       /\ download_fd' \in DOMAIN opened' /\ opened'[download_fd'] \in DOMAIN disk'
       /\ DOMAIN opened' \subseteq Nat /\ IsFiniteSet(DOMAIN opened')
       /\ \A fd \in DOMAIN opened' : opened'[fd] \in Names
  BY <1>4, <1>6, <1>10, Zenon DEF FdsOK
<1>7. pc' = "timer"
  BY DEF StartDownload
<1>8. UNCHANGED <<revents, buffer, tele, can_download, to_client, host, host_open, timer>>
  BY DEF StartDownload
<1>9. is_downloading' /\ is_downloading' \in BOOLEAN
  BY <1>6, Zenon
<1> QED BY <1>1, <1>2, <1>4, <1>5, <1>7, <1>8, <1>9, <1>11, SMT
        DEF IInv, TypeOK, DecodesIntoOpenFile, Places

\* A failed open leads out of the loop; other keys touch no file.
LEMMA OtherKeysInv ==
    ASSUME IInv, OpenFails \/ KeepKey \/ SendKey
    PROVE  IInv'
<1>1. typed' \in Seq(Ascii)
  BY KeyType, Zenon DEF IInv, OpenFails, KeepKey, SendKey, ReadKey
<1>2. CASE OpenFails
  <2>1. is_downloading' \in BOOLEAN
    BY <1>2, Zenon DEF OpenFails
  <2>2. download_fd' \in Nat \cup {NoFd}
    BY <1>2, Zenon DEF OpenFails
  <2> QED BY <1>1, <1>2, <2>1, <2>2, SMT
          DEF OpenFails, IInv, TypeOK, DecodesIntoOpenFile, Places, flags, wire
<1>3. CASE KeepKey
  BY <1>1, <1>3, SMT
     DEF KeepKey, KeyReady, IInv, TypeOK, DecodesIntoOpenFile, Places, download, flags, wire
<1>4. CASE SendKey
  <2>1. /\ to_host' \in Seq(Ascii)
        /\ socket_closed' \in BOOLEAN /\ terminate_received' \in BOOLEAN
    BY <1>4, KeyType, WriteType DEF IInv, SendKey
  <2>2. pc = "stdin" /\ pc' = "timer"
    BY <1>4 DEF SendKey, KeyReady
  <2>3. UNCHANGED <<revents, buffer, tele, download, disk, to_client, host, host_open, timer>>
    BY <1>4 DEF SendKey
  <2> QED BY <1>1, <2>1, <2>2, <2>3, SMT
          DEF IInv, TypeOK, DecodesIntoOpenFile, Places, download
<1> QED BY <1>2, <1>3, <1>4

\* The end of a turn, and the end of the program.
LEMMA ProgramEndInv ==
    ASSUME IInv, ServeTimer \/ Cleanup
    PROVE  IInv'
<1>1. CASE ServeTimer
  <2>1. timer' \in BOOLEAN BY <1>1, Zenon DEF ServeTimer, IInv, TypeOK
  <2>2. pc = "timer" /\ pc' = "test" BY <1>1 DEF ServeTimer
  <2>3. UNCHANGED <<revents, buffer, tele, download, flags, disk, wire, host, host_open, typed>>
    BY <1>1 DEF ServeTimer
  <2> QED BY <2>1, <2>2, <2>3, SMT
          DEF IInv, TypeOK, DecodesIntoOpenFile, Places, download, flags, wire
<1>2. CASE Cleanup
  <2>1. LOGOFF \in Ascii BY SMT DEF LOGOFF, Ascii
  <2>2. Append(to_host, LOGOFF) \in Seq(Ascii) BY <2>1 DEF IInv, TypeOK
  <2>3. to_host' \in Seq(Ascii) BY <1>2, <2>2, SMT DEF Cleanup, IInv, TypeOK
  <2>4. /\ DOMAIN opened' \subseteq Nat /\ IsFiniteSet(DOMAIN opened')
        /\ \A fd \in DOMAIN opened' : opened'[fd] \in Names
    <3>1. FdsOK(opened) BY Zenon DEF IInv, TypeOK, FdsOK
    <3>2. opened' = Closed BY <1>2, Zenon DEF Cleanup
    <3> QED BY <3>1, <3>2, ClosedType, Zenon DEF FdsOK
  <2> QED BY <1>2, <2>3, <2>4, SMT
          DEF Cleanup, IInv, TypeOK, DecodesIntoOpenFile, Places, flags, outside
<1> QED BY <1>1, <1>2

\* What the host, the user, the timer and signals do.
LEMMA SurroundingsInv ==
    ASSUME IInv,
           \/ HostAnswers \/ HostCloses \/ \E key \in Keys : TypeKey(key)
           \/ TimerExpires \/ Signal
    PROVE  IInv'
<1>1. CASE HostAnswers
  <2>1. Head(to_host) \in Ascii /\ Tail(to_host) \in Seq(Ascii)
    BY <1>1 DEF HostAnswers, IInv, TypeOK
  <2>2. host' \in Pages /\ to_client' \in Seq(Byte) /\ host_open' \in BOOLEAN
    <3>1. CASE Head(to_host) = LOGOFF
      <4>1. host_open' \in BOOLEAN BY <1>1, <3>1, Zenon DEF HostAnswers
      <4> QED BY <1>1, <3>1, <4>1, SMT DEF HostAnswers, IInv, TypeOK
    <3>2. CASE Head(to_host) # LOGOFF
      <4>1. host' = PageAfter[<<host, Head(to_host)>>]
        BY <1>1, <3>2 DEF HostAnswers
      <4>2. host' \in Pages
        BY <2>1, <4>1, SessionAssumption DEF IInv, TypeOK
      <4>3. Transmission[host'] \in Seq(Byte)
        BY <4>2, SessionAssumption
      <4>4. to_client' = to_client \o Transmission[host'] /\ host_open' = host_open
        BY <1>1, <3>2 DEF HostAnswers
      <4>5. to_client' \in Seq(Byte)
        BY <4>3, <4>4 DEF IInv, TypeOK
      <4> QED BY <4>2, <4>4, <4>5 DEF IInv, TypeOK
    <3> QED BY <3>1, <3>2
  <2>3. to_host' \in Seq(Ascii)
    BY <1>1, <2>1 DEF HostAnswers
  <2>4. UNCHANGED <<program, flags, disk, typed, timer>>
    BY <1>1 DEF HostAnswers
  <2> QED BY <2>2, <2>3, <2>4, SMT DEF IInv, TypeOK, DecodesIntoOpenFile, download, program, flags
<1>2. CASE HostCloses
  <2>1. host_open' \in BOOLEAN BY <1>2, Zenon DEF HostCloses
  <2>2. to_host' \in Seq(Ascii) BY <1>2 DEF HostCloses
  <2>3. UNCHANGED <<program, flags, disk, to_client, host, typed, timer>>
    BY <1>2 DEF HostCloses
  <2> QED BY <2>1, <2>2, <2>3, SMT DEF IInv, TypeOK, DecodesIntoOpenFile, download, program, flags
<1>3. CASE \E key \in Keys : TypeKey(key)
  <2>1. PICK key \in Keys : TypeKey(key) BY <1>3
  <2>2. key \in Ascii BY SessionAssumption
  <2>3. typed' \in Seq(Ascii) BY <2>1, <2>2 DEF TypeKey, IInv, TypeOK
  <2>4. UNCHANGED <<program, flags, disk, wire, host, host_open, timer>>
    BY <2>1 DEF TypeKey
  <2> QED BY <2>3, <2>4, SMT DEF IInv, TypeOK, DecodesIntoOpenFile, download, program, flags, wire
<1>4. CASE TimerExpires
  <2>1. timer' \in BOOLEAN BY <1>4, Zenon DEF TimerExpires
  <2>2. UNCHANGED <<program, flags, disk, wire, host, host_open, typed>>
    BY <1>4 DEF TimerExpires
  <2> QED BY <2>1, <2>2, SMT DEF IInv, TypeOK, DecodesIntoOpenFile, download, program, flags, wire
<1>5. CASE Signal
  <2>1. terminate_received' \in BOOLEAN BY <1>5, Zenon DEF Signal
  <2>2. pc' = pc \/ (pc = "poll" /\ pc' = "test") BY <1>5, SMT DEF Signal
  <2>3. UNCHANGED <<revents, buffer, tele, download, socket_closed, disk, wire, outside>>
    BY <1>5 DEF Signal
  <2> QED BY <2>1, <2>2, <2>3, SMT
          DEF IInv, TypeOK, DecodesIntoOpenFile, Places, download, wire, outside
<1> QED BY <1>1, <1>2, <1>3, <1>4, <1>5

\* Every step keeps the invariant.
LEMMA NextInv == IInv /\ [Next]_vars => IInv'
<1> SUFFICES ASSUME IInv, [Next]_vars PROVE IInv' OBVIOUS
<1>1. CASE Program
  BY <1>1, ProgramPaces, ReadSocketInv, DecodeByteInv, FrameContinuesInv, FileEndsInv,
     StartDownloadInv, OtherKeysInv, ProgramEndInv, Zenon DEF Program
<1>2. CASE \/ HostAnswers \/ HostCloses \/ \E key \in Keys : TypeKey(key)
           \/ TimerExpires \/ Signal
  BY <1>2, SurroundingsInv, Zenon
<1>3. CASE UNCHANGED vars
  BY <1>3, SMT DEF IInv, TypeOK, DecodesIntoOpenFile, vars, download, program, flags, wire, outside
<1> QED BY <1>1, <1>2, <1>3, Zenon DEF Next

\* The inductive invariant holds in every reachable state of src/main.c's loop.
THEOREM SessionInvariance == Spec => []IInv
BY InitInv, NextInv, PTL DEF Spec

\* The variables keep their types: in particular the state of vt_tele_decode()
\* stays within 0 to 4, and only |G and |Z wait for more bytes.
THEOREM SessionTypeCorrect == Spec => []TypeOK
<1>1. IInv => TypeOK BY DEF IInv
<1> QED BY <1>1, SessionInvariance, PTL

\* A download has a descriptor that is open for its file, and download_fd is
\* closed when there is none, for any host, any keys and any read sizes.
THEOREM DownloadHasOpenFile == Spec => []DecodesIntoOpenFile
<1>1. IInv => DecodesIntoOpenFile BY DEF IInv
<1> QED BY <1>1, SessionInvariance, PTL

-----------------------------------------------------------------------------
(* The files that are lost.                                                *)

Restarts == is_downloading /\ KeyReady /\ Head(typed) = KEY_DOWNLOAD

\* A descriptor that is not download_fd stays as it is, and CTRL-g has none to
\* lose without a download.
LEMMA NextLoses ==
    ASSUME IInv, [Next]_vars
    PROVE  Lost' \subseteq Lost \/ Restarts
<1>1. ASSUME UNCHANGED <<opened, download_fd>> PROVE Lost' \subseteq Lost
  BY <1>1, Zenon DEF Lost
<1>2. DOMAIN Closed = DOMAIN opened \ {download_fd}
  BY Zenon DEF Closed
<1>3. CASE CloseFails \/ Cleanup
  <2>1. opened' = opened \/ opened' = Closed
    BY <1>3, Zenon DEF CloseFails, Cleanup
  <2>2. download_fd' = download_fd
    BY <1>3, Zenon DEF CloseFails, Cleanup
  <2> QED BY <1>2, <2>1, <2>2, Zenon DEF Lost
<1>4. CASE FileEnds
  <2>1. opened' = Closed
    BY <1>4, Zenon DEF FileEnds
  <2> QED BY <1>2, <2>1, Zenon DEF Lost
<1>5. CASE StartDownload \/ OpenFails
  <2>1. KeyReady /\ Head(typed) = KEY_DOWNLOAD /\ pc = "stdin"
    BY <1>5, Zenon DEF StartDownload, OpenFails, KeyReady
  <2>2. CASE is_downloading
    BY <2>1, <2>2, Zenon DEF Restarts
  <2>3. CASE ~is_downloading
    <3>1. download_fd = NoFd
      BY <2>1, <2>3, SMT DEF IInv, DecodesIntoOpenFile
    <3>2. NoFd \notin DOMAIN opened
      BY SMT DEF IInv, TypeOK, NoFd
    <3>3. Lost = DOMAIN opened
      BY <3>1, <3>2, Zenon DEF Lost
    <3>4. CASE OpenFails
      <4>1. opened' = opened
        BY <3>4, Zenon DEF OpenFails
      <4> QED BY <3>3, <4>1, Zenon DEF Lost
    <3>5. CASE StartDownload
      <4>1. DOMAIN opened' = DOMAIN opened \cup {NewFd} /\ download_fd' = NewFd
        BY <3>5, Zenon DEF StartDownload
      <4> QED BY <3>3, <4>1, Zenon DEF Lost
    <3> QED BY <1>5, <3>4, <3>5
  <2> QED BY <2>2, <2>3
<1>6. CASE Test \/ Poll \/ SkipSocket \/ SkipKey \/ HeaderLookedFor
  BY <1>1, <1>6, Zenon DEF Test, Poll, SkipSocket, SkipKey, HeaderLookedFor, download
<1>7. CASE ReadSocket \/ DecodeByte \/ FrameContinues \/ KeepKey \/ SendKey \/ ServeTimer
  BY <1>1, <1>7, Zenon DEF ReadSocket, DecodeByte, FrameContinues, KeepKey, SendKey,
     ServeTimer, download
<1>8. CASE HostAnswers \/ HostCloses \/ \E key \in Keys : TypeKey(key)
  BY <1>1, <1>8, Zenon DEF HostAnswers, HostCloses, TypeKey, program, download
<1>9. CASE TimerExpires \/ Signal
  BY <1>1, <1>9, Zenon DEF TimerExpires, Signal, program, download
<1>10. CASE UNCHANGED vars
  BY <1>1, <1>10, Zenon DEF vars, program, download
<1> QED BY <1>3, <1>4, <1>5, <1>6, <1>7, <1>8, <1>9, <1>10, Zenon DEF Next, Program

\* A descriptor is lost only to a CTRL-g that is typed during a download: the end
\* of a file, the end of the session and a failing open() lose none.
THEOREM FilesLostToRestarts == Spec => LosesFileOnlyToRestart
<1>1. IInv /\ [Next]_vars => [Lost' \subseteq Lost \/ Restarts]_vars
  BY NextLoses, Zenon
<1> QED BY <1>1, SessionInvariance, PTL DEF Spec, LosesFileOnlyToRestart, Restarts
=============================================================================
