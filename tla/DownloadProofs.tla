--------------------------- MODULE DownloadProofs ---------------------------
(***************************************************************************)
(* Proofs about a download in module Session, with the host of             *)
(* ViewdataHost, for any content, frames and read sizes.  For its patient  *)
(* user:                                                                   *)
(*   - the next frame is asked for once, between frames;                   *)
(*   - files have the names and the contents that the host gave them;      *)
(*   - a frame passes its checks, wherever the reads cut it.               *)
(* And for a user who types anything at any moment:                        *)
(*   - files have nothing of a page of text but what its codes write.      *)
(*                                                                         *)
(* The invariants say where in the transmission of a page the program is   *)
(* and what the decoder has made of it by then, so that no induction over  *)
(* a frame is needed: every byte that is decoded leads to the next place.  *)
(***************************************************************************)
EXTENDS ViewdataHost, SessionProofs, FiniteSetTheorems

-----------------------------------------------------------------------------
(* Places in the transmission of a page: the number of bytes decoded.      *)

Size(page)    == Len(Transmission[page])
Code(page, i) == Transmission[page][i] % 128
From(s, pos)  == SubSeq(s, pos + 1, Len(s))

\* The bytes read or on their way.
rest == buffer \o to_client

LastPage(page)  == page.frame > 1 /\ page.frame = Frames(page.program)
PieceOf(page)   == Piece(page.program, page.frame - 1)
BodySize(page)  == Size(page) - 14 - Len(Ending(page.program, page.frame))
Body(page)      == [i \in 1 .. BodySize(page) |-> Code(page, 9 + i)]

\* Where the characters of a piece end in the body of its frame.
IsCut(cut, page) ==
    /\ cut[0] = 0 /\ cut[Len(PieceOf(page))] = BodySize(page)
    /\ \A i \in 1 .. Len(PieceOf(page)) :
          SubSeq(Body(page), cut[i - 1] + 1, cut[i]) = Encoded(PieceOf(page)[i])
Cut(page) ==
    CHOOSE cut \in [0 .. Len(PieceOf(page)) -> 0 .. BodySize(page)] : IsCut(cut, page)

\* Which byte of a character's encoding writes it.
IsShifted(c) == c \notin 32 .. 126 /\ c # CR
Lead(c)      == Len(Encoded(c)) - (IF IsShifted(c) THEN 2 ELSE 0)

-----------------------------------------------------------------------------
(* What the decoder has made of a page, by the place.                      *)

\* Between frames.
Quiet(t) == t.state = 0 /\ ~t.in_frame /\ t.shift_offset = 0

\* In a page of text: after a bar, or at a character of the screen.
TextAt(t, pos) ==
    /\ t.state \in {0, 1} /\ ~t.in_frame /\ t.shift_offset = 0
    /\ t.state = 1 => pos \in 1 .. Size(TextPage) /\ Code(TextPage, pos) = CHAR_BAR

\* At the first bytes of a frame, up to its |.
HeadAt(t, pos) ==
    /\ t.state = (IF pos \in {2, 4, 8} THEN 1 ELSE IF pos = 5 THEN 2 ELSE 0)
    /\ (t.in_frame <=> pos >= 3) /\ t.shift_offset = 0
    /\ pos = 5 => t.control_code = FRAME_LETTER
    /\ pos \in 6 .. 8 => t.ignore

\* Within the data of a header.
HeaderAt(t, page, j) ==
    /\ t.state = (IF j = 2 THEN 1 ELSE 0) /\ t.in_frame /\ t.shift_offset = 0
    /\ j <= 1 => t.control_code = TERMINATOR
    /\ j <= 2 => ~t.ignore
    /\ t.frame_number = 1 =>
          /\ ~t.end_of_file
          /\ t.filename = (IF j = 0 THEN << >> ELSE FileName(page.program))
          /\ j >= 3 => t.ignore

\* Where a character of a file is taken, and after j bytes of its encoding.
Open(t, state, shift) ==
    t.state = state /\ t.in_frame /\ ~t.ignore /\ t.shift_offset = shift
SymbolAt(t, c, j) ==
    Open(t, IF j > 0 /\ Encoded(c)[j] = CHAR_BAR THEN 1 ELSE 0,
         IF IsShifted(c) /\ j \in 2 .. Len(Encoded(c)) - 1
         THEN ShiftOffset(ShiftOf(c)) ELSE 0)

\* Within the characters of a piece, m of them written: after i characters and j
\* bytes of the next.
PieceAt(t, page, pos, m) ==
    \/ \E i \in 0 .. Len(PieceOf(page)) - 1 :
       \E j \in 0 .. Len(Encoded(PieceOf(page)[i + 1])) - 1 :
          /\ pos = 9 + Cut(page)[i] + j
          /\ SymbolAt(t, PieceOf(page)[i + 1], j)
          /\ m = i + (IF j >= Lead(PieceOf(page)[i + 1]) THEN 1 ELSE 0)
    \/ /\ pos = 9 + BodySize(page) /\ m = Len(PieceOf(page))
       /\ Open(t, 0, 0)

\* At the end of a frame: |F, after the k-th byte of |Z and its digits.
EndingAt(t, k) ==
    /\ t.state = (IF k = -1 THEN 1 ELSE 0)
    /\ (t.in_frame <=> k = -1) /\ t.shift_offset = 0
TrailerAt(t, page, k) ==
    /\ t.state = (IF k = 5 THEN 0 ELSE k)
    /\ (t.in_frame <=> k = 1 /\ ~LastPage(page)) /\ t.shift_offset = 0
    /\ k \in 2 .. 4 => t.control_code = END_OF_FRAME

\* What m is where no piece is being written.
Whole(page) == IF page.frame > 1 THEN Len(PieceOf(page)) ELSE 0

\* The frames of a page are counted, until the end of the last resets the count.
Counted(t, page, pos) ==
    \/ t.frame_number >= (IF page.frame > 1 THEN 1 ELSE 0) + (IF pos >= 3 THEN 1 ELSE 0)
    \/ LastPage(page) /\ pos = Size(page)

\* The name of a file is known after its header.
Named(t, page, pos) ==
    page.frame = 1 /\ pos >= 3 /\ t.frame_number = 1 =>
        /\ ~t.end_of_file
        /\ pos >= 14 => t.filename = FileName(page.program)
        /\ pos <= 8 => t.filename = << >>

PartAt(t, page, pos, m) ==
    \/ pos <= 8 /\ m = 0 /\ HeadAt(t, pos)
    \/ page.frame = 1 /\ pos \in 9 .. 14 /\ m = 0 /\ HeaderAt(t, page, pos - 9)
    \/ page.frame > 1 /\ PieceAt(t, page, pos, m)
    \/ /\ LastPage(page) /\ pos \in Size(page) - 6 .. Size(page) - 5
       /\ m = Whole(page) /\ EndingAt(t, pos - (Size(page) - 5))
    \/ /\ pos >= Size(page) - 4
       /\ m = Whole(page) /\ TrailerAt(t, page, pos - (Size(page) - 5))

FrameAt(t, page, pos, m) ==
    Counted(t, page, pos) /\ Named(t, page, pos) /\ PartAt(t, page, pos, m)

TeleAt(t, page, pos, m) ==
    /\ t.frame_number = 0 => t.filename = << >> /\ ~t.end_of_file
    /\ IF page = TextPage THEN TextAt(t, pos) /\ m = 0 ELSE FrameAt(t, page, pos, m)

-----------------------------------------------------------------------------
(* The invariant.                                                          *)

Active == pc \notin {"cleanup", "exited"}

\* The file of a program that is being written has the content up to this place:
\* nothing while the host still shows the header.
FileAt(p, pos, m) ==
    /\ download_file = FileName(p)
    /\ host # TextPage /\ host.program = p
    /\ host.frame = 1 =>
          /\ tele.frame_number = 1 /\ ~tele.end_of_file
          /\ disk[download_file] = << >>
          /\ pos = Size(host) /\ pc # "decode"
    /\ host.frame > 1 =>
          /\ tele.frame_number = host.frame - (IF pos < 3 THEN 1 ELSE 0)
          /\ (tele.end_of_file <=> LastPage(host) /\ pos >= Size(host) - 5)
          /\ disk[download_file] = SubSeq(Content[p], 1, UpTo(p, host.frame - 2) + m)

\* A download waits for the page that it has asked for.
DownloadAt(pos, m) ==
    is_downloading /\ Active =>
        /\ typed = << >> /\ to_host \in {<< >>, <<MORE>>}
        /\ pc = "decode" => to_host = << >>
        /\ tele.end_of_file => pc = "decode"
        /\ \E p \in Programs : FileAt(p, pos, m)

\* A key is on its way when all of a page has been read.
KeysAt ==
    /\ Len(typed) + Len(to_host) <= 1
    /\ typed # << >> \/ to_host # << >> => rest = << >>
    /\ typed # << >> =>
          /\ ~is_downloading
          /\ Head(typed) = KEY_DOWNLOAD => host # TextPage /\ host.frame = 1
    /\ pc = "decode" /\ to_host # << >> =>
          /\ ~is_downloading /\ to_host = <<MORE>> /\ host # TextPage /\ LastPage(host)
          /\ tele.frame_number = 0

\* The page that the host shows is being read, or all of it has been.
FollowsAt(pos, m) ==
    /\ rest = From(Transmission[host], pos)
    /\ TeleAt(tele, host, pos, m)
    /\ pc = "decode" /\ tele.end_of_frame =>
          IF host = TextPage THEN tele.frame_number = 0 ELSE pos = Size(host)
    /\ DownloadAt(pos, m)
    /\ KeysAt
Follows == \E pos \in 0 .. Size(host), m \in Nat : FollowsAt(pos, m)

\* The file has ended with |F and the rest of its last frame is still to come, or
\* that and the page after it.
LeavesAt(page, k) ==
    /\ ~is_downloading /\ typed = << >>
    /\ tele.frame_number = 0 /\ tele.filename = << >> /\ ~tele.end_of_file
    /\ ~tele.in_frame /\ tele.shift_offset = 0
    /\ LastPage(page)
    /\ tele.state \in {0, k}
    /\ tele.state \in 2 .. 4 => tele.control_code = END_OF_FRAME
    /\ \/ /\ host = page /\ to_host \in {<< >>, <<MORE>>}
          /\ rest = From(Transmission[page], (Size(page) - 5) + k)
       \/ /\ host = TextPage /\ to_host = << >>
          /\ rest = From(Transmission[page], (Size(page) - 5) + k) \o Transmission[TextPage]
Leaves == \E page \in TelePages \ {TextPage} : \E k \in 0 .. 4 : LeavesAt(page, k)

\* can_download is what the last read has found, but for a download.
OfferInv ==
    can_download /\ ~is_downloading /\ pc # "decode" => tele.frame_number = 1

PatientInv ==
    /\ buffer # << >> => pc = "decode"
    /\ OfferInv
    /\ pc # "exited" => Follows \/ Leaves
    /\ FilesAreFaithful

-----------------------------------------------------------------------------
(* Ends of sequences.                                                      *)

\* Sequences of the same length with the same elements are the same.
LEMMA SameSequence ==
    ASSUME NEW S, NEW s \in Seq(S), NEW r \in Seq(S), Len(s) = Len(r),
           \A i \in 1 .. Len(s) : s[i] = r[i]
    PROVE  s = r
OBVIOUS

\* The length and the elements of one sequence after another.
Has(S, s, n) == s \in Seq(S) /\ Len(s) = n /\ n \in Nat
Joins(S, b, s, m, r, n) ==
    /\ b \in Seq(S) /\ Len(b) = m + n
    /\ \A i \in 1 .. m : b[i] = s[i]
    /\ \A i \in 1 .. n : b[m + i] = r[i]

\* What \o gives.
LEMMA Concatenated ==
    ASSUME NEW S, NEW s, NEW m, Has(S, s, m), NEW r, NEW n, Has(S, r, n)
    PROVE  Joins(S, s \o r, s, m, r, n)
BY SMTT(20) DEF Has, Joins

\* What is left of a sequence loses its first element.
LEMMA FromStep ==
    ASSUME NEW S, NEW s \in Seq(S), NEW pos \in 0 .. Len(s) - 1
    PROVE  /\ From(s, pos) # << >> /\ From(s, pos) \in Seq(S)
           /\ Head(From(s, pos)) = s[pos + 1] /\ Tail(From(s, pos)) = From(s, pos + 1)
<1>1. pos \in Nat /\ Len(s) \in Nat /\ pos < Len(s) OBVIOUS
<1>2. From(s, pos) \in Seq(S) /\ Len(From(s, pos)) = Len(s) - pos
      /\ \A i \in 1 .. Len(s) - pos : From(s, pos)[i] = s[pos + i]
  BY <1>1 DEF From
<1>3. From(s, pos + 1) \in Seq(S) /\ Len(From(s, pos + 1)) = Len(s) - pos - 1
      /\ \A i \in 1 .. Len(s) - pos - 1 : From(s, pos + 1)[i] = s[pos + 1 + i]
  BY <1>1 DEF From
<1>4. From(s, pos) # << >> /\ Head(From(s, pos)) = s[pos + 1] BY <1>1, <1>2
<1>5. /\ Tail(From(s, pos)) \in Seq(S) /\ Len(Tail(From(s, pos))) = Len(s) - pos - 1
      /\ \A i \in 1 .. Len(s) - pos - 1 : Tail(From(s, pos))[i] = s[pos + 1 + i]
  BY <1>1, <1>2, <1>4
<1>6. Tail(From(s, pos)) = From(s, pos + 1)
  <2>1. Len(Tail(From(s, pos))) = Len(From(s, pos + 1)) BY <1>3, <1>5
  <2>2. \A i \in 1 .. Len(Tail(From(s, pos))) : Tail(From(s, pos))[i] = From(s, pos + 1)[i]
    BY <1>3, <1>5
  <2> QED BY <1>3, <1>5, <2>1, <2>2, SameSequence
<1> QED BY <1>2, <1>4, <1>6

\* From the start all is left, and at the end, only there, nothing.
LEMMA FromEnds ==
    ASSUME NEW S, NEW s \in Seq(S)
    PROVE  /\ From(s, 0) = s /\ From(s, Len(s)) = << >>
           /\ \A pos \in 0 .. Len(s) : From(s, pos) = << >> => pos = Len(s)
           /\ \A pos \in 0 .. Len(s) : From(s, pos) \in Seq(S)
<1>1. ASSUME NEW pos \in 0 .. Len(s)
      PROVE  From(s, pos) \in Seq(S) /\ Len(From(s, pos)) = Len(s) - pos
             /\ \A i \in 1 .. Len(s) - pos : From(s, pos)[i] = s[pos + i]
  BY DEF From
<1>2. Len(s) \in Nat /\ 0 \in 0 .. Len(s) /\ Len(s) \in 0 .. Len(s) OBVIOUS
<1>3. From(s, 0) = s
  <2>1. From(s, 0) \in Seq(S) /\ Len(From(s, 0)) = Len(s) BY <1>1, <1>2
  <2>2. \A i \in 1 .. Len(From(s, 0)) : From(s, 0)[i] = s[i] BY <1>1, <1>2
  <2> QED BY <2>1, <2>2, SameSequence
<1>4. From(s, Len(s)) = << >>
  <2>1. From(s, Len(s)) \in Seq(S) /\ Len(From(s, Len(s))) = 0 BY <1>1, <1>2
  <2> QED BY <2>1
<1>5. ASSUME NEW pos \in 0 .. Len(s), From(s, pos) = << >> PROVE pos = Len(s)
  BY <1>1, <1>2, <1>5
<1> QED BY <1>1, <1>3, <1>4, <1>5

\* The first of two sequences loses its first element.
LEMMA TailOfBoth ==
    ASSUME NEW S, NEW s \in Seq(S), NEW r \in Seq(S), s # << >>
    PROVE  s \o r # << >> /\ Head(s \o r) = Head(s) /\ Tail(s \o r) = Tail(s) \o r
<1>1. Len(s) \in Nat /\ Len(s) > 0 /\ Len(r) \in Nat OBVIOUS
<1>2. s \o r \in Seq(S) /\ Len(s \o r) = Len(s) + Len(r) /\ s \o r # << >> BY <1>1
<1>3. Head(s \o r) = Head(s) BY <1>1, <1>2
<1>4. Tail(s) \in Seq(S) /\ Tail(s \o r) \in Seq(S) /\ Tail(s) \o r \in Seq(S)
  BY <1>1, <1>2
<1>5. Len(Tail(s \o r)) = Len(Tail(s) \o r) BY <1>1, <1>2, <1>4
<1>6. \A i \in 1 .. Len(Tail(s) \o r) : Tail(s \o r)[i] = (Tail(s) \o r)[i]
  BY <1>1, <1>2, <1>4, <1>5
<1> QED BY <1>2, <1>3, <1>4, <1>5, <1>6

\* Nothing before or behind a sequence.
LEMMA NothingMore ==
    ASSUME NEW S, NEW s \in Seq(S)
    PROVE  << >> \o s = s /\ s \o << >> = s
OBVIOUS

\* A read splits what has arrived.
LEMMA SplitOnce ==
    ASSUME NEW S, NEW s \in Seq(S), NEW n \in 1 .. Len(s)
    PROVE  /\ SubSeq(s, 1, n) \in Seq(S) /\ SubSeq(s, n + 1, Len(s)) \in Seq(S)
           /\ SubSeq(s, 1, n) \o SubSeq(s, n + 1, Len(s)) = s
           /\ SubSeq(s, 1, n) # << >>
<1>1. SubSeq(s, 1, n) \in Seq(S) /\ Len(SubSeq(s, 1, n)) = n
      /\ \A i \in 1 .. n : SubSeq(s, 1, n)[i] = s[i] OBVIOUS
<1>2. SubSeq(s, n + 1, Len(s)) \in Seq(S) /\ Len(SubSeq(s, n + 1, Len(s))) = Len(s) - n
      /\ \A i \in 1 .. Len(s) - n : SubSeq(s, n + 1, Len(s))[i] = s[n + i] OBVIOUS
<1> DEFINE both == SubSeq(s, 1, n) \o SubSeq(s, n + 1, Len(s))
<1>3. both \in Seq(S) /\ Len(both) = Len(s) BY <1>1, <1>2
<1>4. \A i \in 1 .. Len(s) : both[i] = s[i] BY <1>1, <1>2
<1> QED BY <1>1, <1>2, <1>3, <1>4

\* What a file holds of a content grows by the next character.
LEMMA OneMore ==
    ASSUME NEW S, NEW s \in Seq(S), NEW n \in 0 .. Len(s) - 1
    PROVE  SubSeq(s, 1, n) \o <<s[n + 1]>> = SubSeq(s, 1, n + 1)
<1>1. n \in Nat /\ Len(s) \in Nat /\ n + 1 \in 1 .. Len(s) /\ s[n + 1] \in S OBVIOUS
<1>2. SubSeq(s, 1, n) \in Seq(S) /\ Len(SubSeq(s, 1, n)) = n
      /\ \A i \in 1 .. n : SubSeq(s, 1, n)[i] = s[i] BY <1>1
<1>3. SubSeq(s, 1, n + 1) \in Seq(S) /\ Len(SubSeq(s, 1, n + 1)) = n + 1
      /\ \A i \in 1 .. n + 1 : SubSeq(s, 1, n + 1)[i] = s[i] BY <1>1
<1> DEFINE both == SubSeq(s, 1, n) \o <<s[n + 1]>>
<1>4. both \in Seq(S) /\ Len(both) = n + 1 BY <1>1, <1>2
<1>5. \A i \in 1 .. n + 1 : both[i] = s[i] BY <1>1, <1>2
<1> QED BY <1>3, <1>4, <1>5

-----------------------------------------------------------------------------
(* The bytes of a frame.                                                   *)

\* A checksum is a character, so that it has three digits.
LEMMA ChecksumType ==
    ASSUME NEW bytes \in Seq(Ascii)
    PROVE  Checksum(bytes) \in Ascii
<1> DEFINE Ones(w) == {i \in DOMAIN bytes : Bit(bytes[i], w) = 1}
           Odd(w)  == Cardinality(Ones(w)) % 2
<1>1. IsFiniteSet(DOMAIN bytes)
  <2>1. DOMAIN bytes = 1 .. Len(bytes) /\ Len(bytes) \in Int /\ 1 \in Int OBVIOUS
  <2> QED BY <2>1, FS_Interval
<1>2. ASSUME NEW w PROVE Odd(w) \in {0, 1}
  <2>1. Ones(w) \subseteq DOMAIN bytes OBVIOUS
  <2>2. Cardinality(Ones(w)) \in Nat BY <1>1, <2>1, FS_Subset, FS_CardinalityType
  <2> HIDE DEF Ones
  <2> QED BY <2>2
<1>3. Checksum(bytes) = Odd(1) + 2 * Odd(2) + 4 * Odd(4) + 8 * Odd(8) + 16 * Odd(16)
                            + 32 * Odd(32) + 64 * Odd(64)
  BY Zenon DEF Checksum
<1> HIDE DEF Odd
<1>4. \A a, b, c, d, e, f, g \in {0, 1} :
          a + 2 * b + 4 * c + 8 * d + 16 * e + 32 * f + 64 * g \in Ascii
  BY SMT DEF Ascii
<1>5. /\ Odd(1) \in {0, 1} /\ Odd(2) \in {0, 1} /\ Odd(4) \in {0, 1} /\ Odd(8) \in {0, 1}
      /\ Odd(16) \in {0, 1} /\ Odd(32) \in {0, 1} /\ Odd(64) \in {0, 1}
  BY <1>2, Zenon
<1> DEFINE sum(a, b, c, d, e, f, g) ==
               a + 2 * b + 4 * c + 8 * d + 16 * e + 32 * f + 64 * g
<1>6. sum(Odd(1), Odd(2), Odd(4), Odd(8), Odd(16), Odd(32), Odd(64)) \in Ascii
  <2> DEFINE B == {0, 1}
  <2>1. \A a, b, c, d, e, f, g \in B : sum(a, b, c, d, e, f, g) \in Ascii BY <1>4
  <2>2. /\ Odd(1) \in B /\ Odd(2) \in B /\ Odd(4) \in B /\ Odd(8) \in B
        /\ Odd(16) \in B /\ Odd(32) \in B /\ Odd(64) \in B
    BY <1>5
  <2> HIDE DEF sum, B
  <2> QED BY <2>1, <2>2, Zenon
<1> QED BY <1>3, <1>6, Zenon

\* The digits of a character are digits.
LEMMA DigitsAre ==
    ASSUME NEW sum \in Ascii
    PROVE  /\ Digits(sum) = <<48 + sum \div 100, 48 + ((sum \div 10) % 10), 48 + (sum % 10)>>
           /\ 48 + sum \div 100 \in 48 .. 57 /\ 48 + ((sum \div 10) % 10) \in 48 .. 57
           /\ 48 + (sum % 10) \in 48 .. 57
BY SMT DEF Digits, Ascii

\* What is summed of a frame, and the places of its bytes, the form feed before it
\* included.
Inner(n, data) == <<CHAR_BAR, FRAME_LETTER, 96 + n, 48, CHAR_BAR, TERMINATOR>> \o data
Placed(w, n, data) ==
    /\ w \in Seq(Ascii) /\ Len(w) = 14 + Len(data)
    /\ w[1] = 12 /\ w[2] = CHAR_BAR /\ w[3] = START_FRAME /\ w[4] = CHAR_BAR
    /\ w[5] = FRAME_LETTER /\ w[6] = 96 + n /\ w[7] = 48 /\ w[8] = CHAR_BAR
    /\ w[9] = TERMINATOR
    /\ \A i \in 1 .. Len(data) : w[9 + i] = data[i]
    /\ w[10 + Len(data)] = CHAR_BAR /\ w[11 + Len(data)] = END_OF_FRAME
    /\ \A i \in 12 .. 14 : w[i + Len(data)] \in 48 .. 57
LEMMA FrameLaidOut ==
    ASSUME NEW n \in 1 .. 10, NEW data \in Seq(Ascii)
    PROVE  LET w == <<12>> \o Frame(n, data)
           IN  /\ Inner(n, data) \in Seq(Ascii) /\ Len(Inner(n, data)) = 6 + Len(data)
               /\ \A i \in 1 .. 6 + Len(data) : w[3 + i] = Inner(n, data)[i]
               /\ \A i \in 1 .. 3 :
                     w[11 + Len(data) + i] = Digits(Checksum(Inner(n, data)))[i]
               /\ Placed(w, n, data)
<1> DEFINE head == <<CHAR_BAR, FRAME_LETTER, 96 + n, 48, CHAR_BAR, TERMINATOR>>
           inner == head \o data
           digits == Digits(Checksum(inner))
           f1 == <<CHAR_BAR, START_FRAME>> \o inner
           f2 == f1 \o <<CHAR_BAR, END_OF_FRAME>>
           f3 == f2 \o digits
           w == <<12>> \o f3
<1>0. PICK l \in Nat : l = Len(data) OBVIOUS
<1>1. w = <<12>> \o Frame(n, data) BY Zenon DEF Frame
<1>2. /\ head \in Seq(Ascii) /\ Len(head) = 6 /\ head[1] = CHAR_BAR /\ head[2] = FRAME_LETTER
      /\ head[3] = 96 + n /\ head[4] = 48 /\ head[5] = CHAR_BAR /\ head[6] = TERMINATOR
  BY DEF Ascii, CHAR_BAR, FRAME_LETTER, TERMINATOR
<1> HIDE DEF head
<1>3. /\ inner \in Seq(Ascii) /\ Len(inner) = 6 + l
      /\ \A i \in 1 .. 6 : inner[i] = head[i]
      /\ \A i \in 1 .. l : inner[6 + i] = data[i]
  <2>1. Has(Ascii, data, l) BY <1>0 DEF Has
  <2>2. Has(Ascii, head, 6) BY <1>2 DEF Has
  <2>3. Joins(Ascii, inner, head, 6, data, l) BY <2>1, <2>2, Concatenated, Zenon
  <2> HIDE DEF inner
  <2> QED BY <2>3 DEF Joins
<1>4. digits \in Seq(Ascii) /\ Len(digits) = 3 /\ \A i \in 1 .. 3 : digits[i] \in 48 .. 57
  <2> HIDE DEF inner
  <2>1. Checksum(inner) \in Ascii BY <1>3, ChecksumType
  <2>2. PICK a \in 48 .. 57, b \in 48 .. 57, c \in 48 .. 57 : digits = <<a, b, c>>
    BY <2>1, DigitsAre, Zenon
  <2>3. \A d \in 48 .. 57 : d \in Ascii BY SMT DEF Ascii
  <2>4. Len(<<a, b, c>>) = 3 /\ <<a, b, c>>[1] = a /\ <<a, b, c>>[2] = b /\ <<a, b, c>>[3] = c
        /\ \A i \in 1 .. 3 : i \in {1, 2, 3}
    OBVIOUS
  <2>5. <<a, b, c>> \in Seq(Ascii) BY <2>3, SMTT(20)
  <2> QED BY <2>2, <2>4, <2>5
<1> HIDE DEF inner, digits
<1>5. /\ f1 \in Seq(Ascii) /\ Len(f1) = 8 + l /\ f1[1] = CHAR_BAR /\ f1[2] = START_FRAME
      /\ \A i \in 1 .. 6 + l : f1[2 + i] = inner[i]
  BY <1>0, <1>3 DEF Ascii, CHAR_BAR, START_FRAME
<1> HIDE DEF f1
<1>6. /\ f2 \in Seq(Ascii) /\ Len(f2) = 10 + l
      /\ \A i \in 1 .. 8 + l : f2[i] = f1[i]
      /\ f2[9 + l] = CHAR_BAR /\ f2[10 + l] = END_OF_FRAME
  BY <1>0, <1>5 DEF Ascii, CHAR_BAR, END_OF_FRAME
<1> HIDE DEF f2
<1>7. /\ f3 \in Seq(Ascii) /\ Len(f3) = 13 + l
      /\ \A i \in 1 .. 10 + l : f3[i] = f2[i]
      /\ \A i \in 1 .. 3 : f3[10 + l + i] = digits[i]
  <2>1. Has(Ascii, f2, 10 + l) BY <1>0, <1>6 DEF Has
  <2>2. Has(Ascii, digits, 3) BY <1>4 DEF Has
  <2>3. Joins(Ascii, f3, f2, 10 + l, digits, 3) BY <2>1, <2>2, Concatenated, Zenon
  <2> HIDE DEF f3
  <2> QED BY <1>0, <2>3 DEF Joins
<1> HIDE DEF f3
<1>8. /\ w \in Seq(Ascii) /\ Len(w) = 14 + l /\ w[1] = 12
      /\ \A i \in 1 .. 13 + l : w[1 + i] = f3[i]
  BY <1>0, <1>7 DEF Ascii
<1> HIDE DEF w
<1>9. \A i \in 1 .. 10 + l : w[1 + i] = f2[i] BY <1>0, <1>7, <1>8
<1>10. \A i \in 1 .. 8 + l : w[1 + i] = f1[i] BY <1>0, <1>6, <1>9
<1>11. \A i \in 1 .. 6 + l : w[3 + i] = inner[i]
  <2> TAKE i \in 1 .. 6 + l
  <2>1. 2 + i \in 1 .. 8 + l /\ 1 + (2 + i) = 3 + i BY <1>0
  <2>2. w[1 + (2 + i)] = f1[2 + i] BY <1>10, <2>1
  <2> QED BY <1>5, <2>1, <2>2
<1>12. \A i \in 1 .. 6 : w[3 + i] = head[i] BY <1>0, <1>3, <1>11
<1>13. \A i \in 1 .. l : w[9 + i] = data[i]
  <2> TAKE i \in 1 .. l
  <2>1. 6 + i \in 1 .. 6 + l /\ 3 + (6 + i) = 9 + i BY <1>0
  <2>2. w[3 + (6 + i)] = inner[6 + i] BY <1>11, <2>1
  <2> QED BY <1>3, <2>1, <2>2
<1>14. w[2] = CHAR_BAR /\ w[3] = START_FRAME BY <1>0, <1>5, <1>10
<1>15. w[10 + l] = CHAR_BAR /\ w[11 + l] = END_OF_FRAME BY <1>0, <1>6, <1>9
<1>16. \A i \in 1 .. 3 : w[11 + l + i] = digits[i] /\ w[11 + l + i] \in 48 .. 57
  <2> TAKE i \in 1 .. 3
  <2>1. 10 + l + i \in 1 .. 13 + l /\ 1 + (10 + l + i) = 11 + l + i BY <1>0
  <2>2. w[1 + (10 + l + i)] = f3[10 + l + i] BY <1>8, <2>1
  <2> QED BY <1>4, <1>7, <2>1, <2>2, SMTT(20)
<1>17. /\ w[4] = CHAR_BAR /\ w[5] = FRAME_LETTER /\ w[6] = 96 + n /\ w[7] = 48
       /\ w[8] = CHAR_BAR /\ w[9] = TERMINATOR
  BY <1>2, <1>12
<1>18. \A i \in 12 .. 14 : w[i + l] \in 48 .. 57
  <2> TAKE i \in 12 .. 14
  <2>1. i - 11 \in 1 .. 3 /\ 11 + l + (i - 11) = i + l BY <1>0
  <2>2. w[11 + l + (i - 11)] \in 48 .. 57 BY <1>16, <2>1
  <2> QED BY <2>1, <2>2
<1>19. inner = Inner(n, data) /\ digits = Digits(Checksum(Inner(n, data)))
  BY Zenon DEF inner, head, digits, Inner
<1>20. /\ Inner(n, data) \in Seq(Ascii) /\ Len(Inner(n, data)) = 6 + l
       /\ \A i \in 1 .. 6 + l : w[3 + i] = Inner(n, data)[i]
       /\ \A i \in 1 .. 3 : w[11 + l + i] = Digits(Checksum(Inner(n, data)))[i]
  BY <1>3, <1>11, <1>16, <1>19
<1>21. Placed(w, n, data)
  BY <1>0, <1>8, <1>13, <1>14, <1>15, <1>17, <1>18 DEF Placed
<1> QED BY <1>0, <1>1, <1>20, <1>21

\* A page that is no text is a frame of a program.
LEMMA PageFrame ==
    ASSUME NEW page \in TelePages, page # TextPage
    PROVE  /\ page.program \in Programs /\ page.frame \in 1 .. Frames(page.program)
           /\ page = Page(page.program, page.frame)
           /\ Frames(page.program) \in 2 .. 10
           /\ Frames(page.program) = 1 + Len(Ends[page.program])
           /\ Len(Ends[page.program]) \in 1 .. 9
<1>1. PICK p \in Programs : \E n \in 1 .. Frames(p) : page = Page(p, n)
  BY DEF TelePages
<1>2. PICK n \in 1 .. Frames(p) : page = Page(p, n) BY <1>1
<1>3. page.program = p /\ page.frame = n BY <1>2 DEF Page
<1>4. Len(Ends[p]) \in 1 .. 9 BY HostAssumption, Zenon
<1> DEFINE l == Len(Ends[p])
<1>5. 1 + l \in 2 .. 10
  <2> HIDE DEF l
  <2>1. \A k \in 1 .. 9 : 1 + k \in 2 .. 10 OBVIOUS
  <2>2. l \in 1 .. 9 BY <1>4 DEF l
  <2> QED BY <2>1, <2>2, Zenon
<1>6. Frames(p) = 1 + Len(Ends[p]) /\ Frames(p) \in 2 .. 10 BY <1>5, Zenon DEF Frames
<1> QED BY <1>2, <1>3, <1>4, <1>6

\* The numbers of frames.
LEMMA FrameRange ==
    ASSUME NEW page \in TelePages
    PROVE  /\ page = TextPage => page.frame = 0
           /\ page # TextPage => page.frame \in 1 .. 10
<1>1. page = TextPage => page.frame = 0 BY DEF TextPage, Page
<1>2. page # TextPage => page.frame \in 1 .. 10 BY PageFrame
<1> QED BY <1>1, <1>2

\* What is sent for a page of text.
LEMMA TextBytes ==
    /\ TextPage \in TelePages /\ Transmission[TextPage] \in Seq(Byte)
    /\ \A i \in 1 .. Size(TextPage) : Code(TextPage, i) = CHAR_BAR =>
          i < Size(TextPage) /\ Code(TextPage, i + 1) \notin LastingCodes
<1>1. TextPage \in TelePages BY DEF TelePages
<1>2. IsTransmission(Transmission[TextPage], TextPage) BY <1>1, HostAssumption
<1>3. Transmission[TextPage] \in Seq(Byte) BY <1>2, Zenon DEF IsTransmission
<1>4. IsText(Transmission[TextPage]) BY <1>2, Zenon DEF IsTransmission
<1>5. DOMAIN Transmission[TextPage] = 1 .. Size(TextPage) BY <1>3 DEF Size
<1>6. \A i \in 1 .. Size(TextPage) : Code(TextPage, i) = CHAR_BAR =>
          i < Size(TextPage) /\ Code(TextPage, i + 1) \notin LastingCodes
  BY <1>4, <1>5, Zenon DEF IsText, Code, Size
<1> QED BY <1>1, <1>3, <1>6

\* No code is open before a page of text and after it.
LEMMA TextEnds ==
    ASSUME NEW t
    PROVE  /\ Quiet(t) => TextAt(t, 0)
           /\ TextAt(t, 0) \/ TextAt(t, Size(TextPage)) => Quiet(t)
<1>1. Size(TextPage) \in Nat BY TextBytes DEF Size
<1>2. Quiet(t) => TextAt(t, 0) BY DEF Quiet, TextAt
<1>3. TextAt(t, 0) => Quiet(t) BY DEF Quiet, TextAt
<1>4. ASSUME TextAt(t, Size(TextPage)) PROVE Quiet(t)
  <2>1. t.state # 1
    <3> SUFFICES ASSUME t.state = 1 PROVE FALSE OBVIOUS
    <3>1. Size(TextPage) \in 1 .. Size(TextPage) /\ Code(TextPage, Size(TextPage)) = CHAR_BAR
      BY <1>4, Zenon DEF TextAt
    <3>2. Size(TextPage) < Size(TextPage) BY <3>1, TextBytes, Zenon
    <3> QED BY <1>1, <3>2
  <2> QED BY <1>4, <2>1 DEF TextAt, Quiet
<1> QED BY <1>2, <1>3, <1>4

\* A character with its parity is a byte, and is itself without it.
LEMMA WithParity ==
    ASSUME NEW c \in Ascii
    PROVE  Parity(c) \in {0, 1} /\ (c + 128 * Parity(c)) % 128 = c
<1> DEFINE x == Bit(c, 1) + Bit(c, 2) + Bit(c, 4) + Bit(c, 8) + Bit(c, 16) + Bit(c, 32) + Bit(c, 64)
<1>1. x \in Int BY SMT DEF Bit, Ascii
<1>2. Parity(c) = x % 2 BY DEF Parity
<1> HIDE DEF x
<1>3. Parity(c) \in {0, 1} BY <1>1, <1>2
<1> QED BY <1>3 DEF Ascii

\* The data of a frame, and all its bytes.
LEMMA FrameData ==
    ASSUME NEW page \in TelePages, page # TextPage
    PROVE  LET bytes == Transmission[page]
               data == [i \in 1 .. Size(page) - 14 |-> Code(page, 9 + i)]
               w == <<12>> \o Frame(page.frame, data)
           IN  /\ bytes \in Seq(Byte) /\ Size(page) \in Nat /\ Size(page) >= 14
               /\ data \in Seq(Ascii) /\ Len(data) = Size(page) - 14
               /\ \A i \in 1 .. Size(page) :
                     /\ Code(page, i) = w[i] /\ w[i] \in Ascii
                     /\ bytes[i] = w[i] + 128 * Parity(w[i])
               /\ page.frame = 1 => data = HeaderData(page.program)
               /\ page.frame > 1 =>
                     LET body == SubSeq(data, 1,
                                        Len(data) - Len(Ending(page.program, page.frame)))
                     IN  /\ data = body \o Ending(page.program, page.frame)
                         /\ IsEncoding(body, PieceOf(page))
<1> DEFINE bytes == Transmission[page]
           size == Len(bytes)
           data == [i \in 1 .. size - 14 |-> bytes[9 + i] % 128]
           w == <<12>> \o Frame(page.frame, data)
<1>1. IsTransmission(bytes, page) BY HostAssumption
<1>2. bytes \in Seq(Byte) BY <1>1, Zenon DEF IsTransmission
<1>3. bytes = Transmitted(w) BY <1>1, Zenon DEF IsTransmission
<1>4. /\ page.frame = 1 => data = HeaderData(page.program)
      /\ page.frame > 1 =>
            LET body == SubSeq(data, 1, Len(data) - Len(Ending(page.program, page.frame)))
            IN  data = body \o Ending(page.program, page.frame)
                /\ IsEncoding(body, PieceOf(page))
  BY <1>1, Zenon DEF IsTransmission, PieceOf
<1>5. size \in Nat BY <1>2
<1>6. \A i \in 1 .. size - 14 : bytes[9 + i] % 128 \in Ascii
  <2> TAKE i \in 1 .. size - 14
  <2>1. PICK byte \in Byte : byte = bytes[9 + i] BY <1>2, <1>5
  <2>2. byte % 128 \in Ascii BY ModuloRange DEF Byte
  <2> QED BY <2>1, <2>2, Zenon
<1>7. page.frame \in 1 .. 10 BY PageFrame
<1>8. data \in Seq(Ascii) /\ (size >= 14 => Len(data) = size - 14) /\ (size < 14 => Len(data) = 0)
  <2>1. CASE size >= 14
    <3>1. size - 14 \in Nat /\ ~(size < 14) BY <1>5, <2>1
    <3>2. data \in Seq(Ascii) /\ Len(data) = size - 14
      <4>1. PICK n \in Nat : n = size - 14 BY <3>1
      <4> DEFINE byte(i) == bytes[9 + i] % 128
                 s == [i \in 1 .. n |-> byte(i)]
      <4>2. \A i \in 1 .. n : byte(i) \in Ascii BY <1>6, <4>1
      <4>3. data = s BY <4>1
      <4> HIDE DEF byte, data
      <4>4. s \in Seq(Ascii) /\ Len(s) = n BY <4>2
      <4> HIDE DEF s
      <4> QED BY <4>1, <4>3, <4>4, Zenon
    <3> HIDE DEF data
    <3> QED BY <3>1, <3>2, Zenon
  <2>2. CASE size < 14
    <3>1. 1 .. size - 14 = 1 .. 0 BY <1>5, <2>2
    <3>2. data = [i \in 1 .. 0 |-> bytes[9 + i] % 128] BY <3>1
    <3>3. [i \in 1 .. 0 |-> bytes[9 + i] % 128] \in Seq(Ascii)
          /\ Len([i \in 1 .. 0 |-> bytes[9 + i] % 128]) = 0
      OBVIOUS
    <3> HIDE DEF data
    <3>4. data \in Seq(Ascii) /\ Len(data) = 0 BY <3>2, <3>3, Zenon
    <3>5. ~(size >= 14) BY <1>5, <2>2
    <3> QED BY <3>4, <3>5, Zenon
  <2>3. size >= 14 \/ size < 14 BY <1>5
  <2> HIDE DEF data
  <2> QED BY <2>1, <2>2, <2>3, Zenon
<1> HIDE DEF data
<1>9. w \in Seq(Ascii) /\ Len(w) = 14 + Len(data) BY <1>7, <1>8, FrameLaidOut, Zenon DEF Placed
<1> HIDE DEF w
<1>10. DOMAIN bytes = DOMAIN w BY <1>3 DEF Transmitted
<1>11. size = Len(w) BY <1>2, <1>9, <1>10
<1>12. size >= 14 BY <1>5, <1>8, <1>9, <1>11
<1>13. \A i \in 1 .. size :
          /\ bytes[i] % 128 = w[i] /\ w[i] \in Ascii /\ bytes[i] = w[i] + 128 * Parity(w[i])
  <2> TAKE i \in 1 .. size
  <2>1. i \in DOMAIN w /\ w[i] \in Ascii BY <1>9, <1>11
  <2>2. bytes[i] = w[i] + 128 * Parity(w[i]) BY <1>3, <2>1 DEF Transmitted
  <2> QED BY <2>1, <2>2, WithParity
<1> QED BY <1>2, <1>4, <1>5, <1>8, <1>12, <1>13, Zenon DEF Size, Code, data, w

\* The bytes that every frame has.
LEMMA FrameBytes ==
    ASSUME NEW page \in TelePages, page # TextPage
    PROVE  LET size == Size(page)
           IN  /\ Transmission[page] \in Seq(Byte) /\ size \in Nat /\ size >= 14
               /\ \A i \in 1 .. size : Code(page, i) \in Ascii
               /\ Code(page, 1) = 12 /\ Code(page, 2) = CHAR_BAR
               /\ Code(page, 3) = START_FRAME /\ Code(page, 4) = CHAR_BAR
               /\ Code(page, 5) = FRAME_LETTER /\ Code(page, 6) = 96 + page.frame
               /\ Code(page, 7) = 48 /\ Code(page, 8) = CHAR_BAR
               /\ Code(page, 9) = TERMINATOR
               /\ Code(page, size - 4) = CHAR_BAR /\ Code(page, size - 3) = END_OF_FRAME
               /\ Code(page, size - 2) \in 48 .. 57 /\ Code(page, size - 1) \in 48 .. 57
               /\ Code(page, size) \in 48 .. 57
<1> DEFINE size == Size(page)
           data == [i \in 1 .. size - 14 |-> Code(page, 9 + i)]
           w == <<12>> \o Frame(page.frame, data)
           code(i) == Code(page, i)
<1>1. /\ Transmission[page] \in Seq(Byte) /\ size \in Nat /\ size >= 14
      /\ data \in Seq(Ascii) /\ Len(data) = size - 14
      /\ \A i \in 1 .. size : code(i) = w[i] /\ w[i] \in Ascii
  BY FrameData, Zenon
<1>2. page.frame \in 1 .. 10 BY FrameRange, Zenon
<1> DEFINE k == 9 + Len(data)
           Places14(v) ==
               /\ v[1] = 12 /\ v[2] = CHAR_BAR /\ v[3] = START_FRAME /\ v[4] = CHAR_BAR
               /\ v[5] = FRAME_LETTER /\ v[6] = 96 + page.frame /\ v[7] = 48
               /\ v[8] = CHAR_BAR /\ v[9] = TERMINATOR
               /\ v[k + 1] = CHAR_BAR /\ v[k + 2] = END_OF_FRAME
               /\ v[k + 3] \in 48 .. 57 /\ v[k + 4] \in 48 .. 57 /\ v[k + 5] \in 48 .. 57
<1> HIDE DEF data
<1>2a. Places14(w)
  <2>1. PICK n \in 1 .. 10 : n = page.frame BY <1>2
  <2>2. PICK s \in Seq(Ascii) : s = data BY <1>1
  <2> DEFINE v == <<12>> \o Frame(n, s)
             j == 9 + Len(s)
  <2>3. /\ v[1] = 12 /\ v[2] = CHAR_BAR /\ v[3] = START_FRAME /\ v[4] = CHAR_BAR
        /\ v[5] = FRAME_LETTER /\ v[6] = 96 + n /\ v[7] = 48 /\ v[8] = CHAR_BAR
        /\ v[9] = TERMINATOR
        /\ v[j + 1] = CHAR_BAR /\ v[j + 2] = END_OF_FRAME
        /\ v[j + 3] \in 48 .. 57 /\ v[j + 4] \in 48 .. 57 /\ v[j + 5] \in 48 .. 57
    <3>1. Placed(v, n, s) BY FrameLaidOut, Zenon
    <3> HIDE DEF v
    <3>2. PICK l \in Nat : l = Len(s) OBVIOUS
    <3>3. /\ j + 1 = 10 + l /\ j + 2 = 11 + l /\ j + 3 = 12 + l /\ j + 4 = 13 + l
          /\ j + 5 = 14 + l
      BY <3>2
    <3>4. v[12 + l] \in 48 .. 57 /\ v[13 + l] \in 48 .. 57 /\ v[14 + l] \in 48 .. 57
      BY <3>1, <3>2 DEF Placed
    <3> QED BY <3>1, <3>2, <3>3, <3>4 DEF Placed
  <2> QED BY <2>1, <2>2, <2>3
<1>3. /\ w[1] = 12 /\ w[2] = CHAR_BAR /\ w[3] = START_FRAME /\ w[4] = CHAR_BAR
      /\ w[5] = FRAME_LETTER /\ w[6] = 96 + page.frame /\ w[7] = 48 /\ w[8] = CHAR_BAR
      /\ w[9] = TERMINATOR
      /\ w[k + 1] = CHAR_BAR /\ w[k + 2] = END_OF_FRAME
      /\ w[k + 3] \in 48 .. 57 /\ w[k + 4] \in 48 .. 57 /\ w[k + 5] \in 48 .. 57
  BY <1>2a, Zenon
<1> HIDE DEF w, size, code
<1>4. /\ k + 1 = size - 4 /\ k + 2 = size - 3 /\ k + 3 = size - 2 /\ k + 4 = size - 1
      /\ k + 5 = size
  BY <1>1
<1> HIDE DEF k
<1>5. /\ 1 \in 1 .. size /\ 2 \in 1 .. size /\ 3 \in 1 .. size /\ 4 \in 1 .. size
      /\ 5 \in 1 .. size /\ 6 \in 1 .. size /\ 7 \in 1 .. size /\ 8 \in 1 .. size
      /\ 9 \in 1 .. size /\ size - 4 \in 1 .. size /\ size - 3 \in 1 .. size
      /\ size - 2 \in 1 .. size /\ size - 1 \in 1 .. size /\ size \in 1 .. size
  BY <1>1
<1>6. /\ w[size - 4] = CHAR_BAR /\ w[size - 3] = END_OF_FRAME
      /\ w[size - 2] \in 48 .. 57 /\ w[size - 1] \in 48 .. 57 /\ w[size] \in 48 .. 57
  BY <1>3, <1>4, Zenon
<1>7. /\ code(1) = 12 /\ code(2) = CHAR_BAR /\ code(3) = START_FRAME /\ code(4) = CHAR_BAR
      /\ code(5) = FRAME_LETTER /\ code(6) = 96 + page.frame /\ code(7) = 48
      /\ code(8) = CHAR_BAR /\ code(9) = TERMINATOR
  BY <1>1, <1>3, <1>5, Zenon
<1>8. /\ code(size - 4) = CHAR_BAR /\ code(size - 3) = END_OF_FRAME
      /\ code(size - 2) \in 48 .. 57 /\ code(size - 1) \in 48 .. 57 /\ code(size) \in 48 .. 57
  BY <1>1, <1>5, <1>6, Zenon
<1>9. \A i \in 1 .. size : code(i) \in Ascii BY <1>1, Zenon
<1> QED BY <1>1, <1>7, <1>8, <1>9, Zenon DEF size, code

\* The bytes of a header.
LEMMA HeaderBytes ==
    ASSUME NEW page \in TelePages, page # TextPage, page.frame = 1
    PROVE  /\ Size(page) = 19
           /\ Code(page, 10) = page.program /\ Code(page, 11) = CHAR_BAR
           /\ Code(page, 12) = END_OF_LINE /\ Code(page, 13) = 48
           /\ Code(page, 14) \in 48 .. 57
           /\ Code(page, 14) = 48 + Len(Ends[page.program])
<1> DEFINE size == Size(page)
           code(i) == Code(page, i)
           data == [i \in 1 .. size - 14 |-> code(9 + i)]
           p == page.program
<1>1. size \in Nat /\ size >= 14 /\ Len(data) = size - 14 /\ data = HeaderData(p)
  BY FrameData, Zenon
<1> DEFINE last == 48 + Len(Ends[p])
           more == <<CHAR_BAR, END_OF_LINE, 48, last>>
           all == <<p>> \o more
<1>2. /\ HeaderData(p) = all
      /\ Len(all) = 5 /\ all[1] = p /\ all[2] = CHAR_BAR /\ all[3] = END_OF_LINE
      /\ all[4] = 48 /\ all[5] = last
  <2>1. HeaderData(p) = all BY Zenon DEF HeaderData, FileName
  <2> HIDE DEF last
  <2> DEFINE V == {p, CHAR_BAR, END_OF_LINE, 48, last}
  <2>2. /\ more \in Seq(V) /\ Len(more) = 4 /\ more[1] = CHAR_BAR /\ more[2] = END_OF_LINE
        /\ more[3] = 48 /\ more[4] = last
    OBVIOUS
  <2>3. p \in V OBVIOUS
  <2> HIDE DEF more, V
  <2> DEFINE one == <<p>>
  <2>4. Len(all) = 5 /\ all[1] = p /\ \A i \in 1 .. 4 : all[1 + i] = more[i]
    <3>1. Has(V, more, 4) BY <2>2 DEF Has
    <3>2. Has(V, one, 1) /\ one[1] = p BY <2>3 DEF Has
    <3> HIDE DEF one
    <3>3. all = one \o more BY DEF one
    <3>4. Joins(V, one \o more, one, 1, more, 4) BY <3>1, <3>2, Concatenated, Zenon
    <3>5. Joins(V, all, one, 1, more, 4) BY <3>3, <3>4, Zenon
    <3> HIDE DEF all
    <3> QED BY <3>2, <3>5 DEF Joins
  <2> HIDE DEF all
  <2>5. all[1 + 1] = more[1] /\ all[1 + 2] = more[2] /\ all[1 + 3] = more[3]
        /\ all[1 + 4] = more[4]
    BY <2>4
  <2> QED BY <2>1, <2>2, <2>4, <2>5
<1> HIDE DEF all
<1>3. Len(HeaderData(p)) = 5 BY <1>2
<1>4. size = 19
  <2> HIDE DEF size, data
  <2>1. size - 14 = 5 BY <1>1, <1>3
  <2> QED BY <1>1, <2>1
<1>5. /\ data[1] = p /\ data[2] = CHAR_BAR /\ data[3] = END_OF_LINE /\ data[4] = 48
      /\ data[5] = last
  <2> HIDE DEF data
  <2> QED BY <1>1, <1>2
<1>6. /\ data[1] = code(10) /\ data[2] = code(11) /\ data[3] = code(12) /\ data[4] = code(13)
      /\ data[5] = code(14)
  <2> HIDE DEF size, code
  <2> QED BY <1>4
<1>7. last \in 48 .. 57
  <2> DEFINE l == Len(Ends[p])
  <2>1. l \in 1 .. 9 BY PageFrame, Zenon
  <2> HIDE DEF l
  <2>2. 48 + l \in 48 .. 57 BY <2>1
  <2> QED BY <2>2 DEF l
<1> HIDE DEF data
<1> QED BY <1>4, <1>5, <1>6, <1>7, Zenon DEF size, code, p

\* The ends of the pieces of a content are in order and within it.
LEMMA PieceEnds ==
    ASSUME NEW p \in Programs, NEW n \in 0 .. Len(Ends[p])
    PROVE  /\ Content[p] \in Seq(Byte) /\ Len(Content[p]) \in Nat
           /\ UpTo(p, n) \in 0 .. Len(Content[p])
           /\ \A m \in 0 .. n : UpTo(p, m) <= UpTo(p, n)
<1> DEFINE s == Ends[p]
           l == Len(s)
           all == Content[p]
           upto(m) == UpTo(p, m)
<1>1. s \in Seq(Nat)
  <2>1. Ends \in [Programs -> Seq(Nat)] BY HostAssumption, Zenon
  <2> QED BY <2>1
<1>2. all \in Seq(Byte)
  <2>1. Content \in [Programs -> Seq(Byte)] BY HostAssumption, Zenon
  <2> QED BY <2>1
<1>3. /\ \A m, k \in 0 .. l : m <= k => upto(m) <= upto(k)
      /\ upto(l) = Len(all)
  BY HostAssumption, Zenon
<1>4. ASSUME NEW m \in 0 .. l PROVE upto(m) \in Nat
  <2>1. CASE m = 0 BY <2>1 DEF UpTo
  <2>2. CASE m # 0
    <3>1. upto(m) = s[m] BY <2>2, Zenon DEF UpTo
    <3> HIDE DEF upto
    <3>2. m \in 1 .. Len(s) BY <1>1, <2>2
    <3> HIDE DEF s
    <3>3. s[m] \in Nat BY <1>1, <3>2
    <3> QED BY <3>1, <3>3, Zenon
  <2> QED BY <2>1, <2>2
<1>5. n \in 0 .. l /\ l \in Nat BY <1>1
<1> HIDE DEF upto, all, l
<1>6. l \in 0 .. l /\ n <= l /\ n \in Nat BY <1>5
<1>7. Len(all) \in Nat BY <1>2
<1>8. upto(n) \in Nat /\ upto(n) <= upto(l) BY <1>3, <1>4, <1>5, <1>6
<1>9. upto(n) \in 0 .. Len(all) BY <1>3, <1>7, <1>8
<1>10. ASSUME NEW m \in 0 .. n PROVE upto(m) <= upto(n)
  <2>1. m \in 0 .. l /\ m <= n BY <1>5
  <2> QED BY <1>3, <1>5, <2>1, Zenon
<1> QED BY <1>2, <1>7, <1>9, <1>10, Zenon DEF upto, all

\* A part of a sequence, where it has nothing but elements of it.
LEMMA PartOf ==
    ASSUME NEW S, NEW s \in Seq(S), NEW m \in 0 .. Len(s), NEW n \in m .. Len(s)
    PROVE  /\ SubSeq(s, m + 1, n) \in Seq(S) /\ Len(SubSeq(s, m + 1, n)) = n - m
           /\ n - m \in Nat
           /\ \A i \in 1 .. n - m : SubSeq(s, m + 1, n)[i] = s[m + i] /\ s[m + i] \in S
<1>1. m \in Nat /\ n \in Nat /\ m <= n /\ n <= Len(s) /\ Len(s) \in Nat OBVIOUS
<1> QED BY <1>1

\* The piece in a data frame.
LEMMA PieceIs ==
    ASSUME NEW page \in TelePages, page.frame > 1
    PROVE  LET p == page.program  before == UpTo(p, page.frame - 2)
           IN  /\ p \in Programs /\ Content[p] \in Seq(Byte) /\ before \in Nat
               /\ PieceOf(page) \in Seq(Byte) /\ Len(PieceOf(page)) \in Nat
               /\ before + Len(PieceOf(page)) = UpTo(p, page.frame - 1)
               /\ before + Len(PieceOf(page)) <= Len(Content[p])
               /\ \A i \in 1 .. Len(PieceOf(page)) : PieceOf(page)[i] = Content[p][before + i]
               /\ LastPage(page) => before + Len(PieceOf(page)) = Len(Content[p])
<1> DEFINE p == page.program
           f == page.frame
           before == UpTo(p, f - 2)
           after == UpTo(p, f - 1)
           all == Content[p]
           l == Len(Ends[p])
<1>1. page # TextPage BY DEF TextPage, Page
<1>2. p \in Programs /\ f \in 1 .. 1 + l /\ l \in 0 .. 9 /\ Frames(p) = 1 + l
  <2>1. p \in Programs /\ f \in 1 .. 1 + l /\ l \in 1 .. 9 /\ Frames(p) = 1 + l
    BY <1>1, PageFrame, Zenon
  <2> HIDE DEF l, f
  <2> QED BY <2>1
<1>3. f - 1 \in 0 .. l /\ f - 2 \in 0 .. f - 1 /\ f - 2 \in 0 .. l
  <2> HIDE DEF l, f
  <2>1. f > 1 BY DEF f
  <2> QED BY <1>2, <2>1
<1>4. /\ all \in Seq(Byte) /\ Len(all) \in Nat
      /\ before \in 0 .. Len(all) /\ after \in 0 .. Len(all) /\ before <= after
  BY <1>2, <1>3, PieceEnds, Zenon
<1>5. PieceOf(page) = SubSeq(all, before + 1, after)
  <2>1. (f - 1) - 1 = f - 2
    <3> HIDE DEF f, l
    <3> QED BY <1>2
  <2> QED BY <2>1, Zenon DEF PieceOf, Piece
<1>6. LastPage(page) => after = Len(all)
  <2> SUFFICES ASSUME LastPage(page) PROVE after = Len(all) OBVIOUS
  <2>1. f = 1 + l BY <1>2, Zenon DEF LastPage
  <2>2. f - 1 = l
    <3> HIDE DEF f, l
    <3> QED BY <1>2, <2>1
  <2>3. UpTo(p, l) = Len(all) BY <1>2, HostAssumption, Zenon
  <2> QED BY <2>2, <2>3, Zenon
<1> HIDE DEF before, after, all
<1>7. after \in before .. Len(all) /\ before \in Nat BY <1>4
<1> DEFINE part == SubSeq(all, before + 1, after)
<1>8. /\ part \in Seq(Byte) /\ Len(part) = after - before /\ after - before \in Nat
      /\ \A i \in 1 .. after - before : part[i] = all[before + i]
  BY <1>4, <1>7, PartOf, Zenon
<1> HIDE DEF part
<1>9. Len(part) \in Nat /\ before + Len(part) = after /\ after <= Len(all)
  BY <1>4, <1>7, <1>8
<1>10. \A i \in 1 .. Len(part) : part[i] = all[before + i] BY <1>8, Zenon
<1>11. PieceOf(page) = part BY <1>5 DEF part
<1>12. before + Len(part) <= Len(all) BY <1>9
<1> QED BY <1>2, <1>4, <1>6, <1>7, <1>8, <1>9, <1>10, <1>11, <1>12, Zenon DEF before, after, all, p, f

\* Only the last frame of a file has |F.
LEMMA EndingIs ==
    ASSUME NEW page \in TelePages, page.frame > 1
    PROVE  LET end == Ending(page.program, page.frame)
           IN  /\ LastPage(page) => Len(end) = 2 /\ end[1] = CHAR_BAR /\ end[2] = END_OF_FILE
               /\ ~LastPage(page) => Len(end) = 0
               /\ end \in Seq(Ascii)
<1>1. /\ LastPage(page) =>
            Ending(page.program, page.frame) = <<CHAR_BAR, END_OF_FILE>>
      /\ ~LastPage(page) => Ending(page.program, page.frame) = << >>
  BY DEF LastPage, Ending
<1>2. CHAR_BAR \in Ascii /\ END_OF_FILE \in Ascii BY DEF CHAR_BAR, END_OF_FILE, Ascii
<1> DEFINE code == <<CHAR_BAR, END_OF_FILE>>
<1>3. /\ code \in Seq(Ascii) /\ Len(code) = 2 /\ code[1] = CHAR_BAR /\ code[2] = END_OF_FILE
  BY <1>2
<1>4. << >> \in Seq(Ascii) /\ Len(<< >>) = 0 OBVIOUS
<1> HIDE DEF code
<1>5. /\ LastPage(page) => Ending(page.program, page.frame) = code
      /\ ~LastPage(page) => Ending(page.program, page.frame) = << >>
  BY <1>1 DEF code
<1> QED BY <1>3, <1>4, <1>5, Zenon

\* The bytes of a data frame: the characters of its piece, and |F in the last.
LEMMA DataBytes ==
    ASSUME NEW page \in TelePages, page.frame > 1
    PROVE  /\ BodySize(page) \in Nat
           /\ BodySize(page) = Size(page) - 14 - (IF LastPage(page) THEN 2 ELSE 0)
           /\ Body(page) \in Seq(Ascii) /\ Len(Body(page)) = BodySize(page)
           /\ LastPage(page) =>
                 Code(page, Size(page) - 6) = CHAR_BAR /\ Code(page, Size(page) - 5) = END_OF_FILE
           /\ Cut(page) \in [0 .. Len(PieceOf(page)) -> 0 .. BodySize(page)]
           /\ IsCut(Cut(page), page)
<1> DEFINE size == Size(page)
           data == [i \in 1 .. size - 14 |-> Code(page, 9 + i)]
           end == Ending(page.program, page.frame)
           body == SubSeq(data, 1, Len(data) - Len(end))
           n == Len(PieceOf(page))
           b == BodySize(page)
<1>1. page # TextPage BY DEF TextPage, Page
<1>2. /\ size \in Nat /\ size >= 14 /\ data \in Seq(Ascii) /\ Len(data) = size - 14
      /\ data = body \o end /\ IsEncoding(body, PieceOf(page))
  BY <1>1, FrameData, Zenon
<1>3. \A i \in 1 .. size - 14 : data[i] = Code(page, 9 + i) OBVIOUS
<1>4. /\ LastPage(page) => Len(end) = 2 /\ end[1] = CHAR_BAR /\ end[2] = END_OF_FILE
      /\ ~LastPage(page) => Len(end) = 0
      /\ end \in Seq(Ascii)
  BY EndingIs
<1>5. b = size - 14 - Len(end) BY DEF BodySize
<1> HIDE DEF data, size, end, b
<1>6. Len(end) \in {0, 2} /\ Len(data) \in Nat BY <1>2, <1>4
<1>7. /\ body \in Seq(Ascii) /\ Len(data) = Len(body) + Len(end)
      /\ \A i \in 1 .. Len(body) : data[i] = body[i]
      /\ \A i \in 1 .. Len(end) : data[Len(body) + i] = end[i]
  <2>1. body \in Seq(Ascii)
    <3>1. CASE Len(data) - Len(end) >= 0
      <4>1. 0 \in 0 .. Len(data) /\ Len(data) - Len(end) \in 0 .. Len(data)
        BY <1>6, <3>1
      <4>2. SubSeq(data, 0 + 1, Len(data) - Len(end)) \in Seq(Ascii)
        BY <1>2, <4>1, PartOf, Zenon
      <4>3. 0 + 1 = 1 OBVIOUS
      <4> QED BY <4>2, <4>3, Zenon
    <3>2. CASE Len(data) - Len(end) < 0
      <4> DEFINE k == Len(data) - Len(end)
      <4>1. k \in Int /\ k < 1 BY <1>6, <3>2
      <4>2. body = SubSeq(data, 1, k) OBVIOUS
      <4> HIDE DEF k, body
      <4>3. SubSeq(data, 1, k) \in Seq(Ascii) BY <1>2, <4>1
      <4> QED BY <4>2, <4>3
    <3>3. Len(data) - Len(end) \in Int BY <1>6
    <3> QED BY <3>1, <3>2, <3>3
  <2> HIDE DEF body
  <2>2. PICK m \in Nat : m = Len(body) BY <2>1
  <2>3. Has(Ascii, body, m) BY <2>1, <2>2 DEF Has
  <2>4. Has(Ascii, end, Len(end)) BY <1>4, <1>6 DEF Has
  <2>5. Joins(Ascii, body \o end, body, m, end, Len(end)) BY <2>3, <2>4, Concatenated, Zenon
  <2>6. Joins(Ascii, data, body, m, end, Len(end)) BY <1>2, <2>5, Zenon
  <2> QED BY <2>1, <2>2, <2>6 DEF Joins
<1> HIDE DEF body
<1>8. Len(body) \in Nat /\ Len(body) = b BY <1>2, <1>5, <1>6, <1>7
<1>9. b = size - 14 - (IF LastPage(page) THEN 2 ELSE 0) BY <1>2, <1>4, <1>5
<1>10. \A i \in 1 .. b : data[i] = Code(page, 9 + i)
  BY <1>2, <1>3, <1>5, <1>6
<1>11. body = Body(page) /\ Len(Body(page)) = b
  <2>1. Body(page) = [i \in 1 .. b |-> Code(page, 9 + i)] BY Zenon DEF Body, b
  <2>2. \A i \in 1 .. b : body[i] = Code(page, 9 + i) /\ body[i] \in Ascii
    BY <1>7, <1>8, <1>10
  <2>3. Body(page) \in Seq(Ascii) /\ Len(Body(page)) = b
        /\ \A i \in 1 .. b : Body(page)[i] = body[i]
    <3> DEFINE code(i) == Code(page, 9 + i)
    <3>1. \A i \in 1 .. b : code(i) \in Ascii /\ code(i) = body[i] BY <2>2
    <3>2. Body(page) = [i \in 1 .. b |-> code(i)] BY <2>1
    <3>3. b \in Nat BY <1>8
    <3> HIDE DEF code
    <3> QED BY <3>1, <3>2, <3>3
  <2> QED BY <1>7, <1>8, <2>3, SameSequence
<1>12. ASSUME LastPage(page)
       PROVE  Code(page, size - 6) = CHAR_BAR /\ Code(page, size - 5) = END_OF_FILE
  <2>1. Len(end) = 2 BY <1>4, <1>12
  <2>2. data[b + 1] = CHAR_BAR /\ data[b + 2] = END_OF_FILE
    <3>1. 1 \in 1 .. Len(end) /\ 2 \in 1 .. Len(end) BY <2>1
    <3>2. data[Len(body) + 1] = end[1] /\ data[Len(body) + 2] = end[2]
      BY <1>7, <3>1, Zenon
    <3>3. end[1] = CHAR_BAR /\ end[2] = END_OF_FILE BY <1>4, <1>12
    <3> QED BY <1>8, <3>2, <3>3
  <2>3. /\ b + 1 \in 1 .. size - 14 /\ b + 2 \in 1 .. size - 14
        /\ 9 + (b + 1) = size - 6 /\ 9 + (b + 2) = size - 5
    BY <1>2, <1>5, <1>8, <2>1
  <2> QED BY <1>3, <2>2, <2>3
<1>13. \E cut \in [0 .. n -> 0 .. b] : IsCut(cut, page)
  <2>1. IsEncoding(Body(page), PieceOf(page)) BY <1>2, <1>11
  <2>2. PICK cut \in [0 .. n -> 0 .. Len(Body(page))] :
           /\ cut[0] = 0 /\ cut[n] = Len(Body(page))
           /\ \A i \in 1 .. n :
                 SubSeq(Body(page), cut[i - 1] + 1, cut[i]) = Encoded(PieceOf(page)[i])
    BY <2>1, Zenon DEF IsEncoding
  <2>3. IsCut(cut, page) BY <1>11, <2>2, Zenon DEF IsCut, b
  <2> QED BY <1>11, <2>2, <2>3, Zenon
<1>14. Cut(page) \in [0 .. n -> 0 .. b] /\ IsCut(Cut(page), page)
  BY <1>13, Zenon DEF Cut, b
<1> QED BY <1>7, <1>8, <1>9, <1>11, <1>12, <1>14, Zenon DEF size, b

-----------------------------------------------------------------------------
(* What a byte does to the decoder, but for the checks.                    *)

\* Other fields than state, control_code, ignore and in_frame.
Kept(t, u) ==
    /\ u.frame_number = t.frame_number /\ u.shift_offset = t.shift_offset
    /\ u.filename = t.filename /\ u.end_of_file = t.end_of_file
    /\ u.end_of_frame = t.end_of_frame
\* The fields state, control_code, ignore and in_frame.
Stands(u, state, control_code, ignore, in_frame) ==
    /\ u.state = state /\ u.control_code = control_code
    /\ u.ignore = ignore /\ u.in_frame = in_frame

\* The checks leave the other fields alone.
LEMMA CheckAside ==
    ASSUME NEW t \in TeleStates, Waits(t), NEW byte \in Byte
    PROVE  LET u == TeleByte(t, byte)  v == Taken(t, byte % 128)
           IN  Kept(v, u) /\ Stands(u, v.state, v.control_code, v.ignore, v.in_frame)
<1> DEFINE v == Taken(t, byte % 128)
<1>1. byte % 128 \in Ascii BY ModuloRange DEF Byte
<1>2. v \in TeleStates BY <1>1, TakenType
<1>3. PICK d : TeleByte(t, byte) = [v EXCEPT !.check = d] BY Zenon DEF TeleByte
<1> HIDE DEF v
<1>4. \A u : u = [v EXCEPT !.check = d] =>
          Kept(v, u) /\ Stands(u, v.state, v.control_code, v.ignore, v.in_frame)
  BY <1>2, SMT DEF TeleStates, Kept, Stands
<1> QED BY <1>3, <1>4, Zenon DEF v

\* A bar.
LEMMA BarStep ==
    ASSUME NEW t \in TeleStates, Waits(t), NEW byte \in Byte, byte % 128 = CHAR_BAR
    PROVE  LET u == TeleByte(t, byte)
           IN  /\ Kept(t, u) /\ Stands(u, 1, t.control_code, t.ignore, t.in_frame)
               /\ TeleOutput(t, byte) = << >>
<1> DEFINE v == [t EXCEPT !.state = 1]
<1>1. Taken(t, byte % 128) = v BY Zenon DEF Taken
<1>2. Kept(t, v) /\ Stands(v, 1, t.control_code, t.ignore, t.in_frame)
  BY SMT DEF TeleStates, Kept, Stands
<1>3. TeleOutput(t, byte) = << >> BY Zenon DEF TeleOutput
<1> DEFINE u == TeleByte(t, byte)
<1>4. Kept(v, u) /\ Stands(u, v.state, v.control_code, v.ignore, v.in_frame)
  BY <1>1, CheckAside, Zenon
<1> HIDE DEF u, v
<1>5. Kept(t, u) BY <1>2, <1>4 DEF Kept
<1>6. Stands(u, 1, t.control_code, t.ignore, t.in_frame) BY <1>2, <1>4 DEF Stands
<1> QED BY <1>3, <1>5, <1>6, Zenon DEF u

\* A byte outside a frame.
LEMMA IdleStep ==
    ASSUME NEW t \in TeleStates, Waits(t), NEW byte \in Byte, byte % 128 # CHAR_BAR,
           t.state = 0, ~t.in_frame
    PROVE  LET u == TeleByte(t, byte)
           IN  /\ Kept(t, u) /\ Stands(u, 0, t.control_code, t.ignore, FALSE)
               /\ TeleOutput(t, byte) = << >>
<1>1. ~InData(t) /\ t.state # 1 /\ ~(t.state >= 1) BY DEF InData
<1>2. Taken(t, byte % 128) = t BY <1>1, Zenon DEF Taken
<1>3. TeleOutput(t, byte) = << >> BY <1>1, Zenon DEF TeleOutput
<1>4. t.in_frame = FALSE BY FieldRanges
<1> DEFINE u == TeleByte(t, byte)
<1>5. Kept(t, u) /\ Stands(u, t.state, t.control_code, t.ignore, t.in_frame)
  BY <1>2, CheckAside
<1> HIDE DEF u
<1>6. Stands(u, 0, t.control_code, t.ignore, FALSE) BY <1>4, <1>5 DEF Stands
<1> QED BY <1>3, <1>5, <1>6, Zenon DEF u

\* A byte of data that is no part of a name.
LEMMA DataStep ==
    ASSUME NEW t \in TeleStates, Waits(t), NEW byte \in Byte, byte % 128 # CHAR_BAR,
           t.state = 0, t.in_frame, ~IsName(t)
    PROVE  LET u == TeleByte(t, byte)
           IN  /\ Kept(t, u) /\ Stands(u, 0, t.control_code, t.ignore, TRUE)
               /\ TeleOutput(t, byte) =
                     IF t.ignore \/ t.frame_number = 1 THEN << >>
                     ELSE <<Char(DataChar(byte % 128) + t.shift_offset)>>
<1>1. InData(t) BY DEF InData
<1>2. Taken(t, byte % 128) = t BY <1>1, Zenon DEF Taken, Data
<1>3. TeleOutput(t, byte) = IF t.ignore \/ t.frame_number = 1 THEN << >>
                            ELSE <<Char(DataChar(byte % 128) + t.shift_offset)>>
  BY <1>1, Zenon DEF TeleOutput
<1>4. t.in_frame = TRUE BY FieldRanges
<1> DEFINE u == TeleByte(t, byte)
           v == Taken(t, byte % 128)
<1>5. Kept(t, u) /\ Stands(u, t.state, t.control_code, t.ignore, t.in_frame)
  <2>1. Kept(v, u) /\ Stands(u, v.state, v.control_code, v.ignore, v.in_frame)
    BY CheckAside, Zenon
  <2>2. v = t BY <1>2
  <2> HIDE DEF u, v
  <2> QED BY <2>1, <2>2
<1> HIDE DEF u
<1>6. Stands(u, 0, t.control_code, t.ignore, TRUE) BY <1>4, <1>5 DEF Stands
<1> QED BY <1>3, <1>5, <1>6, Zenon DEF u

\* A byte of the name.
LEMMA NameStep ==
    ASSUME NEW t \in TeleStates, Waits(t), NEW byte \in Byte, byte % 128 # CHAR_BAR,
           t.state = 0, t.in_frame, IsName(t)
    PROVE  LET u == TeleByte(t, byte)
           IN  /\ Stands(u, 0, t.control_code, t.ignore, TRUE)
               /\ u.frame_number = t.frame_number /\ u.shift_offset = t.shift_offset
               /\ u.filename = Append(t.filename, byte % 128)
               /\ u.end_of_file = t.end_of_file /\ u.end_of_frame = t.end_of_frame
               /\ TeleOutput(t, byte) = << >>
<1> DEFINE name == Append(t.filename, byte % 128)
           v == [t EXCEPT !.filename = name]
<1>1. InData(t) /\ t.frame_number = 1 BY Zenon DEF InData, IsName
<1>2. Taken(t, byte % 128) = v BY <1>1, Zenon DEF Taken, Data
<1>3. TeleOutput(t, byte) = << >> BY <1>1, Zenon DEF TeleOutput
<1>4. t.in_frame = TRUE BY FieldRanges
<1> HIDE DEF name
<1>5. /\ Stands(v, 0, t.control_code, t.ignore, TRUE)
      /\ v.frame_number = t.frame_number /\ v.shift_offset = t.shift_offset
      /\ v.filename = name
      /\ v.end_of_file = t.end_of_file /\ v.end_of_frame = t.end_of_frame
  BY <1>4, SMT DEF TeleStates, Stands
<1> HIDE DEF v
<1> DEFINE u == TeleByte(t, byte)
<1>6. Kept(v, u) /\ Stands(u, v.state, v.control_code, v.ignore, v.in_frame)
  BY <1>2, CheckAside
<1> HIDE DEF u
<1>7. /\ Stands(u, 0, t.control_code, t.ignore, TRUE)
      /\ u.frame_number = t.frame_number /\ u.shift_offset = t.shift_offset
      /\ u.filename = name
      /\ u.end_of_file = t.end_of_file /\ u.end_of_frame = t.end_of_frame
  BY <1>5, <1>6 DEF Kept, Stands
<1> QED BY <1>3, <1>7, Zenon DEF u, name

\* The code of a control sequence, where it is not a bar or data.
LEMMA CodeTaken ==
    ASSUME NEW t \in TeleStates, Waits(t), t.state = 1, NEW b \in Ascii, b # CHAR_BAR
    PROVE  LET coded == [t EXCEPT !.control_code = b]
           IN  /\ Taken(t, b) = Obey(coded)
               /\ coded \in TeleStates /\ Kept(t, coded)
               /\ Stands(coded, 1, b, t.ignore, t.in_frame)
<1> DEFINE coded == [t EXCEPT !.control_code = b]
<1>1. ~InData(t) /\ t.state >= 1 BY DEF InData
<1>2. Taken(t, b) = Obey(coded) BY <1>1, Zenon DEF Taken, Control
<1>3. coded \in TeleStates BY FieldTypes, Zenon
<1>4. Kept(t, coded) /\ Stands(coded, 1, b, t.ignore, t.in_frame)
  BY SMT DEF TeleStates, Kept, Stands
<1> QED BY <1>2, <1>3, <1>4, Zenon

\* What a code writes.
LEMMA CodeOutput ==
    ASSUME NEW t, t.state = 1, NEW byte, byte % 128 # CHAR_BAR
    PROVE  LET b == byte % 128
           IN  TeleOutput(t, byte) =
                  IF b = CHAR_THREE_QUARTERS THEN <<Char(CHAR_THREE_QUARTERS + t.shift_offset)>>
                  ELSE IF b = BAR THEN <<Char(CHAR_BAR + t.shift_offset)>>
                  ELSE IF b = END_OF_LINE /\ t.frame_number # 1 THEN <<CR>> ELSE << >>
<1>1. ~InData(t) BY DEF InData
<1>2. CHAR_THREE_QUARTERS # BAR /\ CHAR_THREE_QUARTERS # END_OF_LINE /\ BAR # END_OF_LINE
  BY DEF CHAR_THREE_QUARTERS, BAR, END_OF_LINE
<1> QED BY <1>1, <1>2, Zenon DEF TeleOutput

\* The codes that move the decoder on, apart from |G and |Z.
LEMMA ObeyCode ==
    ASSUME NEW t \in TeleStates, t.state = 1
    PROVE  LET u == Obey(t)  code == t.control_code
           IN  /\ code = TERMINATOR => Kept(t, u) /\ Stands(u, 0, code, FALSE, t.in_frame)
               /\ code = END_OF_LINE =>
                     Kept(t, u)
                     /\ Stands(u, 0, code, t.ignore \/ t.frame_number = 1, t.in_frame)
               /\ code \in {BAR, CHAR_THREE_QUARTERS} =>
                     Kept(t, u) /\ Stands(u, 0, code, t.ignore, t.in_frame)
               /\ code = FRAME_LETTER => Kept(t, u) /\ Stands(u, 2, code, t.ignore, t.in_frame)
               /\ code = END_OF_FRAME => Kept(t, u) /\ Stands(u, 2, code, t.ignore, FALSE)
<1> DEFINE u == Obey(t)
           code == t.control_code
           done == [t EXCEPT !.state = 0]
<1> USE DEF SHIFTS, START_FRAME, END_OF_FILE, FRAME_LETTER, TERMINATOR, END_OF_LINE,
            END_OF_FRAME, START_DATA, START_HEADER, BAR, CHAR_THREE_QUARTERS
<1>1. ASSUME code = TERMINATOR PROVE Kept(t, u) /\ Stands(u, 0, code, FALSE, t.in_frame)
  <2>1. u = [done EXCEPT !.ignore = FALSE] BY <1>1, SMT DEF Obey
  <2>2. PICK n \in BOOLEAN : n = FALSE BY Zenon
  <2>3. u = [t EXCEPT !.state = 0, !.ignore = n] BY <2>1, <2>2
  <2> HIDE DEF u
  <2> QED BY <2>2, <2>3 DEF TeleStates, Kept, Stands
<1>2. ASSUME code = END_OF_LINE
      PROVE  Kept(t, u) /\ Stands(u, 0, code, t.ignore \/ t.frame_number = 1, t.in_frame)
  <2> DEFINE n == t.ignore \/ t.frame_number = 1
  <2>1. u = [done EXCEPT !.ignore = n] BY <1>2, SMT DEF Obey
  <2> HIDE DEF u, n
  <2>2. Kept(t, u) /\ Stands(u, 0, code, n, t.in_frame) BY <2>1 DEF TeleStates, Kept, Stands
  <2> QED BY <2>2 DEF n
<1>3. ASSUME code \in {BAR, CHAR_THREE_QUARTERS}
      PROVE  Kept(t, u) /\ Stands(u, 0, code, t.ignore, t.in_frame)
  <2>1. u = done BY <1>3, SMT DEF Obey
  <2> HIDE DEF u
  <2> QED BY <2>1 DEF TeleStates, Kept, Stands
<1>4. ASSUME code = FRAME_LETTER
      PROVE  Kept(t, u) /\ Stands(u, 2, code, t.ignore, t.in_frame)
  <2>1. u = [t EXCEPT !.state = 2] BY <1>4, SMT DEF Obey
  <2> HIDE DEF u
  <2> QED BY <2>1 DEF TeleStates, Kept, Stands
<1>5. ASSUME code = END_OF_FRAME
      PROVE  Kept(t, u) /\ Stands(u, 2, code, t.ignore, FALSE)
  <2>1. u = EndOfFrame(t) BY <1>5, SMT DEF Obey
  <2>2. u = [t EXCEPT !.state = 2, !.in_frame = FALSE] BY <2>1, SMT DEF EndOfFrame
  <2>3. PICK n \in BOOLEAN : n = FALSE BY Zenon
  <2>4. u = [t EXCEPT !.state = 2, !.in_frame = n] BY <2>2, <2>3
  <2> HIDE DEF u
  <2> QED BY <2>3, <2>4 DEF TeleStates, Kept, Stands
<1> QED BY <1>1, <1>2, <1>3, <1>4, <1>5, Zenon

\* The codes that change the counts of a file.
LEMMA ObeyMore ==
    ASSUME NEW t \in TeleStates, t.state = 1
    PROVE  LET u == Obey(t)  code == t.control_code
           IN  /\ code \in SHIFTS =>
                     /\ Stands(u, 0, code, t.ignore, t.in_frame)
                     /\ u.frame_number = t.frame_number
                     /\ u.shift_offset = ShiftOffset(code)
                     /\ u.filename = t.filename /\ u.end_of_file = t.end_of_file
                     /\ u.end_of_frame = t.end_of_frame
               /\ code = START_FRAME =>
                     /\ Stands(u, 0, code, t.ignore, TRUE)
                     /\ u.frame_number = t.frame_number + 1
                     /\ u.shift_offset = t.shift_offset
                     /\ u.filename = t.filename /\ u.end_of_file = t.end_of_file
                     /\ u.end_of_frame = t.end_of_frame
               /\ code = END_OF_FILE =>
                     /\ Stands(u, 0, code, t.ignore, FALSE)
                     /\ u.frame_number = t.frame_number
                     /\ u.shift_offset = t.shift_offset
                     /\ u.filename = t.filename /\ u.end_of_file = TRUE
                     /\ u.end_of_frame = t.end_of_frame
<1> DEFINE u == Obey(t)
           code == t.control_code
           done == [t EXCEPT !.state = 0]
<1>1. ASSUME code \in SHIFTS
      PROVE  /\ Stands(u, 0, code, t.ignore, t.in_frame)
             /\ u.frame_number = t.frame_number
             /\ u.shift_offset = ShiftOffset(code)
             /\ u.filename = t.filename /\ u.end_of_file = t.end_of_file
             /\ u.end_of_frame = t.end_of_frame
  <2> DEFINE n == ShiftOffset(code)
  <2>1. u = [done EXCEPT !.shift_offset = n]
    BY <1>1, SMT DEF Obey, SHIFTS, START_FRAME, END_OF_FILE, FRAME_LETTER, TERMINATOR,
       END_OF_LINE, END_OF_FRAME, START_DATA, START_HEADER, BAR, CHAR_THREE_QUARTERS
  <2> HIDE DEF n, u
  <2>2. /\ Stands(u, 0, code, t.ignore, t.in_frame)
        /\ u.frame_number = t.frame_number
        /\ u.shift_offset = n
        /\ u.filename = t.filename /\ u.end_of_file = t.end_of_file
        /\ u.end_of_frame = t.end_of_frame
    BY <2>1 DEF TeleStates, Stands
  <2> QED BY <2>2, Zenon DEF n
<1>2. ASSUME code = START_FRAME
      PROVE  /\ Stands(u, 0, code, t.ignore, TRUE)
             /\ u.frame_number = t.frame_number + 1
             /\ u.shift_offset = t.shift_offset
             /\ u.filename = t.filename /\ u.end_of_file = t.end_of_file
             /\ u.end_of_frame = t.end_of_frame
  <2>1. u = [done EXCEPT !.frame_number = t.frame_number + 1, !.in_frame = TRUE]
    BY <1>2, SMT DEF Obey, SHIFTS, START_FRAME, END_OF_FILE, FRAME_LETTER, TERMINATOR,
       END_OF_LINE, END_OF_FRAME, START_DATA, START_HEADER, BAR, CHAR_THREE_QUARTERS
  <2>2. PICK yes \in BOOLEAN : yes = TRUE BY Zenon
  <2> DEFINE n == t.frame_number + 1
  <2>3. u = [done EXCEPT !.frame_number = n, !.in_frame = yes] BY <2>1, <2>2
  <2> HIDE DEF n, u
  <2>4. /\ Stands(u, 0, code, t.ignore, yes)
        /\ u.frame_number = n /\ u.shift_offset = t.shift_offset
        /\ u.filename = t.filename /\ u.end_of_file = t.end_of_file
        /\ u.end_of_frame = t.end_of_frame
    BY <2>3 DEF TeleStates, Stands
  <2> QED BY <2>2, <2>4, Zenon DEF n, Stands
<1>3. ASSUME code = END_OF_FILE
      PROVE  /\ Stands(u, 0, code, t.ignore, FALSE)
             /\ u.frame_number = t.frame_number
             /\ u.shift_offset = t.shift_offset
             /\ u.filename = t.filename /\ u.end_of_file = TRUE
             /\ u.end_of_frame = t.end_of_frame
  <2>1. u = [done EXCEPT !.end_of_file = TRUE, !.in_frame = FALSE]
    BY <1>3, SMT DEF Obey, SHIFTS, START_FRAME, END_OF_FILE, FRAME_LETTER, TERMINATOR,
       END_OF_LINE, END_OF_FRAME, START_DATA, START_HEADER, BAR, CHAR_THREE_QUARTERS
  <2>2. PICK yes \in BOOLEAN, no \in BOOLEAN : yes = TRUE /\ no = FALSE BY Zenon
  <2>3. u = [done EXCEPT !.end_of_file = yes, !.in_frame = no] BY <2>1, <2>2
  <2> HIDE DEF u
  <2>4. /\ Stands(u, 0, code, t.ignore, no)
        /\ u.frame_number = t.frame_number /\ u.shift_offset = t.shift_offset
        /\ u.filename = t.filename /\ u.end_of_file = yes
        /\ u.end_of_frame = t.end_of_frame
    BY <2>3 DEF TeleStates, Stands
  <2> QED BY <2>2, <2>4, Zenon DEF Stands
<1> QED BY <1>1, <1>2, <1>3, Zenon

\* Where a state and a count of a file stand.
Counts(u, frame_number, shift_offset, filename, end_of_file, end_of_frame) ==
    /\ u.frame_number = frame_number /\ u.shift_offset = shift_offset
    /\ u.filename = filename /\ u.end_of_file = end_of_file
    /\ u.end_of_frame = end_of_frame

\* A control code.
LEMMA CodeStep ==
    ASSUME NEW t \in TeleStates, Waits(t), t.state = 1, NEW byte \in Byte,
           byte % 128 # CHAR_BAR
    PROVE  LET u == TeleByte(t, byte)  code == byte % 128
           IN  /\ code = TERMINATOR => Kept(t, u) /\ Stands(u, 0, code, FALSE, t.in_frame)
               /\ code = END_OF_LINE =>
                     Kept(t, u)
                     /\ Stands(u, 0, code, t.ignore \/ t.frame_number = 1, t.in_frame)
               /\ code \in {BAR, CHAR_THREE_QUARTERS} =>
                     Kept(t, u) /\ Stands(u, 0, code, t.ignore, t.in_frame)
               /\ code = FRAME_LETTER => Kept(t, u) /\ Stands(u, 2, code, t.ignore, t.in_frame)
               /\ code = END_OF_FRAME => Kept(t, u) /\ Stands(u, 2, code, t.ignore, FALSE)
               /\ code \in SHIFTS =>
                     /\ Stands(u, 0, code, t.ignore, t.in_frame)
                     /\ Counts(u, t.frame_number, ShiftOffset(code), t.filename,
                               t.end_of_file, t.end_of_frame)
               /\ code = START_FRAME =>
                     /\ Stands(u, 0, code, t.ignore, TRUE)
                     /\ Counts(u, t.frame_number + 1, t.shift_offset, t.filename,
                               t.end_of_file, t.end_of_frame)
               /\ code = END_OF_FILE =>
                     /\ Stands(u, 0, code, t.ignore, FALSE)
                     /\ Counts(u, t.frame_number, t.shift_offset, t.filename,
                               TRUE, t.end_of_frame)
<1> DEFINE u == TeleByte(t, byte)
           b == byte % 128
           coded == [t EXCEPT !.control_code = b]
           v == Obey(coded)
<1>1. b \in Ascii BY ModuloRange DEF Byte
<1>2. /\ Taken(t, b) = v /\ coded \in TeleStates /\ Kept(t, coded)
      /\ Stands(coded, 1, b, t.ignore, t.in_frame)
  BY <1>1, CodeTaken
<1>3. Kept(v, u) /\ Stands(u, v.state, v.control_code, v.ignore, v.in_frame)
  <2> HIDE DEF coded
  <2> QED BY <1>2, CheckAside
<1> HIDE DEF coded, u, b
<1>4. /\ coded.state = 1 /\ coded.control_code = b /\ coded.ignore = t.ignore
      /\ coded.in_frame = t.in_frame
  BY <1>2 DEF Stands
<1>5. /\ coded.frame_number = t.frame_number /\ coded.shift_offset = t.shift_offset
      /\ coded.filename = t.filename /\ coded.end_of_file = t.end_of_file
      /\ coded.end_of_frame = t.end_of_frame
  BY <1>2 DEF Kept
<1>6. /\ b = TERMINATOR => Kept(coded, v) /\ Stands(v, 0, b, FALSE, t.in_frame)
      /\ b = END_OF_LINE =>
            Kept(coded, v) /\ Stands(v, 0, b, t.ignore \/ t.frame_number = 1, t.in_frame)
      /\ b \in {BAR, CHAR_THREE_QUARTERS} =>
            Kept(coded, v) /\ Stands(v, 0, b, t.ignore, t.in_frame)
      /\ b = FRAME_LETTER => Kept(coded, v) /\ Stands(v, 2, b, t.ignore, t.in_frame)
      /\ b = END_OF_FRAME => Kept(coded, v) /\ Stands(v, 2, b, t.ignore, FALSE)
  BY <1>2, <1>4, <1>5, ObeyCode
<1>7. /\ b \in SHIFTS =>
            /\ Stands(v, 0, b, t.ignore, t.in_frame)
            /\ Counts(v, t.frame_number, ShiftOffset(b), t.filename,
                      t.end_of_file, t.end_of_frame)
      /\ b = START_FRAME =>
            /\ Stands(v, 0, b, t.ignore, TRUE)
            /\ Counts(v, t.frame_number + 1, t.shift_offset, t.filename,
                      t.end_of_file, t.end_of_frame)
      /\ b = END_OF_FILE =>
            /\ Stands(v, 0, b, t.ignore, FALSE)
            /\ Counts(v, t.frame_number, t.shift_offset, t.filename, TRUE, t.end_of_frame)
  BY <1>2, <1>4, <1>5, ObeyMore DEF Counts
<1> HIDE DEF v
<1>8. \A st, co, ig, fr : Stands(v, st, co, ig, fr) => Stands(u, st, co, ig, fr)
  BY <1>3 DEF Stands
<1>9. Kept(coded, v) => Kept(t, u) BY <1>2, <1>3 DEF Kept
<1>10. \A nu, so, na, ef, er : Counts(v, nu, so, na, ef, er) => Counts(u, nu, so, na, ef, er)
  BY <1>3 DEF Kept, Counts
<1>11. /\ b = TERMINATOR => Kept(t, u) /\ Stands(u, 0, b, FALSE, t.in_frame)
       /\ b = END_OF_LINE =>
             Kept(t, u) /\ Stands(u, 0, b, t.ignore \/ t.frame_number = 1, t.in_frame)
       /\ b \in {BAR, CHAR_THREE_QUARTERS} => Kept(t, u) /\ Stands(u, 0, b, t.ignore, t.in_frame)
  BY <1>6, <1>8, <1>9, Zenon
<1>12. /\ b = FRAME_LETTER => Kept(t, u) /\ Stands(u, 2, b, t.ignore, t.in_frame)
       /\ b = END_OF_FRAME => Kept(t, u) /\ Stands(u, 2, b, t.ignore, FALSE)
  BY <1>6, <1>8, <1>9, Zenon
<1>13. /\ b \in SHIFTS =>
             /\ Stands(u, 0, b, t.ignore, t.in_frame)
             /\ Counts(u, t.frame_number, ShiftOffset(b), t.filename,
                       t.end_of_file, t.end_of_frame)
       /\ b = START_FRAME =>
             /\ Stands(u, 0, b, t.ignore, TRUE)
             /\ Counts(u, t.frame_number + 1, t.shift_offset, t.filename,
                       t.end_of_file, t.end_of_frame)
       /\ b = END_OF_FILE =>
             /\ Stands(u, 0, b, t.ignore, FALSE)
             /\ Counts(u, t.frame_number, t.shift_offset, t.filename, TRUE, t.end_of_frame)
  BY <1>7, <1>8, <1>10, Zenon
<1> QED BY <1>11, <1>12, <1>13, Zenon DEF u, b

\* The byte after |G, and the digits after |Z.
LEMMA WaitStep ==
    ASSUME NEW t \in TeleStates, Waits(t), t.state >= 2, NEW byte \in Byte,
           byte % 128 # CHAR_BAR
    PROVE  LET u == TeleByte(t, byte)
           IN  /\ TeleOutput(t, byte) = << >>
               /\ t.control_code = FRAME_LETTER =>
                     Kept(t, u) /\ Stands(u, 0, t.control_code, TRUE, t.in_frame)
               /\ t.control_code = END_OF_FRAME =>
                     /\ Stands(u, IF t.state = 4 THEN 0 ELSE t.state + 1,
                               t.control_code, t.ignore, t.in_frame)
                     /\ Counts(u, t.frame_number, t.shift_offset, t.filename,
                               t.end_of_file, t.state = 4 \/ t.end_of_frame)
<1> DEFINE u == TeleByte(t, byte)
           v == Obey(t)
<1>1. ~InData(t) /\ t.state # 1 /\ t.state >= 1 /\ t.state \in {2, 3, 4}
  BY FieldRanges DEF InData
<1>2. Taken(t, byte % 128) = v BY <1>1, Zenon DEF Taken, Control
<1>3. TeleOutput(t, byte) = << >> BY <1>1, Zenon DEF TeleOutput
<1>4. Kept(v, u) /\ Stands(u, v.state, v.control_code, v.ignore, v.in_frame)
  BY <1>2, CheckAside
<1> HIDE DEF u
<1>5. ASSUME t.control_code = FRAME_LETTER
      PROVE  Kept(t, v) /\ Stands(v, 0, t.control_code, TRUE, t.in_frame)
  <2>1. v = [t EXCEPT !.state = 0, !.ignore = TRUE]
    BY <1>1, <1>5, SMT DEF Obey, SHIFTS, START_FRAME, END_OF_FILE, FRAME_LETTER, TERMINATOR,
       END_OF_LINE, END_OF_FRAME, START_DATA, START_HEADER, BAR, CHAR_THREE_QUARTERS
  <2>2. PICK yes \in BOOLEAN : yes = TRUE BY Zenon
  <2>3. v = [t EXCEPT !.state = 0, !.ignore = yes] BY <2>1, <2>2
  <2> HIDE DEF v
  <2> QED BY <2>2, <2>3 DEF TeleStates, Kept, Stands
<1>6. ASSUME t.control_code = END_OF_FRAME
      PROVE  /\ Stands(v, IF t.state = 4 THEN 0 ELSE t.state + 1,
                       t.control_code, t.ignore, t.in_frame)
             /\ Counts(v, t.frame_number, t.shift_offset, t.filename,
                       t.end_of_file, t.state = 4 \/ t.end_of_frame)
  <2>1. v = EndOfFrame(t)
    BY <1>6, SMT DEF Obey, SHIFTS, START_FRAME, END_OF_FILE, FRAME_LETTER, TERMINATOR,
       END_OF_LINE, END_OF_FRAME, START_DATA, START_HEADER, BAR, CHAR_THREE_QUARTERS
  <2>2. CASE t.state = 4
    <3>1. v = [t EXCEPT !.state = 0, !.end_of_frame = TRUE]
      BY <2>1, <2>2, SMT DEF EndOfFrame
    <3>2. PICK yes \in BOOLEAN : yes = TRUE BY Zenon
    <3>3. v = [t EXCEPT !.state = 0, !.end_of_frame = yes] BY <3>1, <3>2
    <3> HIDE DEF v
    <3>4. /\ Stands(v, 0, t.control_code, t.ignore, t.in_frame)
          /\ Counts(v, t.frame_number, t.shift_offset, t.filename, t.end_of_file, yes)
      BY <3>3 DEF TeleStates, Stands, Counts
    <3>5. (t.state = 4 \/ t.end_of_frame) = yes BY <2>2, <3>2
    <3> QED BY <2>2, <3>4, <3>5
  <2>3. CASE t.state \in {2, 3}
    <3>1. v = [t EXCEPT !.state = t.state + 1] BY <2>1, <2>3, SMT DEF EndOfFrame
    <3> DEFINE n == t.state + 1
    <3>2. v = [t EXCEPT !.state = n] BY <3>1
    <3> HIDE DEF v, n
    <3>3. /\ Stands(v, n, t.control_code, t.ignore, t.in_frame)
          /\ Counts(v, t.frame_number, t.shift_offset, t.filename, t.end_of_file,
                    t.end_of_frame)
      BY <3>2 DEF TeleStates, Stands, Counts
    <3>4. t.state # 4 BY <2>3
    <3>5. t.end_of_frame \in BOOLEAN BY DEF TeleStates
    <3>6. (t.state = 4 \/ t.end_of_frame) = t.end_of_frame BY <3>4, <3>5
    <3> QED BY <3>3, <3>4, <3>6 DEF n
  <2> QED BY <1>1, <2>2, <2>3
<1> HIDE DEF v
<1>7. \A st, co, ig, fr : Stands(v, st, co, ig, fr) => Stands(u, st, co, ig, fr)
  BY <1>4 DEF Stands
<1>8. Kept(t, v) => Kept(t, u) BY <1>4 DEF Kept
<1>9. \A nu, so, na, ef, er : Counts(v, nu, so, na, ef, er) => Counts(u, nu, so, na, ef, er)
  BY <1>4 DEF Kept, Counts
<1> QED BY <1>3, <1>5, <1>6, <1>7, <1>8, <1>9, Zenon DEF u

\* The other control codes: all but two start what is ignored.
LEMMA OtherCode ==
    ASSUME NEW t \in TeleStates, Waits(t), t.state = 1, NEW byte \in Byte,
           byte % 128 \notin {CHAR_BAR, TERMINATOR, END_OF_LINE, BAR, CHAR_THREE_QUARTERS,
                              FRAME_LETTER, END_OF_FRAME, START_FRAME, END_OF_FILE} \cup SHIFTS
    PROVE  LET u == TeleByte(t, byte)  code == byte % 128
           IN  /\ Kept(t, u)
               /\ Stands(u, 0, code, t.ignore \/ code \notin {START_DATA, START_HEADER},
                         t.in_frame)
<1> DEFINE u == TeleByte(t, byte)
           b == byte % 128
           coded == [t EXCEPT !.control_code = b]
           v == Obey(coded)
           ignored == t.ignore \/ b \notin {START_DATA, START_HEADER}
<1>1. b \in Ascii BY ModuloRange DEF Byte
<1>2. /\ Taken(t, b) = v /\ coded \in TeleStates /\ Kept(t, coded)
      /\ Stands(coded, 1, b, t.ignore, t.in_frame)
  BY <1>1, CodeTaken
<1>3. Kept(v, u) /\ Stands(u, v.state, v.control_code, v.ignore, v.in_frame)
  <2> HIDE DEF coded
  <2> QED BY <1>2, CheckAside
<1>4. b \notin {CHAR_BAR, TERMINATOR, END_OF_LINE, BAR, CHAR_THREE_QUARTERS,
                FRAME_LETTER, END_OF_FRAME, START_FRAME, END_OF_FILE} \cup SHIFTS
  OBVIOUS
<1> HIDE DEF coded, u, b
<1>5. coded.control_code = b /\ coded.ignore = t.ignore /\ coded.in_frame = t.in_frame
  BY <1>2 DEF Stands
<1>6. PICK n \in BOOLEAN : n = ignored BY Zenon
<1>7. t.ignore \in BOOLEAN BY FieldRanges
<1>8. Kept(coded, v) /\ Stands(v, 0, b, n, t.in_frame)
  <2>1. CASE b \in {START_DATA, START_HEADER}
    <3>1. v = [coded EXCEPT !.state = 0]
      BY <1>4, <1>5, <2>1, SMT DEF Obey, SHIFTS, START_FRAME, END_OF_FILE, FRAME_LETTER,
         TERMINATOR, END_OF_LINE, END_OF_FRAME, START_DATA, START_HEADER, BAR,
         CHAR_THREE_QUARTERS
    <3>2. n = coded.ignore BY <1>5, <1>6, <1>7, <2>1
    <3> HIDE DEF v
    <3> QED BY <1>2, <1>5, <3>1, <3>2, SMT DEF TeleStates, Kept, Stands
  <2>2. CASE b \notin {START_DATA, START_HEADER}
    <3>1. v = [coded EXCEPT !.state = 0, !.ignore = TRUE]
      BY <1>4, <1>5, <2>2, SMT DEF Obey, SHIFTS, START_FRAME, END_OF_FILE, FRAME_LETTER,
         TERMINATOR, END_OF_LINE, END_OF_FRAME, START_DATA, START_HEADER, BAR,
         CHAR_THREE_QUARTERS
    <3>2. n = TRUE BY <1>6, <2>2
    <3>3. v = [coded EXCEPT !.state = 0, !.ignore = n] BY <3>1, <3>2
    <3> HIDE DEF v
    <3> QED BY <1>2, <1>5, <3>3, SMT DEF TeleStates, Kept, Stands
  <2> QED BY <2>1, <2>2
<1> HIDE DEF v, ignored
<1>9. Kept(t, u) BY <1>2, <1>3, <1>8 DEF Kept
<1>10. Stands(u, 0, b, ignored, t.in_frame) BY <1>3, <1>6, <1>8 DEF Stands
<1> QED BY <1>9, <1>10, Zenon DEF u, b, ignored

-----------------------------------------------------------------------------
(* The codes of a page of text.                                            *)

\* Nothing, or what a code of a page of text writes.
OfCode(out) == out = << >> \/ \E c \in CodeCharacters : out = <<c>>

\* Outside a frame and without a shift, a code with no lasting effect.
LEMMA PassingCode ==
    ASSUME NEW t \in TeleStates, Waits(t), t.state = 1, ~t.in_frame, t.shift_offset = 0,
           NEW byte \in Byte, byte % 128 # CHAR_BAR, byte % 128 \notin LastingCodes
    PROVE  LET u == TeleByte(t, byte)
           IN  u.state = 0 /\ ~u.in_frame /\ Kept(t, u) /\ OfCode(TeleOutput(t, byte))
<1> DEFINE u == TeleByte(t, byte)
           b == byte % 128
           out == TeleOutput(t, byte)
           Goal == u.state = 0 /\ ~u.in_frame /\ Kept(t, u) /\ OfCode(out)
<1> SUFFICES Goal OBVIOUS
<1>1. b # CHAR_BAR /\ b \notin {START_FRAME, END_OF_FILE, FRAME_LETTER, END_OF_FRAME}
      /\ (b \in SHIFTS => b = 48)
  BY DEF LastingCodes
<1>2. OfCode(out)
  <2>1. out = IF b = CHAR_THREE_QUARTERS THEN <<Char(CHAR_THREE_QUARTERS + t.shift_offset)>>
              ELSE IF b = BAR THEN <<Char(CHAR_BAR + t.shift_offset)>>
              ELSE IF b = END_OF_LINE /\ t.frame_number # 1 THEN <<CR>> ELSE << >>
    BY CodeOutput
  <2>2. /\ Char(CHAR_THREE_QUARTERS + t.shift_offset) = CHAR_THREE_QUARTERS
        /\ Char(CHAR_BAR + t.shift_offset) = CHAR_BAR
    BY DEF Char, CHAR_THREE_QUARTERS, CHAR_BAR
  <2> HIDE DEF out, b
  <2>3. out \in {<<CHAR_THREE_QUARTERS>>, <<CHAR_BAR>>, <<CR>>, << >>} BY <2>1, <2>2, Zenon
  <2> QED BY <2>3, Zenon DEF OfCode, CodeCharacters
<1> HIDE DEF out
<1>3. CASE b = TERMINATOR
  <2>1. Kept(t, u) /\ Stands(u, 0, b, FALSE, t.in_frame) BY <1>1, <1>3, CodeStep, Zenon
  <2> QED BY <1>2, <2>1, Zenon DEF Stands
<1>4. CASE b = END_OF_LINE
  <2>1. Kept(t, u) /\ Stands(u, 0, b, t.ignore \/ t.frame_number = 1, t.in_frame)
    BY <1>1, <1>4, CodeStep, Zenon
  <2> QED BY <1>2, <2>1, Zenon DEF Stands
<1>5. CASE b \in {BAR, CHAR_THREE_QUARTERS}
  <2>1. Kept(t, u) /\ Stands(u, 0, b, t.ignore, t.in_frame) BY <1>1, <1>5, CodeStep, Zenon
  <2> QED BY <1>2, <2>1, Zenon DEF Stands
<1>6. CASE b \in SHIFTS
  <2>1. /\ Stands(u, 0, b, t.ignore, t.in_frame)
        /\ Counts(u, t.frame_number, ShiftOffset(b), t.filename,
                  t.end_of_file, t.end_of_frame)
    BY <1>1, <1>6, CodeStep, Zenon
  <2>2. ShiftOffset(b) = t.shift_offset BY <1>1, <1>6 DEF ShiftOffset
  <2> HIDE DEF u, b
  <2>3. Kept(t, u) BY <2>1, <2>2, Zenon DEF Counts, Kept
  <2> QED BY <1>2, <2>1, <2>3, Zenon DEF Stands
<1>7. CASE b \notin {TERMINATOR, END_OF_LINE, BAR, CHAR_THREE_QUARTERS} \cup SHIFTS
  <2>1. b \notin {CHAR_BAR, TERMINATOR, END_OF_LINE, BAR, CHAR_THREE_QUARTERS,
                  FRAME_LETTER, END_OF_FRAME, START_FRAME, END_OF_FILE} \cup SHIFTS
    BY <1>1, <1>7
  <2>2. Kept(t, u)
        /\ Stands(u, 0, b, t.ignore \/ b \notin {START_DATA, START_HEADER}, t.in_frame)
    BY <2>1, OtherCode, Zenon
  <2> QED BY <1>2, <2>2, Zenon DEF Stands
<1> QED BY <1>3, <1>4, <1>5, <1>6, <1>7

\* Each byte of a page of text leads to the next place.
LEMMA TextStep ==
    ASSUME NEW t \in TeleStates, Waits(t), NEW pos \in Nat, pos < Size(TextPage),
           TextAt(t, pos), NEW byte \in Byte, byte = Transmission[TextPage][pos + 1]
    PROVE  LET u == TeleByte(t, byte)
           IN  TextAt(u, pos + 1) /\ Kept(t, u) /\ OfCode(TeleOutput(t, byte))
<1> DEFINE u == TeleByte(t, byte)
           out == TeleOutput(t, byte)
           size == Size(TextPage)
           Goal == TextAt(u, pos + 1) /\ Kept(t, u) /\ OfCode(out)
<1> SUFFICES Goal OBVIOUS
<1>1. /\ t.state \in {0, 1} /\ ~t.in_frame /\ t.shift_offset = 0
      /\ t.state = 1 => pos \in 1 .. size /\ Code(TextPage, pos) = CHAR_BAR
  BY Zenon DEF TextAt, size
<1>2. byte % 128 = Code(TextPage, pos + 1) BY DEF Code
<1>3. size \in Nat /\ pos + 1 \in 1 .. size BY TextBytes DEF Size
<1> HIDE DEF u, out, size
<1>4. CASE byte % 128 = CHAR_BAR
  <2>1. Kept(t, u) /\ Stands(u, 1, t.control_code, t.ignore, t.in_frame) /\ out = << >>
    BY <1>4, BarStep, Zenon DEF u, out
  <2>2. TextAt(u, pos + 1)
    <3>1. u.state = 1 /\ ~u.in_frame /\ u.shift_offset = 0
      BY <1>1, <2>1, Zenon DEF Kept, Stands
    <3>2. pos + 1 \in 1 .. Size(TextPage) /\ Code(TextPage, pos + 1) = CHAR_BAR
      BY <1>2, <1>3, <1>4, Zenon DEF size
    <3> QED BY <3>1, <3>2 DEF TextAt
  <2> QED BY <2>1, <2>2, Zenon DEF OfCode
<1>5. CASE byte % 128 # CHAR_BAR /\ t.state = 0
  <2>1. Kept(t, u) /\ Stands(u, 0, t.control_code, t.ignore, FALSE) /\ out = << >>
    BY <1>1, <1>5, IdleStep, Zenon DEF u, out
  <2>2. u.state = 0 /\ ~u.in_frame /\ u.shift_offset = 0
    BY <1>1, <2>1, Zenon DEF Kept, Stands
  <2>3. TextAt(u, pos + 1) BY <2>2 DEF TextAt
  <2> QED BY <2>1, <2>3, Zenon DEF OfCode
<1>6. CASE byte % 128 # CHAR_BAR /\ t.state = 1
  <2>1. pos \in 1 .. size /\ Code(TextPage, pos) = CHAR_BAR BY <1>1, <1>6
  <2>2. byte % 128 \notin LastingCodes BY <1>2, <2>1, TextBytes, Zenon DEF size
  <2>3. u.state = 0 /\ ~u.in_frame /\ Kept(t, u) /\ OfCode(out)
    BY <1>1, <1>6, <2>2, PassingCode, Zenon DEF u, out
  <2>4. u.shift_offset = 0 BY <1>1, <2>3 DEF Kept
  <2>5. TextAt(u, pos + 1) BY <2>3, <2>4 DEF TextAt
  <2> QED BY <2>3, <2>5, Zenon
<1> QED BY <1>1, <1>4, <1>5, <1>6

-----------------------------------------------------------------------------
(* How a character is encoded.                                             *)

\* A character in the range of data: itself, or a bar and what stands for it.
LEMMA SymbolIs ==
    ASSUME NEW d \in 32 .. 126
    PROVE  LET y == Symbol(d)
           IN  /\ y \in Seq(Ascii)
               /\ \/ Len(y) = 1 /\ y[1] # CHAR_BAR /\ DataChar(y[1]) = d
                  \/ /\ Len(y) = 2 /\ y[1] = CHAR_BAR
                     /\ \/ y[2] = BAR /\ d = CHAR_BAR
                        \/ y[2] = CHAR_THREE_QUARTERS /\ d = CHAR_THREE_QUARTERS
<1> USE DEF CHAR_BAR, CHAR_THREE_QUARTERS, CHAR_SPACE, BAR
<1> DEFINE y == Symbol(d)
           One(a) == <<a>>
           Two(a, b) == <<a, b>>
<1>1. \A a, b \in Ascii :
          /\ One(a) \in Seq(Ascii) /\ Len(One(a)) = 1 /\ One(a)[1] = a
          /\ Two(a, b) \in Seq(Ascii) /\ Len(Two(a, b)) = 2 /\ Two(a, b)[1] = a
          /\ Two(a, b)[2] = b
  OBVIOUS
<1>2. /\ CHAR_BAR \in Ascii /\ BAR \in Ascii /\ CHAR_THREE_QUARTERS \in Ascii /\ d \in Ascii
  BY DEF Ascii
<1> SUFFICES /\ y \in Seq(Ascii)
             /\ \/ Len(y) = 1 /\ y[1] # CHAR_BAR /\ DataChar(y[1]) = d
                \/ /\ Len(y) = 2 /\ y[1] = CHAR_BAR
                   /\ \/ y[2] = BAR /\ d = CHAR_BAR
                      \/ y[2] = CHAR_THREE_QUARTERS /\ d = CHAR_THREE_QUARTERS
  OBVIOUS
<1>3. CASE d = CHAR_BAR
  <2>1. y = Two(CHAR_BAR, BAR) BY <1>3 DEF Symbol
  <2> HIDE DEF One, Two, y
  <2> QED BY <1>1, <1>2, <1>3, <2>1
<1>4. CASE d = CHAR_THREE_QUARTERS
  <2>1. y = Two(CHAR_BAR, CHAR_THREE_QUARTERS) BY <1>4 DEF Symbol
  <2> HIDE DEF One, Two, y
  <2> QED BY <1>1, <1>2, <1>4, <2>1
<1>5. CASE d = CHAR_SPACE
  <2>1. y = One(CHAR_THREE_QUARTERS) BY <1>5 DEF Symbol
  <2>2. DataChar(CHAR_THREE_QUARTERS) = CHAR_SPACE /\ CHAR_THREE_QUARTERS # CHAR_BAR
    BY DEF DataChar
  <2> HIDE DEF One, Two, y
  <2> QED BY <1>1, <1>2, <1>5, <2>1, <2>2
<1>6. CASE d \notin {CHAR_BAR, CHAR_THREE_QUARTERS, CHAR_SPACE}
  <2>1. y = One(d) BY <1>6 DEF Symbol
  <2>2. DataChar(d) = d /\ d # CHAR_BAR BY <1>6 DEF DataChar
  <2> HIDE DEF One, Two, y
  <2> QED BY <1>1, <1>2, <2>1, <2>2
<1> QED BY <1>3, <1>4, <1>5, <1>6

\* Every other character but CR has a shift.
LEMMA ShiftIs ==
    ASSUME NEW c \in Byte
    PROVE  /\ c \in 32 .. 126 => ShiftOf(c) = 48
           /\ c \notin 32 .. 126 =>
                 ShiftOf(c) \in 49 .. 53 /\ c - ShiftOffset(ShiftOf(c)) \in 32 .. 126
<1>1. c \in 32 .. 126 => ShiftOf(c) = 48 BY Zenon DEF ShiftOf
<1>2. ASSUME c \notin 32 .. 126
      PROVE  ShiftOf(c) \in 49 .. 53 /\ c - ShiftOffset(ShiftOf(c)) \in 32 .. 126
  <2> DEFINE Fits(code) == c - ShiftOffset(code) \in 32 .. 126
             codes == {code \in SHIFTS : Fits(code)}
  <2>1. ShiftOf(c) = Max(codes) BY <1>2, Zenon DEF ShiftOf
  <2>2. /\ ~Fits(48) /\ (Fits(49) <=> c + 64 \in 32 .. 126)
        /\ (Fits(50) <=> c - 64 \in 32 .. 126) /\ (Fits(51) <=> c - 96 \in 32 .. 126)
        /\ (Fits(52) <=> c - 128 \in 32 .. 126) /\ (Fits(53) <=> c - 160 \in 32 .. 126)
    BY <1>2, SMT DEF ShiftOffset, Byte
  <2> HIDE DEF Fits
  <2>3. \E m \in codes : \A n \in codes : m >= n
    <3>1. \A n \in SHIFTS : n \in {48, 49, 50, 51, 52, 53} /\ n \in Int BY DEF SHIFTS
    <3>2. CASE c \in 0 .. 31
      <4>1. Fits(49) /\ ~Fits(50) /\ ~Fits(51) /\ ~Fits(52) /\ ~Fits(53) BY <2>2, <3>2
      <4>2. 49 \in codes BY <4>1 DEF SHIFTS
      <4>3. \A n \in codes : 49 >= n BY <2>2, <3>1, <4>1
      <4> QED BY <4>2, <4>3
    <3>3. CASE c = 127
      <4>1. Fits(50) /\ ~Fits(51) /\ ~Fits(52) /\ ~Fits(53) BY <2>2, <3>3
      <4>2. 50 \in codes BY <4>1 DEF SHIFTS
      <4>3. \A n \in codes : 50 >= n BY <2>2, <3>1, <4>1
      <4> QED BY <4>2, <4>3
    <3>4. CASE c \in 128 .. 159
      <4>1. Fits(51) /\ ~Fits(52) /\ ~Fits(53) BY <2>2, <3>4
      <4>2. 51 \in codes BY <4>1 DEF SHIFTS
      <4>3. \A n \in codes : 51 >= n BY <2>2, <3>1, <4>1
      <4> QED BY <4>2, <4>3
    <3>5. CASE c \in 160 .. 191
      <4>1. Fits(52) /\ ~Fits(53) BY <2>2, <3>5
      <4>2. 52 \in codes BY <4>1 DEF SHIFTS
      <4>3. \A n \in codes : 52 >= n BY <2>2, <3>1, <4>1
      <4> QED BY <4>2, <4>3
    <3>6. CASE c \in 192 .. 255
      <4>1. Fits(53) BY <2>2, <3>6
      <4>2. 53 \in codes BY <4>1 DEF SHIFTS
      <4>3. \A n \in codes : 53 >= n BY <3>1
      <4> QED BY <4>2, <4>3
    <3> QED BY <1>2, <3>2, <3>3, <3>4, <3>5, <3>6 DEF Byte
  <2>4. Max(codes) \in codes
    <3> HIDE DEF codes
    <3> QED BY <2>3, Zenon DEF Max
  <2>5. Max(codes) \in SHIFTS /\ Fits(Max(codes)) BY <2>4
  <2>6. Max(codes) # 48 BY <2>2, <2>5
  <2> HIDE DEF codes
  <2>7. Max(codes) \in 49 .. 53 BY <2>5, <2>6 DEF SHIFTS
  <2> QED BY <2>1, <2>5, <2>7 DEF Fits
<1> QED BY <1>1, <1>2

\* A character under a shift: the shift, the symbol and the end of the shift.
Shifted(e, code, y) ==
    /\ Len(e) = 4 + Len(y)
    /\ e[1] = CHAR_BAR /\ e[2] = code
    /\ \A i \in 1 .. Len(y) : e[2 + i] = y[i]
    /\ e[3 + Len(y)] = CHAR_BAR /\ e[4 + Len(y)] = 48

\* The length and the bytes of a shifted symbol.
LEMMA ShiftedIs ==
    ASSUME NEW code \in Ascii, NEW y \in Seq(Ascii)
    PROVE  LET e == <<CHAR_BAR, code>> \o y \o <<CHAR_BAR, 48>>
           IN  e \in Seq(Ascii) /\ Shifted(e, code, y)
<1> DEFINE a == <<CHAR_BAR, code>>
           z == <<CHAR_BAR, 48>>
           f == a \o y
           e == f \o z
<1>1. Has(Ascii, a, 2) /\ Has(Ascii, z, 2) /\ a[1] = CHAR_BAR /\ a[2] = code
      /\ z[1] = CHAR_BAR /\ z[2] = 48
  BY DEF Has, CHAR_BAR, Ascii
<1>2. PICK l \in Nat : l = Len(y) /\ Has(Ascii, y, l) BY DEF Has
<1> HIDE DEF a, z
<1>3. Joins(Ascii, f, a, 2, y, l) BY <1>1, <1>2, Concatenated, Zenon
<1> HIDE DEF f
<1>4. Has(Ascii, f, 2 + l) BY <1>2, <1>3 DEF Joins, Has
<1>5. Joins(Ascii, e, f, 2 + l, z, 2) BY <1>1, <1>4, Concatenated, Zenon
<1> HIDE DEF e
<1>6. /\ e \in Seq(Ascii) /\ Len(e) = 4 + l
      /\ \A i \in 1 .. 2 + l : e[i] = f[i]
      /\ e[2 + l + 1] = z[1] /\ e[2 + l + 2] = z[2]
  BY <1>2, <1>5 DEF Joins
<1>7. f[1] = a[1] /\ f[2] = a[2] /\ \A i \in 1 .. l : f[2 + i] = y[i] BY <1>2, <1>3 DEF Joins
<1>8. e[1] = CHAR_BAR /\ e[2] = code BY <1>1, <1>2, <1>6, <1>7
<1>9. \A i \in 1 .. l : e[2 + i] = y[i]
  <2> TAKE i \in 1 .. l
  <2>1. 2 + i \in 1 .. 2 + l BY <1>2
  <2> QED BY <1>6, <1>7, <2>1, Zenon
<1>10. e[3 + l] = CHAR_BAR /\ e[4 + l] = 48
  <2>1. 2 + l + 1 = 3 + l /\ 2 + l + 2 = 4 + l BY <1>2
  <2> QED BY <1>1, <1>6, <2>1, Zenon
<1>11. e = <<CHAR_BAR, code>> \o y \o <<CHAR_BAR, 48>> BY DEF e, f, a, z
<1>12. Shifted(e, code, y) BY <1>2, <1>6, <1>8, <1>9, <1>10, Zenon DEF Shifted
<1> QED BY <1>6, <1>11, <1>12, Zenon

\* The encoding of a character, by its kind.
LEMMA EncodedIs ==
    ASSUME NEW c \in Byte
    PROVE  LET e == Encoded(c)  code == ShiftOf(c)  d == c - ShiftOffset(code)
           IN  /\ e \in Seq(Ascii)
               /\ c = CR => Len(e) = 2 /\ e[1] = CHAR_BAR /\ e[2] = END_OF_LINE
               /\ c \in 32 .. 126 => e = Symbol(c)
               /\ IsShifted(c) =>
                     /\ code \in 49 .. 53 /\ d \in 32 .. 126
                     /\ Shifted(e, code, Symbol(d))
<1> DEFINE e == Encoded(c)
           code == ShiftOf(c)
           d == c - ShiftOffset(code)
<1>1. ASSUME c = CR
      PROVE  e \in Seq(Ascii) /\ Len(e) = 2 /\ e[1] = CHAR_BAR /\ e[2] = END_OF_LINE
  <2>1. e = <<CHAR_BAR, END_OF_LINE>> BY <1>1, Zenon DEF Encoded
  <2> HIDE DEF e
  <2> QED BY <2>1 DEF CHAR_BAR, END_OF_LINE, Ascii
<1>2. ASSUME c \in 32 .. 126 PROVE e \in Seq(Ascii) /\ e = Symbol(c)
  <2>1. c # CR BY <1>2 DEF CR
  <2>2. e = Symbol(c) BY <1>2, <2>1, ShiftIs, Zenon DEF Encoded
  <2> QED BY <1>2, <2>2, SymbolIs, Zenon
<1>3. ASSUME IsShifted(c)
      PROVE  /\ e \in Seq(Ascii) /\ code \in 49 .. 53 /\ d \in 32 .. 126
             /\ Shifted(e, code, Symbol(d))
  <2>1. c \notin 32 .. 126 /\ c # CR BY <1>3 DEF IsShifted
  <2>2. code \in 49 .. 53 /\ d \in 32 .. 126 BY <2>1, ShiftIs, Zenon
  <2>3. code # 48 /\ code \in Ascii
    <3> HIDE DEF code
    <3> QED BY <2>2 DEF Ascii
  <2>4. e = <<CHAR_BAR, code>> \o Symbol(d) \o <<CHAR_BAR, 48>>
    BY <2>1, <2>3, Zenon DEF Encoded
  <2>5. Symbol(d) \in Seq(Ascii) BY <2>2, SymbolIs, Zenon
  <2> HIDE DEF e, d, code
  <2> QED BY <2>2, <2>3, <2>4, <2>5, ShiftedIs, Zenon
<1>4. c = CR \/ c \in 32 .. 126 \/ IsShifted(c) BY Zenon DEF IsShifted
<1> QED BY <1>1, <1>2, <1>3, <1>4, Zenon

-----------------------------------------------------------------------------
(* How a character is decoded.                                             *)

\* The fields that a character of a file leaves alone.
Held(t, u) ==
    /\ u.frame_number = t.frame_number /\ u.filename = t.filename
    /\ u.end_of_file = t.end_of_file /\ u.end_of_frame = t.end_of_frame

\* A byte that is kept or counted leaves them alone.
LEMMA KeptIsHeld ==
    ASSUME NEW t, NEW u
    PROVE  /\ Kept(t, u) => Held(t, u) /\ u.shift_offset = t.shift_offset
           /\ \A shift : Counts(u, t.frame_number, shift, t.filename, t.end_of_file,
                                t.end_of_frame) => Held(t, u) /\ u.shift_offset = shift
BY DEF Kept, Held, Counts

\* Each byte of a symbol leads to the next, and the last of them writes it.
LEMMA SymbolByte ==
    ASSUME NEW t \in TeleStates, Waits(t), t.frame_number # 1, NEW d \in 32 .. 126,
           NEW i \in 1 .. Len(Symbol(d)), NEW shift, Open(t, IF i = 2 THEN 1 ELSE 0, shift),
           NEW byte \in Byte, byte % 128 = Symbol(d)[i]
    PROVE  LET u == TeleByte(t, byte)
           IN  /\ Open(u, IF Symbol(d)[i] = CHAR_BAR THEN 1 ELSE 0, shift) /\ Held(t, u)
               /\ (Symbol(d)[i] = CHAR_BAR <=> i < Len(Symbol(d)))
               /\ TeleOutput(t, byte) =
                     IF i = Len(Symbol(d)) THEN <<Char(d + shift)>> ELSE << >>
<1> DEFINE u == TeleByte(t, byte)
           y == Symbol(d)
           b == byte % 128
<1>1. \/ Len(y) = 1 /\ y[1] # CHAR_BAR /\ DataChar(y[1]) = d
      \/ /\ Len(y) = 2 /\ y[1] = CHAR_BAR
         /\ \/ y[2] = BAR /\ d = CHAR_BAR
            \/ y[2] = CHAR_THREE_QUARTERS /\ d = CHAR_THREE_QUARTERS
  BY SymbolIs, Zenon
<1>2. b = y[i] OBVIOUS
<1>3. BAR # CHAR_BAR /\ CHAR_THREE_QUARTERS # CHAR_BAR /\ CHAR_THREE_QUARTERS # BAR
  BY DEF BAR, CHAR_BAR, CHAR_THREE_QUARTERS
<1>4. t.in_frame /\ ~t.ignore /\ t.shift_offset = shift /\ t.state = (IF i = 2 THEN 1 ELSE 0)
  BY DEF Open
<1>5. ~IsName(t) BY DEF IsName
<1> DEFINE Goal ==
        /\ Open(u, IF y[i] = CHAR_BAR THEN 1 ELSE 0, shift) /\ Held(t, u)
        /\ (y[i] = CHAR_BAR <=> i < Len(y))
        /\ TeleOutput(t, byte) = IF i = Len(y) THEN <<Char(d + shift)>> ELSE << >>
<1>. SUFFICES Goal OBVIOUS
<1> HIDE DEF Goal
<1>6. CASE Len(y) = 1
  <2>1. i = 1 /\ t.state = 0 /\ b # CHAR_BAR /\ DataChar(b) = d BY <1>1, <1>2, <1>4, <1>6
  <2>2. /\ Kept(t, u) /\ Stands(u, 0, t.control_code, t.ignore, TRUE)
        /\ TeleOutput(t, byte) = <<Char(DataChar(b) + t.shift_offset)>>
    <3>1. Kept(t, u) /\ Stands(u, 0, t.control_code, t.ignore, TRUE)
          /\ TeleOutput(t, byte) = IF t.ignore \/ t.frame_number = 1 THEN << >>
                                   ELSE <<Char(DataChar(b) + t.shift_offset)>>
      BY <1>4, <1>5, <2>1, DataStep, Zenon
    <3>2. ~(t.ignore \/ t.frame_number = 1) BY <1>4
    <3> QED BY <3>1, <3>2, Zenon
  <2>2a. TeleOutput(t, byte) = <<Char(d + shift)>> BY <1>4, <2>1, <2>2, Zenon
  <2> HIDE DEF u
  <2>3. Open(u, 0, shift) /\ Held(t, u) BY <1>4, <2>2, KeptIsHeld DEF Stands, Open
  <2>4. y[i] # CHAR_BAR /\ ~(i < Len(y)) /\ i = Len(y) BY <1>2, <1>6, <2>1
  <2> HIDE DEF y
  <2> QED BY <2>2a, <2>3, <2>4 DEF Goal
<1>7. CASE Len(y) = 2 /\ i = 1
  <2>1. b = CHAR_BAR BY <1>1, <1>2, <1>7
  <2>2. /\ Kept(t, u) /\ Stands(u, 1, t.control_code, t.ignore, t.in_frame)
        /\ TeleOutput(t, byte) = << >>
    BY <2>1, BarStep
  <2> HIDE DEF u
  <2>3. Open(u, 1, shift) /\ Held(t, u) BY <1>4, <2>2, KeptIsHeld DEF Stands, Open
  <2>4. y[i] = CHAR_BAR /\ i < Len(y) /\ i # Len(y) BY <1>2, <1>7, <2>1
  <2> HIDE DEF y
  <2> QED BY <2>2, <2>3, <2>4 DEF Goal
<1>8. CASE Len(y) = 2 /\ i = 2
  <2>1. /\ t.state = 1
        /\ \/ b = BAR /\ d = CHAR_BAR
           \/ b = CHAR_THREE_QUARTERS /\ d = CHAR_THREE_QUARTERS
    BY <1>1, <1>2, <1>4, <1>8
  <2>2. b # CHAR_BAR /\ b \in {BAR, CHAR_THREE_QUARTERS} BY <1>3, <2>1
  <2>3. Kept(t, u) /\ Stands(u, 0, b, t.ignore, t.in_frame) BY <2>1, <2>2, CodeStep, Zenon
  <2>4. TeleOutput(t, byte) = <<Char(d + shift)>>
    <3>1. b = BAR => TeleOutput(t, byte) = <<Char(CHAR_BAR + t.shift_offset)>>
      BY <1>3, <2>1, <2>2, CodeOutput
    <3>2. b = CHAR_THREE_QUARTERS =>
             TeleOutput(t, byte) = <<Char(CHAR_THREE_QUARTERS + t.shift_offset)>>
      BY <2>1, <2>2, CodeOutput
    <3> QED BY <1>4, <2>1, <3>1, <3>2
  <2> HIDE DEF u
  <2>5. Open(u, 0, shift) /\ Held(t, u) BY <1>4, <2>3, KeptIsHeld DEF Stands, Open
  <2>6. y[i] # CHAR_BAR /\ ~(i < Len(y)) /\ i = Len(y) BY <1>2, <1>8, <2>2
  <2> HIDE DEF y
  <2> QED BY <2>4, <2>5, <2>6 DEF Goal
<1>9. Len(y) = 1 \/ (Len(y) = 2 /\ i = 1) \/ (Len(y) = 2 /\ i = 2)
  <2> DEFINE l == Len(y)
  <2>1. i \in 1 .. l OBVIOUS
  <2>2. l \in {1, 2} BY <1>1
  <2> HIDE DEF l
  <2>3. l = 1 \/ (l = 2 /\ i = 1) \/ (l = 2 /\ i = 2) BY <2>1, <2>2
  <2> QED BY <2>3 DEF l
<1> QED BY <1>6, <1>7, <1>8, <1>9, Zenon

\* An encoding ends with a byte that is no bar, and one of its bytes writes the
\* character.
LEMMA EncodingEnds ==
    ASSUME NEW c \in Byte
    PROVE  LET e == Encoded(c)
           IN  /\ e \in Seq(Ascii) /\ Len(e) \in 1 .. 6 /\ e[Len(e)] # CHAR_BAR
               /\ Lead(c) \in 1 .. Len(e)
<1> DEFINE e == Encoded(c)
           d == c - ShiftOffset(ShiftOf(c))
           y == Symbol(d)
<1>1. c = CR \/ c \in 32 .. 126 \/ IsShifted(c) BY Zenon DEF IsShifted
<1>2. e \in Seq(Ascii) BY EncodedIs, Zenon
<1>3. Lead(c) = Len(e) - (IF IsShifted(c) THEN 2 ELSE 0) BY DEF Lead
<1>4. BAR # CHAR_BAR /\ CHAR_THREE_QUARTERS # CHAR_BAR /\ END_OF_LINE # CHAR_BAR
      /\ 48 # CHAR_BAR
  BY DEF BAR, CHAR_BAR, CHAR_THREE_QUARTERS, END_OF_LINE
<1>5. CASE c = CR
  <2>1. Len(e) = 2 /\ e[2] = END_OF_LINE BY <1>5, EncodedIs, Zenon
  <2>2. ~IsShifted(c) BY <1>5 DEF IsShifted
  <2> HIDE DEF e
  <2> QED BY <1>2, <1>3, <1>4, <2>1, <2>2 DEF e
<1>6. CASE c \in 32 .. 126
  <2>1. e = Symbol(c) /\ ~IsShifted(c) BY <1>6, EncodedIs, Zenon DEF IsShifted
  <2>2. \/ Len(e) = 1 /\ e[1] # CHAR_BAR
        \/ Len(e) = 2 /\ (e[2] = BAR \/ e[2] = CHAR_THREE_QUARTERS)
    BY <1>6, <2>1, SymbolIs, Zenon
  <2> HIDE DEF e
  <2> QED BY <1>2, <1>3, <1>4, <2>1, <2>2 DEF e
<1>7. CASE IsShifted(c)
  <2>1. d \in 32 .. 126 /\ Shifted(e, ShiftOf(c), y) BY <1>7, EncodedIs, Zenon
  <2>2. Len(y) = 1 \/ Len(y) = 2 BY <2>1, SymbolIs, Zenon
  <2>3. Len(e) = 4 + Len(y) /\ e[4 + Len(y)] = 48 BY <2>1 DEF Shifted
  <2> DEFINE l == Len(y)
             n == Len(e)
  <2> HIDE DEF l
  <2>4. l \in {1, 2} /\ n = 4 + l /\ e[4 + l] = 48 BY <2>2, <2>3 DEF l
  <2>5. Lead(c) = n - 2 BY <1>3, <1>7
  <2> HIDE DEF n
  <2>6. n \in 1 .. 6 /\ Lead(c) \in 1 .. n BY <2>4, <2>5
  <2>7. e[n] = 48 BY <2>4
  <2> QED BY <1>2, <1>4, <2>6, <2>7, Zenon DEF e, n
<1> QED BY <1>1, <1>5, <1>6, <1>7

\* Each byte of an encoding leads to the next, and one of them writes the character.
LEMMA SymbolStep ==
    ASSUME NEW t \in TeleStates, Waits(t), t.frame_number # 1, NEW c \in Byte,
           NEW j \in 0 .. Len(Encoded(c)) - 1, SymbolAt(t, c, j),
           NEW byte \in Byte, byte % 128 = Encoded(c)[j + 1]
    PROVE  LET u == TeleByte(t, byte)
           IN  /\ SymbolAt(u, c, j + 1) /\ Held(t, u)
               /\ TeleOutput(t, byte) = IF j + 1 = Lead(c) THEN <<c>> ELSE << >>
<1> DEFINE u == TeleByte(t, byte)
           e == Encoded(c)
           b == byte % 128
           n == Len(e)
           o == ShiftOffset(ShiftOf(c))
           d == c - o
           y == Symbol(d)
           l == Len(y)
           State(i) == IF i > 0 /\ e[i] = CHAR_BAR THEN 1 ELSE 0
           Shift(i) == IF IsShifted(c) /\ i \in 2 .. n - 1 THEN o ELSE 0
           Goal == /\ Open(u, State(j + 1), Shift(j + 1)) /\ Held(t, u)
                   /\ TeleOutput(t, byte) = IF j + 1 = Lead(c) THEN <<c>> ELSE << >>
<1> SUFFICES Goal BY Zenon DEF SymbolAt
<1>1. Open(t, State(j), Shift(j)) BY DEF SymbolAt
<1>2. /\ t.state = State(j) /\ t.in_frame /\ ~t.ignore /\ t.shift_offset = Shift(j)
  BY <1>1 DEF Open
<1>3. b = e[j + 1] OBVIOUS
<1>4. n \in 1 .. 6 /\ j \in Nat /\ j < n
  <2>1. n \in 1 .. 6 BY EncodingEnds, Zenon
  <2>2. j \in 0 .. n - 1 OBVIOUS
  <2> HIDE DEF n
  <2> QED BY <2>1, <2>2
<1>5. Lead(c) = n - (IF IsShifted(c) THEN 2 ELSE 0) BY DEF Lead
<1>6. Char(c) = c BY DEF Char, Byte
<1>7. END_OF_LINE # CHAR_BAR /\ END_OF_LINE # CHAR_THREE_QUARTERS /\ END_OF_LINE # BAR
  BY DEF END_OF_LINE, CHAR_BAR, CHAR_THREE_QUARTERS, BAR
<1>8. t.in_frame = TRUE /\ t.ignore = FALSE BY <1>2, FieldRanges, Zenon
<1>9. ASSUME b = CHAR_BAR, j + 1 # Lead(c), Shift(j + 1) = Shift(j) PROVE Goal
  <2>1. /\ Kept(t, u) /\ Stands(u, 1, t.control_code, t.ignore, t.in_frame)
        /\ TeleOutput(t, byte) = << >>
    BY <1>9, BarStep
  <2>2. State(j + 1) = 1 BY <1>3, <1>4, <1>9
  <2> HIDE DEF u, State, Shift
  <2>3. Open(u, 1, Shift(j)) /\ Held(t, u) BY <1>2, <2>1, KeptIsHeld DEF Stands, Open
  <2> QED BY <1>9, <2>1, <2>2, <2>3
<1>10. CASE c = CR
  <2>1. n = 2 /\ e[1] = CHAR_BAR /\ e[2] = END_OF_LINE BY <1>10, EncodedIs, Zenon
  <2>2. ~IsShifted(c) BY <1>10 DEF IsShifted
  <2>3. Shift(j) = 0 /\ Shift(j + 1) = 0 BY <2>2
  <2>4. CASE j = 0
    <3>1. b = CHAR_BAR /\ j + 1 # Lead(c) BY <1>3, <1>5, <2>1, <2>2, <2>4
    <3> HIDE DEF Goal, Shift
    <3> QED BY <1>9, <2>3, <3>1
  <2>5. CASE j = 1
    <3>1. b = END_OF_LINE /\ b # CHAR_BAR /\ State(j) = 1 /\ State(j + 1) = 0
          /\ j + 1 = Lead(c)
      BY <1>3, <1>5, <1>7, <2>1, <2>2, <2>5
    <3>2. t.state = 1 BY <1>2, <3>1
    <3>3. Kept(t, u) /\ Stands(u, 0, b, t.ignore \/ t.frame_number = 1, t.in_frame)
      BY <3>1, <3>2, CodeStep, Zenon
    <3>4. TeleOutput(t, byte) = <<CR>> BY <1>7, <3>1, <3>2, CodeOutput
    <3> HIDE DEF u, State, Shift
    <3>5. Open(u, 0, 0) /\ Held(t, u) BY <1>2, <2>3, <3>3, KeptIsHeld DEF Stands, Open
    <3> QED BY <1>10, <2>3, <3>1, <3>4, <3>5
  <2>6. j = 0 \/ j = 1
    <3> HIDE DEF n
    <3> QED BY <1>4, <2>1
  <2> QED BY <2>4, <2>5, <2>6
<1>11. CASE c \in 32 .. 126
  <2>1. e = Symbol(c) /\ ~IsShifted(c) BY <1>11, EncodedIs, Zenon DEF IsShifted
  <2>2. Shift(j) = 0 /\ Shift(j + 1) = 0 BY <2>1
  <2>3. n = 1 \/ (n = 2 /\ e[1] = CHAR_BAR)
    BY <1>11, <2>1, SymbolIs, Zenon
  <2> DEFINE i == j + 1
  <2>4. i \in 1 .. n
    <3> HIDE DEF n
    <3> QED BY <1>4
  <2>5. State(j) = IF i = 2 THEN 1 ELSE 0
    <3>1. j = 0 \/ j = 1
      <4> HIDE DEF n, e
      <4> QED BY <1>4, <2>3
    <3>2. j = 1 => e[1] = CHAR_BAR
      <4> HIDE DEF n, e
      <4> QED BY <1>4, <2>3
    <3> HIDE DEF e
    <3> QED BY <3>1, <3>2
  <2>6. Open(t, IF i = 2 THEN 1 ELSE 0, 0)
    <3> HIDE DEF State, Shift, i
    <3> QED BY <1>1, <2>2, <2>5
  <2> HIDE DEF i
  <2>7. /\ Open(u, IF e[i] = CHAR_BAR THEN 1 ELSE 0, 0) /\ Held(t, u)
        /\ TeleOutput(t, byte) = IF i = Len(e) THEN <<Char(c + 0)>> ELSE << >>
    <3>1. b = Symbol(c)[i] /\ i \in 1 .. Len(Symbol(c)) BY <1>3, <2>1, <2>4 DEF i
    <3>2. /\ Open(u, IF Symbol(c)[i] = CHAR_BAR THEN 1 ELSE 0, 0) /\ Held(t, u)
          /\ TeleOutput(t, byte) = IF i = Len(Symbol(c)) THEN <<Char(c + 0)>> ELSE << >>
      BY <1>11, <2>6, <3>1, SymbolByte, Zenon
    <3> QED BY <2>1, <3>2, Zenon
  <2>8. c + 0 = c BY DEF Byte
  <2>9. Lead(c) = n BY <1>4, <1>5, <2>1
  <2>10. State(i) = IF e[i] = CHAR_BAR THEN 1 ELSE 0 BY <1>4 DEF i
  <2>11. Shift(i) = 0 BY <2>2 DEF i
  <2> HIDE DEF u, e, State, Shift
  <2>12. Open(u, State(i), Shift(i)) /\ Held(t, u) BY <2>7, <2>10, <2>11
  <2>13. TeleOutput(t, byte) = IF i = Lead(c) THEN <<c>> ELSE << >> BY <1>6, <2>7, <2>8, <2>9
  <2> QED BY <2>12, <2>13, Zenon DEF i
<1>12. CASE IsShifted(c)
  <2>1. /\ ShiftOf(c) \in 49 .. 53 /\ d \in 32 .. 126 /\ Shifted(e, ShiftOf(c), y)
    BY <1>12, EncodedIs, Zenon
  <2>2. /\ n = 4 + l /\ e[1] = CHAR_BAR /\ e[2] = ShiftOf(c)
        /\ \A i \in 1 .. l : e[2 + i] = y[i]
        /\ e[3 + l] = CHAR_BAR /\ e[4 + l] = 48
    BY <2>1, Zenon DEF Shifted
  <2>3. \/ l = 1 /\ y[1] # CHAR_BAR
        \/ l = 2 /\ y[1] = CHAR_BAR /\ (y[2] = BAR \/ y[2] = CHAR_THREE_QUARTERS)
    BY <2>1, SymbolIs, Zenon
  <2>4. y[l] # CHAR_BAR /\ l \in {1, 2}
    <3> HIDE DEF y
    <3> QED BY <2>3 DEF BAR, CHAR_BAR, CHAR_THREE_QUARTERS
  <2>5. Lead(c) = 2 + l
    <3> HIDE DEF n, l
    <3> QED BY <1>5, <1>12, <2>2, <2>4
  <2>6. \A i : Shift(i) = IF i \in 2 .. 3 + l THEN o ELSE 0
    <3>1. n - 1 = 3 + l
      <4> HIDE DEF n, l
      <4> QED BY <2>2, <2>4
    <3> QED BY <1>12, <3>1, Zenon
  <2>7. State(0) = 0 /\ State(1) = 1 /\ State(2) = 0 /\ State(3 + l) = 1 /\ State(4 + l) = 0
    <3>1. e[2] # CHAR_BAR /\ 48 # CHAR_BAR
      <4> DEFINE s == ShiftOf(c)
      <4>1. s \in 49 .. 53 /\ e[2] = s BY <2>1, <2>2
      <4> HIDE DEF s, e
      <4> QED BY <4>1 DEF CHAR_BAR
    <3> HIDE DEF l, e
    <3> QED BY <2>2, <2>4, <3>1
  <2>8. CASE j = 0
    <3>1. b = CHAR_BAR BY <1>3, <2>2, <2>8
    <3>2. j + 1 # Lead(c) /\ Shift(j + 1) = Shift(j)
      <4> HIDE DEF l, Shift
      <4> QED BY <2>4, <2>5, <2>6, <2>8
    <3> HIDE DEF Goal, Shift
    <3> QED BY <1>9, <3>1, <3>2
  <2>9. CASE j = 1
    <3> DEFINE s == ShiftOf(c)
    <3>1. b = s /\ s \in 49 .. 53 BY <1>3, <2>1, <2>2, <2>9
    <3>2. t.state = 1 BY <1>2, <2>7, <2>9
    <3> HIDE DEF s
    <3>3. b \in SHIFTS /\ b # CHAR_BAR /\ b # CHAR_THREE_QUARTERS /\ b # BAR /\ b # END_OF_LINE
      BY <3>1 DEF SHIFTS, CHAR_BAR, CHAR_THREE_QUARTERS, BAR, END_OF_LINE
    <3>4. /\ Stands(u, 0, b, t.ignore, t.in_frame)
          /\ Counts(u, t.frame_number, ShiftOffset(b), t.filename, t.end_of_file,
                    t.end_of_frame)
      BY <3>2, <3>3, CodeStep, Zenon
    <3>5. TeleOutput(t, byte) = << >> BY <3>2, <3>3, CodeOutput, Zenon
    <3>6. ShiftOffset(b) = o BY <3>1 DEF s
    <3>7. j + 1 # Lead(c) /\ Shift(j + 1) = o /\ State(j + 1) = 0
      <4> HIDE DEF l, Shift, o, State
      <4> QED BY <2>4, <2>5, <2>6, <2>7, <2>9
    <3> HIDE DEF u, State, Shift, o
    <3>8. Open(u, 0, o) /\ Held(t, u) BY <1>2, <3>4, <3>6, KeptIsHeld DEF Stands, Open
    <3> QED BY <3>5, <3>7, <3>8
  <2>10. CASE j \in 2 .. 1 + l
    <3> DEFINE i == j - 1
    <3>1. i \in 1 .. l /\ 2 + i = j + 1 /\ (i = l <=> j + 1 = 2 + l) /\ j + 1 > 0
          /\ j \in 2 .. 3 + l /\ j + 1 \in 2 .. 3 + l
      <4> HIDE DEF l
      <4> QED BY <2>4, <2>10
    <3>2. b = y[i]
      <4> HIDE DEF e, y, i, l
      <4> QED BY <1>3, <2>2, <3>1
    <3>3. State(j) = IF i = 2 THEN 1 ELSE 0
      <4>1. CASE j = 2 BY <2>7, <4>1
      <4>2. CASE j # 2
        <5>1. j = 3 /\ l = 2 /\ i = 2
          <6> HIDE DEF l
          <6> QED BY <2>4, <2>10, <4>2
        <5>2. e[2 + 1] = y[1]
          <6>1. 1 \in 1 .. l
            <7> HIDE DEF l
            <7> QED BY <5>1
          <6> QED BY <2>2, <6>1, Zenon
        <5>3. e[3] = CHAR_BAR
          <6>1. l # 1
            <7> HIDE DEF l
            <7> QED BY <5>1
          <6>2. y[1] = CHAR_BAR BY <2>3, <6>1, Zenon
          <6>3. e[3] = y[1]
            <7>1. 2 + 1 = 3 OBVIOUS
            <7> QED BY <5>2, <7>1, Zenon
          <6> QED BY <6>2, <6>3, Zenon
        <5> HIDE DEF e
        <5> QED BY <5>1, <5>3
      <4> QED BY <4>1, <4>2
    <3>4. Shift(j) = o /\ Shift(j + 1) = o BY <2>6, <3>1, Zenon
    <3>5. Open(t, IF i = 2 THEN 1 ELSE 0, o)
      <4> HIDE DEF State, Shift, i, o
      <4> QED BY <1>1, <3>3, <3>4
    <3> HIDE DEF i
    <3>6. /\ Open(u, IF y[i] = CHAR_BAR THEN 1 ELSE 0, o) /\ Held(t, u)
          /\ TeleOutput(t, byte) = IF i = l THEN <<Char(d + o)>> ELSE << >>
      <4> HIDE DEF o, d
      <4> QED BY <2>1, <3>1, <3>2, <3>5, SymbolByte, ZenonT(30)
    <3>7. d + o = c
      <4>1. o \in Int /\ c \in Int
        <5>1. ShiftOf(c) \in SHIFTS
          <6> DEFINE s == ShiftOf(c)
          <6>1. s \in 49 .. 53 BY <2>1
          <6> HIDE DEF s
          <6>2. s \in SHIFTS BY <6>1 DEF SHIFTS
          <6> QED BY <6>2 DEF s
        <5>2. o \in ShiftOffsets BY <5>1, ShiftType, Zenon
        <5> HIDE DEF o
        <5> QED BY <5>2 DEF ShiftOffsets, Byte
      <4> HIDE DEF o
      <4> QED BY <4>1 DEF d
    <3>8. State(j + 1) = IF y[i] = CHAR_BAR THEN 1 ELSE 0
      <4> HIDE DEF e, y
      <4> QED BY <1>3, <3>1, <3>2
    <3> HIDE DEF u, y, State, Shift, o, d, l
    <3>9. Open(u, State(j + 1), Shift(j + 1)) /\ Held(t, u) BY <3>4, <3>6, <3>8
    <3>10. TeleOutput(t, byte) = IF j + 1 = Lead(c) THEN <<c>> ELSE << >>
      BY <1>6, <2>5, <3>1, <3>6, <3>7
    <3> QED BY <3>9, <3>10
  <2>11. CASE j = 2 + l
    <3>1. b = CHAR_BAR
      <4>1. j + 1 = 3 + l
        <5> HIDE DEF l
        <5> QED BY <2>4, <2>11
      <4> QED BY <1>3, <2>2, <4>1
    <3>2. j + 1 # Lead(c) /\ Shift(j + 1) = Shift(j)
      <4> HIDE DEF l, Shift
      <4> QED BY <2>4, <2>5, <2>6, <2>11
    <3> HIDE DEF Goal, Shift
    <3> QED BY <1>9, <3>1, <3>2
  <2>12. CASE j = 3 + l
    <3>1. j + 1 = 4 + l /\ j + 1 # Lead(c) /\ j + 1 \notin 2 .. 3 + l
      <4> HIDE DEF l
      <4> QED BY <2>4, <2>5, <2>12
    <3>2. b = 48 /\ State(j) = 1 /\ State(j + 1) = 0 /\ Shift(j + 1) = 0
      <4> HIDE DEF l, State, Shift, e
      <4> QED BY <1>3, <2>2, <2>6, <2>7, <2>12, <3>1
    <3>3. t.state = 1
      <4> HIDE DEF State
      <4> QED BY <1>2, <3>2
    <3> HIDE DEF b
    <3>4. b \in SHIFTS /\ b # CHAR_BAR /\ b # CHAR_THREE_QUARTERS /\ b # BAR /\ b # END_OF_LINE
          /\ ShiftOffset(b) = 0
      BY <3>2 DEF SHIFTS, CHAR_BAR, CHAR_THREE_QUARTERS, BAR, END_OF_LINE, ShiftOffset
    <3>5. /\ Stands(u, 0, b, t.ignore, t.in_frame)
          /\ Counts(u, t.frame_number, ShiftOffset(b), t.filename, t.end_of_file,
                    t.end_of_frame)
      BY <3>3, <3>4, CodeStep, Zenon DEF b
    <3>6. TeleOutput(t, byte) = << >> BY <3>3, <3>4, CodeOutput, Zenon DEF b
    <3> HIDE DEF u, State, Shift
    <3>7. Open(u, 0, 0) /\ Held(t, u) BY <1>2, <3>4, <3>5, KeptIsHeld DEF Stands, Open
    <3> QED BY <3>1, <3>2, <3>6, <3>7
  <2>13. j = 0 \/ j = 1 \/ j \in 2 .. 1 + l \/ j = 2 + l \/ j = 3 + l
    <3> HIDE DEF n, l
    <3> QED BY <1>4, <2>2, <2>4
  <2> QED BY <2>8, <2>9, <2>10, <2>11, <2>12, <2>13, Zenon
<1> QED BY <1>10, <1>11, <1>12, Zenon DEF IsShifted

-----------------------------------------------------------------------------
(* How a piece is decoded.                                                 *)

\* The bytes of the next character are its encoding.
LEMMA CutStep ==
    ASSUME NEW page \in TelePages, page.frame > 1,
           NEW i \in 0 .. Len(PieceOf(page)) - 1
    PROVE  LET c == PieceOf(page)[i + 1]  e == Encoded(c)  a == Cut(page)[i]
           IN  /\ c \in Byte /\ a \in Nat /\ Len(e) \in Nat
               /\ Cut(page)[i + 1] = a + Len(e) /\ a + Len(e) <= BodySize(page)
               /\ \A j \in 0 .. Len(e) - 1 : Code(page, 9 + a + j + 1) = e[j + 1]
<1> DEFINE piece == PieceOf(page)
           n == Len(piece)
           c == piece[i + 1]
           e == Encoded(c)
           cut == Cut(page)
           body == Body(page)
           size == BodySize(page)
<1>1. n \in Nat /\ c \in Byte /\ i \in 0 .. n /\ i + 1 \in 1 .. n /\ i + 1 \in 0 .. n
      /\ (i + 1) - 1 = i
  <2>1. piece \in Seq(Byte) /\ Len(piece) \in Nat /\ i \in 0 .. Len(piece) - 1
    BY PieceIs, Zenon
  <2> HIDE DEF piece
  <2> QED BY <2>1
<1>2. /\ size \in Nat /\ body \in Seq(Ascii) /\ Len(body) = size
      /\ cut \in [0 .. n -> 0 .. size] /\ IsCut(cut, page)
  BY DataBytes, Zenon
<1> HIDE DEF n
<1>3. cut[i] \in 0 .. size /\ cut[i + 1] \in 0 .. size BY <1>1, <1>2
<1>4. SubSeq(body, cut[i] + 1, cut[i + 1]) = e
  <2>1. SubSeq(body, cut[(i + 1) - 1] + 1, cut[i + 1]) = e
    BY <1>1, <1>2, Zenon DEF IsCut, n
  <2> QED BY <1>1, <2>1, Zenon
<1>5. e \in Seq(Ascii) /\ Len(e) \in 1 .. 6 BY <1>1, EncodingEnds, Zenon
<1>6. \A k \in 1 .. size : body[k] = Code(page, 9 + k) BY DEF Body
<1> DEFINE a == cut[i]
           b == cut[i + 1]
           part == SubSeq(body, a + 1, b)
<1> HIDE DEF a, b, cut, body, size, e
<1>7. a \in 0 .. Len(body) /\ b \in 0 .. Len(body) /\ Len(body) \in Nat
  BY <1>2, <1>3 DEF a, b
<1>8. part = e BY <1>4 DEF a, b
<1>9. a <= b
  <2> SUFFICES ASSUME b < a PROVE FALSE BY <1>7
  <2>1. Len(SubSeq(body, a + 1, b)) = 0 BY <1>2, <1>7
  <2>2. Len(e) = 0 BY <1>8, <2>1
  <2> QED BY <1>5, <2>2
<1>10. /\ Len(part) = b - a /\ \A k \in 1 .. b - a : part[k] = body[a + k]
  <2>1. b \in a .. Len(body) BY <1>7, <1>9
  <2> QED BY <1>2, <1>7, <2>1, PartOf, ZenonT(30)
<1>11. b = a + Len(e) /\ a + Len(e) <= size /\ Len(e) = b - a
  <2> HIDE DEF part
  <2> QED BY <1>2, <1>5, <1>7, <1>8, <1>10
<1>12. ASSUME NEW j \in 0 .. Len(e) - 1 PROVE Code(page, 9 + a + j + 1) = e[j + 1]
  <2>1. j + 1 \in 1 .. b - a /\ a + (j + 1) \in 1 .. size /\ 9 + (a + (j + 1)) = 9 + a + j + 1
    BY <1>2, <1>7, <1>11
  <2>2. e[j + 1] = body[a + (j + 1)] BY <1>8, <1>10, <2>1, Zenon
  <2>3. body[a + (j + 1)] = Code(page, 9 + (a + (j + 1))) BY <1>6, <2>1, Zenon
  <2> QED BY <2>1, <2>2, <2>3, Zenon
<1>13. a \in Nat /\ Len(e) \in Nat BY <1>5, <1>7
<1> QED BY <1>1, <1>11, <1>12, <1>13, Zenon DEF a, b, cut, e, size

\* After its last byte and before its first nothing is known of a character.
LEMMA SymbolEdges ==
    ASSUME NEW t, NEW c \in Byte
    PROVE  /\ SymbolAt(t, c, 0) <=> Open(t, 0, 0)
           /\ SymbolAt(t, c, Len(Encoded(c))) => Open(t, 0, 0)
<1> DEFINE e == Encoded(c)
           n == Len(e)
<1>1. n \in 1 .. 6 /\ e[n] # CHAR_BAR BY EncodingEnds, Zenon
<1>2. SymbolAt(t, c, 0) <=> Open(t, 0, 0)
  <2>1. ~(0 > 0) /\ 0 \notin 2 .. n - 1
    <3> HIDE DEF n
    <3> QED BY <1>1
  <2> QED BY <2>1, Zenon DEF SymbolAt
<1>3. SymbolAt(t, c, n) => Open(t, 0, 0)
  <2>1. n \notin 2 .. n - 1
    <3> HIDE DEF n
    <3> QED BY <1>1
  <2> QED BY <1>1, <2>1, Zenon DEF SymbolAt
<1> QED BY <1>2, <1>3, Zenon

\* Each byte of a piece leads to the next place, and the file gets the characters
\* of the piece one after the other.
LEMMA PieceStep ==
    ASSUME NEW page \in TelePages, page.frame > 1,
           NEW t \in TeleStates, Waits(t), t.frame_number # 1,
           NEW pos \in Nat, NEW m \in Nat, PieceAt(t, page, pos, m), pos # 9 + BodySize(page),
           NEW byte \in Byte, byte % 128 = Code(page, pos + 1)
    PROVE  LET u == TeleByte(t, byte)
           IN  \E m2 \in Nat :
                  /\ PieceAt(u, page, pos + 1, m2) /\ Held(t, u)
                  /\ m2 \in 0 .. Len(PieceOf(page))
                  /\ \/ m2 = m /\ TeleOutput(t, byte) = << >>
                     \/ m2 = m + 1 /\ TeleOutput(t, byte) = <<PieceOf(page)[m + 1]>>
<1> DEFINE u == TeleByte(t, byte)
           piece == PieceOf(page)
           n == Len(piece)
           cut(k) == Cut(page)[k]
<1>1. PICK i \in 0 .. n - 1 :
         \E j \in 0 .. Len(Encoded(piece[i + 1])) - 1 :
            /\ pos = 9 + cut(i) + j
            /\ SymbolAt(t, piece[i + 1], j)
            /\ m = i + (IF j >= Lead(piece[i + 1]) THEN 1 ELSE 0)
  BY Zenon DEF PieceAt
<1> DEFINE c == piece[i + 1]
           l == Len(Encoded(c))
<1>2. PICK j \in 0 .. l - 1 :
         /\ pos = 9 + cut(i) + j
         /\ SymbolAt(t, c, j)
         /\ m = i + (IF j >= Lead(c) THEN 1 ELSE 0)
  BY <1>1, Zenon
<1>3. /\ c \in Byte /\ cut(i) \in Nat /\ l \in Nat
      /\ cut(i + 1) = cut(i) + l /\ cut(i) + l <= BodySize(page)
      /\ \A k \in 0 .. l - 1 : Code(page, 9 + cut(i) + k + 1) = Encoded(c)[k + 1]
  BY CutStep, Zenon
<1>4. n \in Nat BY PieceIs, Zenon
<1>5. cut(n) = BodySize(page) BY DataBytes, Zenon DEF IsCut
<1>6. Lead(c) \in 1 .. l BY <1>3, EncodingEnds, Zenon
<1>7. byte % 128 = Encoded(c)[j + 1] BY <1>2, <1>3, Zenon
<1>8. /\ SymbolAt(u, c, j + 1) /\ Held(t, u)
      /\ TeleOutput(t, byte) = IF j + 1 = Lead(c) THEN <<c>> ELSE << >>
  BY <1>2, <1>3, <1>7, SymbolStep, Zenon
<1> DEFINE lead == Lead(c)
           m2 == i + (IF j + 1 >= lead THEN 1 ELSE 0)
<1> HIDE DEF l, n, c, cut, u, lead
<1>9. /\ m2 \in Nat /\ m2 \in 0 .. n
      /\ \/ m2 = m /\ TeleOutput(t, byte) = << >>
         \/ m2 = m + 1 /\ m = i /\ TeleOutput(t, byte) = <<c>>
  <2>1. m = i + (IF j >= lead THEN 1 ELSE 0) BY <1>2 DEF lead
  <2>2. TeleOutput(t, byte) = IF j + 1 = lead THEN <<c>> ELSE << >> BY <1>8 DEF lead
  <2>3. lead \in 1 .. l BY <1>6 DEF lead
  <2> QED BY <1>3, <1>4, <2>1, <2>2, <2>3
<1>10. PieceAt(u, page, pos + 1, m2)
  <2>1. CASE j + 1 < l
    <3>1. j + 1 \in 0 .. l - 1 /\ pos + 1 = 9 + cut(i) + (j + 1)
      BY <1>2, <1>3, <2>1
    <3> HIDE DEF m2
    <3>2. m2 = i + (IF j + 1 >= Lead(c) THEN 1 ELSE 0) BY DEF m2, lead
    <3> QED BY <1>8, <3>1, <3>2, Zenon DEF PieceAt, l, c, n, cut
  <2>2. CASE j + 1 = l
    <3>1. Open(u, 0, 0) BY <1>3, <1>8, <2>2, SymbolEdges DEF l
    <3>2. pos + 1 = 9 + cut(i + 1) /\ m2 = i + 1
      <4>1. lead \in 1 .. l BY <1>6 DEF lead
      <4> QED BY <1>2, <1>3, <2>2, <4>1
    <3>3. CASE i + 1 = n
      <4>1. pos + 1 = 9 + BodySize(page) /\ m2 = n BY <1>5, <3>2, <3>3
      <4> QED BY <3>1, <4>1, Zenon DEF PieceAt, n
    <3>4. CASE i + 1 # n
      <4> DEFINE k == i + 1
                 d == piece[k + 1]
      <4>1. k \in 0 .. n - 1 BY <1>4, <3>4
      <4>2. d \in Byte /\ Len(Encoded(d)) \in Nat BY <4>1, CutStep, Zenon DEF n
      <4>3. Lead(d) \in 1 .. Len(Encoded(d)) BY <4>2, EncodingEnds, Zenon
      <4>4. SymbolAt(u, d, 0) BY <3>1, <4>2, SymbolEdges
      <4> DEFINE ld == Lead(d)
                 ln == Len(Encoded(d))
      <4>5. 0 \in 0 .. ln - 1 /\ ~(0 >= ld)
        <5>1. ln \in Nat /\ ld \in 1 .. ln BY <4>2, <4>3
        <5> HIDE DEF ln, ld
        <5> QED BY <5>1
      <4> HIDE DEF k
      <4>6. pos + 1 = 9 + cut(k) + 0
        <5>1. pos + 1 = 9 + cut(k) BY <3>2 DEF k
        <5> HIDE DEF ld, ln, d
        <5> QED BY <5>1
      <4>7. m2 = k + (IF 0 >= ld THEN 1 ELSE 0)
        <5>1. m2 = k BY <3>2 DEF k
        <5> HIDE DEF ld, ln, d, m2
        <5> QED BY <4>1, <4>5, <5>1
      <4> HIDE DEF m2
      <4> QED BY <4>1, <4>4, <4>5, <4>6, <4>7, Zenon DEF PieceAt, n, cut, d, ln, ld
    <3> QED BY <3>3, <3>4
  <2>3. j + 1 < l \/ j + 1 = l BY <1>3
  <2> QED BY <2>1, <2>2, <2>3
<1> HIDE DEF m2
<1>11. m2 = m + 1 /\ m = i /\ TeleOutput(t, byte) = <<c>> =>
          TeleOutput(t, byte) = <<piece[m + 1]>>
  BY DEF c
<1> QED BY <1>8, <1>9, <1>10, <1>11, Zenon DEF u, n

-----------------------------------------------------------------------------
(* How a frame is decoded, part by part.                                   *)

\* The next byte of a page comes to the decoder.
Comes(t, page, pos, byte) ==
    /\ t \in TeleStates /\ Waits(t)
    /\ page \in TelePages /\ page # TextPage /\ pos \in Nat /\ pos < Size(page)
    /\ byte \in Byte /\ byte % 128 = Code(page, pos + 1)

\* What it does to the count of frames, to the name and to the two ends.
Moved(t, u, page, pos) ==
    /\ u.frame_number = t.frame_number + (IF pos = 2 THEN 1 ELSE 0)
    /\ u.filename = IF page.frame = 1 /\ pos = 9 /\ t.frame_number = 1
                    THEN FileName(page.program) ELSE t.filename
    /\ (u.end_of_file <=> t.end_of_file \/ (LastPage(page) /\ pos = Size(page) - 6))
    /\ (u.end_of_frame <=> t.end_of_frame \/ pos = Size(page) - 1)

\* The first bytes of a frame.
LEMMA HeadStep ==
    ASSUME NEW t, NEW page, NEW pos, NEW byte, Comes(t, page, pos, byte),
           pos <= 8, HeadAt(t, pos)
    PROVE  LET u == TeleByte(t, byte)
           IN  /\ TeleOutput(t, byte) = << >>
               /\ Counts(u, t.frame_number + (IF pos = 2 THEN 1 ELSE 0), 0, t.filename,
                         t.end_of_file, t.end_of_frame)
               /\ pos < 8 => HeadAt(u, pos + 1)
               /\ pos = 8 => Open(u, 0, 0) /\ u.control_code = TERMINATOR
<1> DEFINE u == TeleByte(t, byte)
           b == byte % 128
           out == TeleOutput(t, byte)
           Goal == /\ out = << >>
                   /\ Counts(u, t.frame_number + (IF pos = 2 THEN 1 ELSE 0), 0, t.filename,
                             t.end_of_file, t.end_of_frame)
                   /\ pos < 8 => HeadAt(u, pos + 1)
                   /\ pos = 8 => Open(u, 0, 0) /\ u.control_code = TERMINATOR
<1> SUFFICES Goal OBVIOUS
<1>1. t \in TeleStates /\ Waits(t) /\ byte \in Byte /\ t.frame_number \in Nat
  BY FieldRanges DEF Comes
<1>2. /\ pos = 0 => b = 12
      /\ pos = 1 => b = CHAR_BAR
      /\ pos = 2 => b = START_FRAME
      /\ pos = 3 => b = CHAR_BAR
      /\ pos = 4 => b = FRAME_LETTER
      /\ pos = 5 => b = 96 + page.frame
      /\ pos = 6 => b = 48
      /\ pos = 7 => b = CHAR_BAR
      /\ pos = 8 => b = TERMINATOR
  <2>1. page \in TelePages /\ page # TextPage /\ b = Code(page, pos + 1)
    BY Zenon DEF Comes
  <2>2. /\ Code(page, 1) = 12 /\ Code(page, 2) = CHAR_BAR
        /\ Code(page, 3) = START_FRAME /\ Code(page, 4) = CHAR_BAR
        /\ Code(page, 5) = FRAME_LETTER /\ Code(page, 6) = 96 + page.frame
        /\ Code(page, 7) = 48 /\ Code(page, 8) = CHAR_BAR
        /\ Code(page, 9) = TERMINATOR
    BY <2>1, FrameBytes, Zenon
  <2> HIDE DEF b
  <2> QED BY <2>1, <2>2
<1>3. page.frame \in 1 .. 10 BY FrameRange, Zenon DEF Comes
<1>4. /\ pos \in {0, 2, 4, 5, 6, 8} => b # CHAR_BAR
      /\ pos \in {2, 4, 8} =>
            b \notin {CHAR_THREE_QUARTERS, BAR, END_OF_LINE, CHAR_BAR}
  BY <1>2, <1>3 DEF CHAR_BAR, START_FRAME, FRAME_LETTER, TERMINATOR, CHAR_THREE_QUARTERS, BAR,
     END_OF_LINE
<1>5. pos \in {0, 1, 2, 3, 4, 5, 6, 7, 8} BY DEF Comes
<1> HIDE DEF u, b, out
<1>6. /\ pos \in {2, 4, 8} => t.state = 1
      /\ pos = 5 => t.state = 2 /\ t.control_code = FRAME_LETTER
      /\ pos \notin {2, 4, 5, 8} => t.state = 0
      /\ (t.in_frame <=> pos >= 3) /\ t.shift_offset = 0
      /\ pos \in 6 .. 8 => t.ignore
  BY <1>5 DEF HeadAt
<1>7. CASE pos \in {1, 3, 7}
  <2>1. b = CHAR_BAR BY <1>2, <1>7
  <2>2. Kept(t, u) /\ Stands(u, 1, t.control_code, t.ignore, t.in_frame) /\ out = << >>
    BY <1>1, <2>1, BarStep, Zenon DEF u, b, out
  <2>3. HeadAt(u, pos + 1) BY <1>6, <1>7, <2>2 DEF HeadAt, Kept, Stands
  <2>4. Counts(u, t.frame_number + (IF pos = 2 THEN 1 ELSE 0), 0, t.filename,
               t.end_of_file, t.end_of_frame)
    BY <1>1, <1>6, <1>7, <2>2 DEF Kept, Counts
  <2> QED BY <1>7, <2>2, <2>3, <2>4
<1>8. CASE pos = 0
  <2>1. b # CHAR_BAR /\ t.state = 0 /\ ~t.in_frame BY <1>4, <1>6, <1>8
  <2>2. Kept(t, u) /\ Stands(u, 0, t.control_code, t.ignore, FALSE) /\ out = << >>
    BY <1>1, <2>1, IdleStep, Zenon DEF u, b, out
  <2>3. HeadAt(u, pos + 1) BY <1>6, <1>8, <2>2 DEF HeadAt, Kept, Stands
  <2>4. Counts(u, t.frame_number + (IF pos = 2 THEN 1 ELSE 0), 0, t.filename,
               t.end_of_file, t.end_of_frame)
    BY <1>1, <1>6, <1>8, <2>2 DEF Kept, Counts
  <2> QED BY <1>8, <2>2, <2>3, <2>4
<1>9. CASE pos = 6
  <2>1. b # CHAR_BAR /\ t.state = 0 /\ t.in_frame /\ t.ignore /\ ~IsName(t)
    BY <1>4, <1>6, <1>9 DEF IsName
  <2>2. Kept(t, u) /\ Stands(u, 0, t.control_code, t.ignore, TRUE) /\ out = << >>
    BY <1>1, <2>1, DataStep, Zenon DEF u, b, out
  <2>3. HeadAt(u, pos + 1) BY <1>6, <1>9, <2>2 DEF HeadAt, Kept, Stands
  <2>4. Counts(u, t.frame_number + (IF pos = 2 THEN 1 ELSE 0), 0, t.filename,
               t.end_of_file, t.end_of_frame)
    BY <1>1, <1>6, <1>9, <2>2 DEF Kept, Counts
  <2> QED BY <1>9, <2>2, <2>3, <2>4
<1>10. CASE pos = 5
  <2>1. b # CHAR_BAR /\ t.state >= 2 /\ t.control_code = FRAME_LETTER
    BY <1>4, <1>6, <1>10
  <2>2. Kept(t, u) /\ Stands(u, 0, t.control_code, TRUE, t.in_frame) /\ out = << >>
    BY <1>1, <2>1, WaitStep, Zenon DEF u, b, out
  <2>3. HeadAt(u, pos + 1) BY <1>6, <1>10, <2>2 DEF HeadAt, Kept, Stands
  <2>4. Counts(u, t.frame_number + (IF pos = 2 THEN 1 ELSE 0), 0, t.filename,
               t.end_of_file, t.end_of_frame)
    BY <1>1, <1>6, <1>10, <2>2 DEF Kept, Counts
  <2> QED BY <1>10, <2>2, <2>3, <2>4
<1>11. pos \in {2, 4, 8} => out = << >>
  <2> SUFFICES ASSUME pos \in {2, 4, 8} PROVE out = << >> OBVIOUS
  <2>1. t.state = 1 /\ b # CHAR_BAR /\ b # CHAR_THREE_QUARTERS /\ b # BAR /\ b # END_OF_LINE
    BY <1>4, <1>6
  <2> QED BY <2>1, CodeOutput, Zenon DEF b, out
<1>12. CASE pos = 2
  <2>1. b = START_FRAME /\ t.state = 1 /\ b # CHAR_BAR BY <1>2, <1>4, <1>6, <1>12
  <2>2. /\ Stands(u, 0, b, t.ignore, TRUE)
        /\ Counts(u, t.frame_number + 1, t.shift_offset, t.filename,
                  t.end_of_file, t.end_of_frame)
    BY <1>1, <2>1, CodeStep, Zenon DEF u, b
  <2>3. HeadAt(u, pos + 1) BY <1>6, <1>12, <2>2 DEF HeadAt, Counts, Stands
  <2> QED BY <1>6, <1>11, <1>12, <2>2, <2>3
<1>13. CASE pos = 4
  <2>1. b = FRAME_LETTER /\ t.state = 1 /\ b # CHAR_BAR BY <1>2, <1>4, <1>6, <1>13
  <2>2. Kept(t, u) /\ Stands(u, 2, b, t.ignore, t.in_frame)
    BY <1>1, <2>1, CodeStep, Zenon DEF u, b
  <2>3. HeadAt(u, pos + 1) BY <1>6, <1>13, <2>1, <2>2 DEF HeadAt, Kept, Stands
  <2>4. Counts(u, t.frame_number + (IF pos = 2 THEN 1 ELSE 0), 0, t.filename,
               t.end_of_file, t.end_of_frame)
    BY <1>1, <1>6, <1>13, <2>2 DEF Kept, Counts
  <2> QED BY <1>11, <1>13, <2>3, <2>4
<1>14. CASE pos = 8
  <2>1. b = TERMINATOR /\ t.state = 1 /\ b # CHAR_BAR BY <1>2, <1>4, <1>6, <1>14
  <2>2. Kept(t, u) /\ Stands(u, 0, b, FALSE, t.in_frame)
    BY <1>1, <2>1, CodeStep, Zenon DEF u, b
  <2>3. Open(u, 0, 0) /\ u.control_code = TERMINATOR
    BY <1>6, <1>14, <2>1, <2>2 DEF Open, Kept, Stands
  <2>4. Counts(u, t.frame_number + (IF pos = 2 THEN 1 ELSE 0), 0, t.filename,
               t.end_of_file, t.end_of_frame)
    BY <1>1, <1>6, <1>14, <2>2 DEF Kept, Counts
  <2> QED BY <1>11, <1>14, <2>3, <2>4
<1> HIDE DEF Goal
<1> QED BY <1>5, <1>7, <1>8, <1>9, <1>10, <1>12, <1>13, <1>14

\* The data of a header: the name goes to filename if it is the first frame that
\* is decoded, and what follows |L is ignored.
LEMMA HeaderStep ==
    ASSUME NEW t, NEW page, NEW pos, NEW byte, Comes(t, page, pos, byte),
           page.frame = 1, NEW j \in 0 .. 4, pos = 9 + j, HeaderAt(t, page, j)
    PROVE  LET u == TeleByte(t, byte)
           IN  /\ HeaderAt(u, page, j + 1)
               /\ Counts(u, t.frame_number, 0,
                         IF j = 0 /\ t.frame_number = 1 THEN FileName(page.program)
                         ELSE t.filename,
                         t.end_of_file, t.end_of_frame)
<1> DEFINE u == TeleByte(t, byte)
           b == byte % 128
           p == page.program
           name == FileName(p)
           Goal == /\ HeaderAt(u, page, j + 1)
                   /\ Counts(u, t.frame_number, 0,
                             IF j = 0 /\ t.frame_number = 1 THEN name ELSE t.filename,
                             t.end_of_file, t.end_of_frame)
<1> SUFFICES Goal OBVIOUS
<1>1. t \in TeleStates /\ Waits(t) /\ byte \in Byte /\ t.frame_number \in Nat
  BY FieldRanges DEF Comes
<1>2. page \in TelePages /\ page # TextPage BY DEF Comes
<1>3. /\ j = 0 => b = p
      /\ j = 1 => b = CHAR_BAR
      /\ j = 2 => b = END_OF_LINE
      /\ j = 3 => b = 48
      /\ j = 4 => b \in 48 .. 57
  BY <1>2, HeaderBytes DEF Comes
<1>4. p # CHAR_BAR
  <2>1. p \in Programs BY <1>2, PageFrame
  <2> HIDE DEF p
  <2> QED BY <2>1, HostAssumption
<1>5. j # 1 => b # CHAR_BAR BY <1>3, <1>4 DEF CHAR_BAR, END_OF_LINE
<1> HIDE DEF u, b, name, Goal
<1>6. /\ t.state = (IF j = 2 THEN 1 ELSE 0) /\ t.in_frame /\ t.shift_offset = 0
      /\ j <= 1 => t.control_code = TERMINATOR
      /\ j <= 2 => ~t.ignore
      /\ t.frame_number = 1 =>
            /\ ~t.end_of_file
            /\ t.filename = (IF j = 0 THEN << >> ELSE name)
            /\ j >= 3 => t.ignore
  BY DEF HeaderAt, name, p
<1> HIDE DEF p
<1> DEFINE Here == /\ u.state = (IF j + 1 = 2 THEN 1 ELSE 0) /\ u.in_frame /\ u.shift_offset = 0
                   /\ j + 1 <= 1 => u.control_code = TERMINATOR
                   /\ j + 1 <= 2 => ~u.ignore
                   /\ u.frame_number = 1 =>
                         /\ ~u.end_of_file
                         /\ u.filename = (IF j + 1 = 0 THEN << >> ELSE name)
                         /\ j + 1 >= 3 => u.ignore
<1>7. Here => HeaderAt(u, page, j + 1) BY DEF HeaderAt, name, p
<1>8. CASE j = 0 /\ t.frame_number = 1
  <2>1. b # CHAR_BAR /\ t.state = 0 /\ t.in_frame /\ IsName(t)
    BY <1>5, <1>6, <1>8 DEF IsName
  <2>2. /\ Stands(u, 0, t.control_code, t.ignore, TRUE)
        /\ u.frame_number = t.frame_number /\ u.shift_offset = t.shift_offset
        /\ u.filename = Append(t.filename, b)
        /\ u.end_of_file = t.end_of_file /\ u.end_of_frame = t.end_of_frame
    BY <1>1, <2>1, NameStep, ZenonT(30) DEF u, b
  <2>3. t.filename = << >> /\ b = p BY <1>3, <1>6, <1>8
  <2>4. u.filename = name BY <2>2, <2>3 DEF name, FileName
  <2>5. Here BY <1>6, <1>8, <2>2, <2>4 DEF Stands
  <2>6. Counts(u, t.frame_number, 0, name, t.end_of_file, t.end_of_frame)
    BY <1>6, <2>2, <2>4 DEF Counts
  <2> QED BY <1>7, <1>8, <2>5, <2>6 DEF Goal
<1>9. CASE j = 1
  <2>1. b = CHAR_BAR BY <1>3, <1>9
  <2>2. Kept(t, u) /\ Stands(u, 1, t.control_code, t.ignore, t.in_frame)
    BY <1>1, <2>1, BarStep, Zenon DEF u, b
  <2>3. Here BY <1>6, <1>9, <2>2 DEF Kept, Stands
  <2>4. Counts(u, t.frame_number, 0, t.filename, t.end_of_file, t.end_of_frame)
    BY <1>6, <2>2 DEF Kept, Counts
  <2> QED BY <1>7, <1>9, <2>3, <2>4 DEF Goal
<1>10. CASE j = 2
  <2>1. b = END_OF_LINE /\ b # CHAR_BAR /\ t.state = 1 BY <1>3, <1>5, <1>6, <1>10
  <2>2. Kept(t, u) /\ Stands(u, 0, b, t.ignore \/ t.frame_number = 1, t.in_frame)
    BY <1>1, <2>1, CodeStep, Zenon DEF u, b
  <2> DEFINE ignored == t.ignore \/ t.frame_number = 1
  <2>3. u.ignore = ignored /\ (t.frame_number = 1 => ignored) BY <2>2 DEF Stands
  <2> HIDE DEF ignored
  <2>4. t.frame_number = 1 => u.ignore BY <2>3
  <2>5. Here BY <1>6, <1>10, <2>2, <2>4 DEF Kept, Stands
  <2>6. Counts(u, t.frame_number, 0, t.filename, t.end_of_file, t.end_of_frame)
    BY <1>6, <2>2 DEF Kept, Counts
  <2> QED BY <1>7, <1>10, <2>5, <2>6 DEF Goal
<1>11. CASE j \in {3, 4} \/ (j = 0 /\ t.frame_number # 1)
  <2>1. b # CHAR_BAR /\ t.state = 0 /\ t.in_frame /\ ~IsName(t)
    BY <1>5, <1>6, <1>11 DEF IsName
  <2>2. Kept(t, u) /\ Stands(u, 0, t.control_code, t.ignore, TRUE)
    BY <1>1, <2>1, DataStep, Zenon DEF u, b
  <2>3. Here BY <1>6, <1>11, <2>2 DEF Kept, Stands
  <2>4. Counts(u, t.frame_number, 0, t.filename, t.end_of_file, t.end_of_frame)
    BY <1>6, <2>2 DEF Kept, Counts
  <2> QED BY <1>7, <1>11, <2>3, <2>4 DEF Goal
<1> QED BY <1>8, <1>9, <1>10, <1>11

\* The end of a frame, from the bar before |F or |Z.
LEMMA EndStep ==
    ASSUME NEW t, NEW page, NEW pos, NEW byte, Comes(t, page, pos, byte),
           \/ /\ pos = 9 + BodySize(page) /\ page.frame > 1 /\ Open(t, 0, 0)
           \/ /\ pos = 14 /\ page.frame = 1 /\ HeaderAt(t, page, 5)
           \/ /\ LastPage(page) /\ pos \in Size(page) - 6 .. Size(page) - 5
              /\ EndingAt(t, pos - (Size(page) - 5))
           \/ /\ pos >= Size(page) - 4 /\ TrailerAt(t, page, pos - (Size(page) - 5))
    PROVE  LET u == TeleByte(t, byte)
               size == Size(page)
           IN  /\ Moved(t, u, page, pos)
               /\ TeleOutput(t, byte) = << >>
               /\ \/ /\ LastPage(page) /\ pos + 1 \in size - 6 .. size - 5
                     /\ EndingAt(u, (pos + 1) - (size - 5))
                  \/ pos + 1 >= size - 4 /\ TrailerAt(u, page, (pos + 1) - (size - 5))
<1> DEFINE u == TeleByte(t, byte)
           b == byte % 128
           out == TeleOutput(t, byte)
           size == Size(page)
           last == LastPage(page)
           Goal == /\ Moved(t, u, page, pos)
                   /\ out = << >>
                   /\ \/ /\ last /\ pos + 1 \in size - 6 .. size - 5
                         /\ EndingAt(u, (pos + 1) - (size - 5))
                      \/ pos + 1 >= size - 4 /\ TrailerAt(u, page, (pos + 1) - (size - 5))
<1> SUFFICES Goal OBVIOUS
<1>1. /\ t \in TeleStates /\ Waits(t) /\ byte \in Byte
      /\ page \in TelePages /\ page # TextPage
      /\ pos \in Nat /\ pos < size /\ b = Code(page, pos + 1)
  BY DEF Comes
<1>2. /\ size \in Nat /\ size >= 14
      /\ Code(page, size - 4) = CHAR_BAR /\ Code(page, size - 3) = END_OF_FRAME
      /\ Code(page, size - 2) \in 48 .. 57 /\ Code(page, size - 1) \in 48 .. 57
      /\ Code(page, size) \in 48 .. 57
  BY <1>1, FrameBytes, Zenon
<1>3. page.frame > 1 =>
          /\ 9 + BodySize(page) = IF last THEN size - 7 ELSE size - 5
          /\ last => Code(page, size - 6) = CHAR_BAR /\ Code(page, size - 5) = END_OF_FILE
          /\ BodySize(page) \in Nat
  <2> SUFFICES ASSUME page.frame > 1
               PROVE  /\ 9 + BodySize(page) = IF last THEN size - 7 ELSE size - 5
                      /\ last =>
                            Code(page, size - 6) = CHAR_BAR /\ Code(page, size - 5) = END_OF_FILE
                      /\ BodySize(page) \in Nat
    OBVIOUS
  <2>1. /\ BodySize(page) \in Nat
        /\ BodySize(page) = size - 14 - (IF last THEN 2 ELSE 0)
        /\ last => Code(page, size - 6) = CHAR_BAR /\ Code(page, size - 5) = END_OF_FILE
    BY <1>1, DataBytes, Zenon
  <2> HIDE DEF size, last
  <2> QED BY <1>2, <2>1
<1>4. page.frame = 1 => size = 19 /\ ~last BY <1>1, HeaderBytes DEF LastPage
<1>5. last => page.frame > 1 BY DEF LastPage
<1> HIDE DEF u, b, out, size, last, Goal
<1>6. /\ pos = size - 7 /\ last => b = Code(page, size - 6)
      /\ pos = size - 6 => b = Code(page, size - 5)
      /\ pos = size - 5 => b = Code(page, size - 4)
      /\ pos = size - 4 => b = Code(page, size - 3)
      /\ pos = size - 3 => b = Code(page, size - 2)
      /\ pos = size - 2 => b = Code(page, size - 1)
      /\ pos = size - 1 => b = Code(page, size)
  BY <1>1, <1>2
<1>7. \/ /\ last /\ pos = size - 7 /\ t.state = 0 /\ t.in_frame /\ t.shift_offset = 0
      \/ /\ last /\ pos = size - 6 /\ t.state = 1 /\ t.in_frame /\ t.shift_offset = 0
      \/ /\ pos = size - 5 /\ t.state = 0 /\ (t.in_frame <=> ~last) /\ t.shift_offset = 0
      \/ /\ pos \in size - 4 .. size - 1 /\ t.state = pos - (size - 5) /\ t.shift_offset = 0
         /\ (t.in_frame <=> pos = size - 4 /\ ~last)
         /\ pos > size - 4 => t.control_code = END_OF_FRAME
  <2>1. CASE pos = 9 + BodySize(page) /\ page.frame > 1 /\ Open(t, 0, 0)
    BY <1>3, <2>1 DEF Open
  <2>2. CASE pos = 14 /\ page.frame = 1 /\ HeaderAt(t, page, 5)
    BY <1>4, <2>2 DEF HeaderAt
  <2>3. CASE /\ last /\ pos \in size - 6 .. size - 5
             /\ EndingAt(t, pos - (size - 5))
    BY <1>1, <1>2, <2>3 DEF EndingAt
  <2>4. CASE pos >= size - 4 /\ TrailerAt(t, page, pos - (size - 5))
    BY <1>1, <1>2, <2>4 DEF TrailerAt, last
  <2> QED BY <2>1, <2>2, <2>3, <2>4, Zenon DEF size, last
<1>8. /\ page.frame = 1 => pos # 9
      /\ pos # 2
  <2>1. page.frame \in 1 .. 10 BY <1>1, FrameRange, Zenon
  <2>2. page.frame > 1 => size >= (IF last THEN 16 ELSE 14) BY <1>2, <1>3
  <2> QED BY <1>2, <1>4, <1>5, <1>7, <2>1, <2>2
<1>9. t.frame_number \in Nat BY <1>1, FieldRanges
<1> DEFINE Rest == /\ u.frame_number = t.frame_number /\ u.filename = t.filename
                   /\ (u.end_of_file <=> t.end_of_file \/ (last /\ pos = size - 6))
                   /\ (u.end_of_frame <=> t.end_of_frame \/ pos = size - 1)
<1>10. Rest => Moved(t, u, page, pos) BY <1>8, <1>9 DEF Moved, last, size
<1>11. CASE pos = size - 7
  <2>1. b = CHAR_BAR /\ last BY <1>2, <1>3, <1>5, <1>6, <1>7, <1>11
  <2>2. Kept(t, u) /\ Stands(u, 1, t.control_code, t.ignore, t.in_frame) /\ out = << >>
    BY <1>1, <2>1, BarStep, Zenon DEF u, b, out
  <2>3. t.in_frame /\ t.shift_offset = 0 BY <1>2, <1>7, <1>11
  <2>4. EndingAt(u, -1) BY <2>2, <2>3 DEF EndingAt, Kept, Stands
  <2>5. pos + 1 \in size - 6 .. size - 5 /\ (pos + 1) - (size - 5) = -1 BY <1>2, <1>11
  <2>6. Rest BY <1>2, <1>11, <2>2 DEF Kept
  <2> QED BY <1>10, <2>1, <2>2, <2>4, <2>5, <2>6 DEF Goal
<1>12. CASE pos = size - 6
  <2>1. b = END_OF_FILE /\ last /\ t.state = 1 /\ b # CHAR_BAR /\ t.shift_offset = 0
    BY <1>2, <1>3, <1>5, <1>6, <1>7, <1>12 DEF END_OF_FILE, CHAR_BAR
  <2>2. /\ Stands(u, 0, b, t.ignore, FALSE)
        /\ Counts(u, t.frame_number, t.shift_offset, t.filename, TRUE, t.end_of_frame)
    BY <1>1, <2>1, CodeStep, Zenon DEF u, b
  <2>3. b # CHAR_THREE_QUARTERS /\ b # BAR /\ b # END_OF_LINE
    BY <2>1 DEF END_OF_FILE, CHAR_THREE_QUARTERS, BAR, END_OF_LINE
  <2>4. out = << >> BY <2>1, <2>3, CodeOutput, Zenon DEF b, out
  <2>5. EndingAt(u, 0) BY <2>1, <2>2 DEF EndingAt, Counts, Stands
  <2>6. pos + 1 \in size - 6 .. size - 5 /\ (pos + 1) - (size - 5) = 0 BY <1>2, <1>12
  <2>7. Rest BY <1>2, <1>12, <2>1, <2>2 DEF Counts
  <2> QED BY <1>10, <2>1, <2>4, <2>5, <2>6, <2>7 DEF Goal
<1>13. CASE pos = size - 5
  <2>1. b = CHAR_BAR BY <1>2, <1>6, <1>13
  <2>2. Kept(t, u) /\ Stands(u, 1, t.control_code, t.ignore, t.in_frame) /\ out = << >>
    BY <1>1, <2>1, BarStep, Zenon DEF u, b, out
  <2>3. (t.in_frame <=> ~last) /\ t.shift_offset = 0 BY <1>2, <1>7, <1>13
  <2>4. TrailerAt(u, page, 1) BY <2>2, <2>3 DEF TrailerAt, Kept, Stands, last
  <2>5. pos + 1 >= size - 4 /\ (pos + 1) - (size - 5) = 1 BY <1>2, <1>13
  <2>6. Rest BY <1>2, <1>13, <2>2 DEF Kept
  <2> QED BY <1>10, <2>2, <2>4, <2>5, <2>6 DEF Goal
<1>14. CASE pos = size - 4
  <2>1. b = END_OF_FRAME /\ t.state = 1 /\ b # CHAR_BAR /\ t.shift_offset = 0
    BY <1>2, <1>6, <1>7, <1>14 DEF END_OF_FRAME, CHAR_BAR
  <2>2. Kept(t, u) /\ Stands(u, 2, b, t.ignore, FALSE)
    BY <1>1, <2>1, CodeStep, Zenon DEF u, b
  <2>3. b # CHAR_THREE_QUARTERS /\ b # BAR /\ b # END_OF_LINE
    BY <2>1 DEF END_OF_FRAME, CHAR_THREE_QUARTERS, BAR, END_OF_LINE
  <2>4. out = << >> BY <2>1, <2>3, CodeOutput, Zenon DEF b, out
  <2>5. TrailerAt(u, page, 2) BY <2>1, <2>2 DEF TrailerAt, Kept, Stands
  <2>6. pos + 1 >= size - 4 /\ (pos + 1) - (size - 5) = 2 BY <1>2, <1>14
  <2>7. Rest BY <1>2, <1>14, <2>2 DEF Kept
  <2> QED BY <1>10, <2>4, <2>5, <2>6, <2>7 DEF Goal
<1>15. CASE pos \in size - 3 .. size - 1
  <2> DEFINE k == pos - (size - 5)
  <2>1. k \in 2 .. 4 /\ k + 1 = (pos + 1) - (size - 5) /\ pos + 1 >= size - 4
        /\ (k = 4 <=> pos = size - 1) /\ pos # size - 6 /\ pos > size - 4
    BY <1>2, <1>15
  <2>2. b \in 48 .. 57 BY <1>2, <1>6, <1>15
  <2> HIDE DEF k
  <2>3. /\ t.state = k /\ t.shift_offset = 0 /\ ~t.in_frame
        /\ t.control_code = END_OF_FRAME
    BY <1>2, <1>7, <1>15, <2>1 DEF k
  <2>4. b # CHAR_BAR /\ t.state >= 2 BY <2>1, <2>2, <2>3 DEF CHAR_BAR
  <2> DEFINE ended == t.state = 4 \/ t.end_of_frame
             next == IF t.state = 4 THEN 0 ELSE t.state + 1
  <2>5. /\ out = << >>
        /\ Stands(u, next, t.control_code, t.ignore, t.in_frame)
        /\ Counts(u, t.frame_number, t.shift_offset, t.filename, t.end_of_file, ended)
    BY <1>1, <2>3, <2>4, WaitStep, Zenon DEF u, b, out
  <2>6. next = (IF k + 1 = 5 THEN 0 ELSE k + 1) /\ (ended <=> k = 4 \/ t.end_of_frame)
    BY <2>1, <2>3
  <2> HIDE DEF next, ended
  <2>7. TrailerAt(u, page, k + 1) BY <2>1, <2>3, <2>5, <2>6 DEF TrailerAt, Counts, Stands
  <2>8. Rest BY <2>1, <2>5, <2>6 DEF Counts
  <2> QED BY <1>10, <2>1, <2>5, <2>7, <2>8 DEF Goal
<1> HIDE DEF Rest
<1> QED BY <1>1, <1>2, <1>7, <1>11, <1>12, <1>13, <1>14, <1>15

\* A piece starts after the ninth byte of its frame.
LEMMA PieceStart ==
    ASSUME NEW page \in TelePages, page.frame > 1, NEW t, Open(t, 0, 0)
    PROVE  PieceAt(t, page, 9, 0)
<1> DEFINE piece == PieceOf(page)
           n == Len(piece)
           cut(k) == Cut(page)[k]
           c == piece[1]
           l == Len(Encoded(c))
           lead == Lead(c)
<1>1. n \in Nat BY PieceIs, Zenon
<1>2. cut(0) = 0 /\ cut(n) = BodySize(page) BY DataBytes, Zenon DEF IsCut
<1>3. CASE n = 0
  <2>1. 9 = 9 + BodySize(page) BY <1>2, <1>3
  <2>2. 0 = n BY <1>3
  <2> QED BY <2>1, <2>2, Zenon DEF PieceAt
<1>4. CASE n # 0
  <2>1. 0 \in 0 .. n - 1 /\ 0 + 1 = 1
    <3> HIDE DEF n
    <3> QED BY <1>1, <1>4
  <2>2. c \in Byte /\ l \in Nat
    <3>1. piece[0 + 1] \in Byte /\ Len(Encoded(piece[0 + 1])) \in Nat
      BY <2>1, CutStep, Zenon
    <3> QED BY <2>1, <3>1, Zenon
  <2>3. lead \in 1 .. l BY <2>2, EncodingEnds, Zenon
  <2>4. SymbolAt(t, c, 0) BY <2>2, SymbolEdges
  <2>5. 0 \in 0 .. l - 1 /\ 9 = 9 + cut(0) + 0
        /\ 0 = 0 + (IF 0 >= lead THEN 1 ELSE 0)
    <3> HIDE DEF l, lead, cut
    <3> QED BY <1>2, <2>2, <2>3
  <2>6. /\ 9 = 9 + Cut(page)[0] + 0
        /\ SymbolAt(t, piece[0 + 1], 0)
        /\ 0 = 0 + (IF 0 >= Lead(piece[0 + 1]) THEN 1 ELSE 0)
        /\ 0 \in 0 .. Len(Encoded(piece[0 + 1])) - 1
    BY <2>1, <2>4, <2>5, Zenon
  <2> HIDE DEF c
  <2> QED BY <2>1, <2>6, Zenon DEF PieceAt
<1> QED BY <1>3, <1>4

\* Where a piece is, and what is known at its end.
LEMMA PieceSpan ==
    ASSUME NEW page \in TelePages, page.frame > 1,
           NEW t, NEW pos \in Nat, NEW m \in Nat, PieceAt(t, page, pos, m)
    PROVE  /\ pos \in 9 .. 9 + BodySize(page)
           /\ pos = 9 + BodySize(page) => m = Len(PieceOf(page)) /\ Open(t, 0, 0)
<1> DEFINE piece == PieceOf(page)
           n == Len(piece)
           cut(k) == Cut(page)[k]
           size == BodySize(page)
<1>1. size \in Nat BY DataBytes, Zenon
<1>2. CASE \E i \in 0 .. n - 1 :
           \E j \in 0 .. Len(Encoded(piece[i + 1])) - 1 : pos = 9 + cut(i) + j
  <2>1. PICK i \in 0 .. n - 1 :
           \E j \in 0 .. Len(Encoded(piece[i + 1])) - 1 : pos = 9 + cut(i) + j
    BY <1>2, Zenon
  <2> DEFINE l == Len(Encoded(piece[i + 1]))
  <2>2. PICK j \in 0 .. l - 1 : pos = 9 + cut(i) + j BY <2>1, Zenon
  <2>3. cut(i) \in Nat /\ l \in Nat /\ cut(i) + l <= size BY CutStep, Zenon
  <2> HIDE DEF l, cut, size
  <2>4. pos \in 9 .. 9 + size /\ pos # 9 + size BY <1>1, <2>2, <2>3
  <2> QED BY <2>4 DEF size
<1>3. CASE pos = 9 + size /\ m = n /\ Open(t, 0, 0)
  <2>1. pos \in 9 .. 9 + size
    <3> HIDE DEF size
    <3> QED BY <1>1, <1>3
  <2> QED BY <1>3, <2>1
<1> QED BY <1>2, <1>3, Zenon DEF PieceAt

\* What a byte of a data frame adds to the file: nothing, or the next character of
\* the piece.
Written(page, m, m2, out) ==
    page.frame > 1 =>
        /\ m2 <= Len(PieceOf(page))
        /\ \/ m2 = m /\ out = << >>
           \/ m2 = m + 1 /\ out = <<PieceOf(page)[m + 1]>>

\* Each byte of a frame leads to the next place.
LEMMA PartStep ==
    ASSUME NEW t, NEW page, NEW pos, NEW byte, Comes(t, page, pos, byte),
           NEW m \in Nat, PartAt(t, page, pos, m), Named(t, page, pos),
           page.frame > 1 /\ pos >= 3 => t.frame_number # 1
    PROVE  LET u == TeleByte(t, byte)
           IN  \E m2 \in Nat : /\ PartAt(u, page, pos + 1, m2) /\ Moved(t, u, page, pos)
                               /\ Written(page, m, m2, TeleOutput(t, byte))
<1> DEFINE u == TeleByte(t, byte)
           out == TeleOutput(t, byte)
           size == Size(page)
           n == Len(PieceOf(page))
           body == BodySize(page)
           last == LastPage(page)
           Goal == \E m2 \in Nat : /\ PartAt(u, page, pos + 1, m2) /\ Moved(t, u, page, pos)
                                   /\ Written(page, m, m2, out)
<1> SUFFICES Goal OBVIOUS
<1>1. /\ t \in TeleStates /\ Waits(t) /\ byte \in Byte
      /\ page \in TelePages /\ page # TextPage
      /\ pos \in Nat /\ pos < size /\ byte % 128 = Code(page, pos + 1)
  BY DEF Comes
<1>2. size \in Nat /\ size >= 14 BY <1>1, FrameBytes, Zenon
<1>3. page.frame \in 1 .. 10 BY <1>1, FrameRange, Zenon
<1>4. page.frame > 1 => n \in Nat BY <1>1, PieceIs, Zenon
<1>5. page.frame > 1 =>
          body \in Nat /\ body = size - 14 - (IF last THEN 2 ELSE 0)
  BY <1>1, DataBytes, Zenon
<1>6. page.frame = 1 => size = 19 /\ ~last BY <1>1, HeaderBytes DEF LastPage
<1>7. last => page.frame > 1 BY DEF LastPage
<1>8. t.frame_number \in Nat BY <1>1, FieldRanges
<1> HIDE DEF u, out, size, n, body, last, Goal
<1>9. pos < size - 6 \/ (pos < size - 1 /\ ~last) =>
         (pos = size - 1 <=> FALSE) /\ (last /\ pos = size - 6 <=> FALSE)
  BY <1>1, <1>2
<1>10. CASE pos <= 8 /\ m = 0 /\ HeadAt(t, pos)
  <2>1. /\ out = << >>
        /\ Counts(u, t.frame_number + (IF pos = 2 THEN 1 ELSE 0), 0, t.filename,
                  t.end_of_file, t.end_of_frame)
        /\ pos < 8 => HeadAt(u, pos + 1)
        /\ pos = 8 => Open(u, 0, 0) /\ u.control_code = TERMINATOR
    BY <1>10, HeadStep, Zenon DEF u, out
  <2>2. pos # 9 /\ (pos = size - 1 <=> FALSE) /\ (last /\ pos = size - 6 <=> FALSE)
    BY <1>1, <1>2, <1>5, <1>7, <1>10
  <2>3. Moved(t, u, page, pos) BY <2>1, <2>2 DEF Moved, Counts, size, last
  <2>4. Written(page, m, m, out) BY <1>4, <1>10, <2>1 DEF Written, n
  <2>5. PartAt(u, page, pos + 1, m)
    <3>1. CASE pos < 8
      <4>1. pos + 1 <= 8 BY <1>1, <3>1
      <4> QED BY <1>10, <2>1, <3>1, <4>1, Zenon DEF PartAt
    <3>2. CASE pos = 8 /\ page.frame = 1
      <4>1. HeaderAt(u, page, 0)
        <5>1. t.frame_number = 1 => ~t.end_of_file /\ t.filename = << >>
          BY <3>2 DEF Named
        <5>2. u.frame_number = t.frame_number /\ u.filename = t.filename
              /\ u.end_of_file = t.end_of_file
          BY <1>8, <2>1, <3>2 DEF Counts
        <5> QED BY <2>1, <3>2, <5>1, <5>2 DEF HeaderAt, Open
      <4>2. pos + 1 \in 9 .. 14 /\ (pos + 1) - 9 = 0 BY <3>2
      <4>3. HeaderAt(u, page, (pos + 1) - 9) BY <4>1, <4>2, Zenon
      <4> QED BY <1>10, <3>2, <4>2, <4>3, Zenon DEF PartAt
    <3>3. CASE pos = 8 /\ page.frame > 1
      <4>1. PieceAt(u, page, 9, 0) BY <1>1, <2>1, <3>3, PieceStart
      <4> QED BY <1>10, <3>3, <4>1 DEF PartAt
    <3> QED BY <1>1, <1>3, <1>10, <3>1, <3>2, <3>3
  <2> QED BY <2>3, <2>4, <2>5 DEF Goal
<1>11. CASE page.frame = 1 /\ pos \in 9 .. 13 /\ m = 0 /\ HeaderAt(t, page, pos - 9)
  <2> DEFINE j == pos - 9
  <2>1. j \in 0 .. 4 /\ pos = 9 + j /\ (j = 0 <=> pos = 9) /\ pos + 1 \in 9 .. 14
        /\ j + 1 = (pos + 1) - 9
    BY <1>11
  <2>2. HeaderAt(t, page, j) BY <1>11
  <2> HIDE DEF j
  <2>3. /\ HeaderAt(u, page, j + 1)
        /\ Counts(u, t.frame_number, 0,
                  IF j = 0 /\ t.frame_number = 1 THEN FileName(page.program) ELSE t.filename,
                  t.end_of_file, t.end_of_frame)
    BY <1>11, <2>1, <2>2, HeaderStep, Zenon DEF u
  <2>4. pos # 2 /\ (pos = size - 1 <=> FALSE) /\ (last /\ pos = size - 6 <=> FALSE)
    BY <1>6, <1>11
  <2>5. Moved(t, u, page, pos)
    BY <1>8, <1>11, <2>1, <2>3, <2>4 DEF Moved, Counts, size, last
  <2>6. Written(page, m, m, out) BY <1>11 DEF Written
  <2>7. PartAt(u, page, pos + 1, m)
    <3>1. HeaderAt(u, page, (pos + 1) - 9) BY <2>1, <2>3, Zenon
    <3> QED BY <1>11, <2>1, <3>1, Zenon DEF PartAt
  <2> QED BY <2>5, <2>6, <2>7 DEF Goal
<1>12. CASE page.frame > 1 /\ PieceAt(t, page, pos, m) /\ pos # 9 + body
  <2>1. t.frame_number # 1 /\ pos >= 9 /\ pos < 9 + body
    <3>1. pos \in 9 .. 9 + body BY <1>1, <1>12, PieceSpan, Zenon DEF body
    <3> QED BY <1>5, <1>12, <3>1
  <2>2. PICK m2 \in Nat :
           /\ PieceAt(u, page, pos + 1, m2) /\ Held(t, u)
           /\ m2 \in 0 .. n
           /\ \/ m2 = m /\ out = << >>
              \/ m2 = m + 1 /\ out = <<PieceOf(page)[m + 1]>>
    BY <1>1, <1>12, <2>1, PieceStep, ZenonT(30) DEF u, out, n, body
  <2>3. pos # 2 /\ (pos = size - 1 <=> FALSE) /\ (last /\ pos = size - 6 <=> FALSE)
    BY <1>2, <1>5, <1>12, <2>1
  <2>4. Moved(t, u, page, pos) BY <1>8, <1>12, <2>2, <2>3 DEF Moved, Held, size, last
  <2>5. Written(page, m, m2, out)
    <3>1. m2 <= n BY <1>4, <1>12, <2>2
    <3> QED BY <2>2, <3>1, Zenon DEF Written, n
  <2>6. PartAt(u, page, pos + 1, m2) BY <1>12, <2>2, Zenon DEF PartAt
  <2> QED BY <2>4, <2>5, <2>6, Zenon DEF Goal
<1>13. CASE /\ m = Whole(page)
            /\ \/ /\ pos = 9 + body /\ page.frame > 1 /\ Open(t, 0, 0)
               \/ /\ pos = 14 /\ page.frame = 1 /\ HeaderAt(t, page, 5)
               \/ /\ last /\ pos \in size - 6 .. size - 5 /\ EndingAt(t, pos - (size - 5))
               \/ /\ pos >= size - 4 /\ TrailerAt(t, page, pos - (size - 5))
  <2>1. /\ Moved(t, u, page, pos) /\ out = << >>
        /\ \/ /\ last /\ pos + 1 \in size - 6 .. size - 5
              /\ EndingAt(u, (pos + 1) - (size - 5))
           \/ pos + 1 >= size - 4 /\ TrailerAt(u, page, (pos + 1) - (size - 5))
    BY <1>13, EndStep, Zenon DEF u, out, size, body, last
  <2>2. Written(page, m, m, out)
    <3>1. page.frame > 1 => m = n BY <1>13, Zenon DEF Whole, n
    <3>2. page.frame > 1 => m <= n BY <1>4, <3>1
    <3> QED BY <2>1, <3>2, Zenon DEF Written, n
  <2>3. PartAt(u, page, pos + 1, m) BY <1>13, <2>1, Zenon DEF PartAt, size, last
  <2> QED BY <2>1, <2>2, <2>3 DEF Goal
<1>14. CASE page.frame > 1 /\ PieceAt(t, page, pos, m) /\ pos = 9 + body
  <2>1. m = n /\ Open(t, 0, 0) BY <1>1, <1>14, PieceSpan, Zenon DEF body, n
  <2>2. m = Whole(page) BY <1>14, <2>1, Zenon DEF Whole, n
  <2> QED BY <1>13, <1>14, <2>1, <2>2, Zenon
<1>15. CASE page.frame = 1 /\ pos \in 9 .. 14 /\ m = 0 /\ HeaderAt(t, page, pos - 9)
  <2>1. CASE pos \in 9 .. 13 BY <1>11, <1>15, <2>1
  <2>2. CASE pos = 14
    <3>1. pos - 9 = 5 BY <2>2
    <3>2. ~(page.frame > 1) BY <1>15
    <3>3. m = Whole(page) BY <1>15, <3>2, Zenon DEF Whole
    <3> QED BY <1>13, <1>15, <2>2, <3>1, <3>3, Zenon
  <2> QED BY <1>15, <2>1, <2>2
<1> QED
  <2>1. \/ pos <= 8 /\ m = 0 /\ HeadAt(t, pos)
        \/ page.frame = 1 /\ pos \in 9 .. 14 /\ m = 0 /\ HeaderAt(t, page, pos - 9)
        \/ page.frame > 1 /\ PieceAt(t, page, pos, m)
        \/ /\ last /\ pos \in size - 6 .. size - 5
           /\ m = Whole(page) /\ EndingAt(t, pos - (size - 5))
        \/ /\ pos >= size - 4
           /\ m = Whole(page) /\ TrailerAt(t, page, pos - (size - 5))
    BY Zenon DEF PartAt, size, last
  <2> QED BY <1>10, <1>12, <1>13, <1>14, <1>15, <2>1, Zenon

\* Each byte of a page leads to the next place.
LEMMA TeleStep ==
    ASSUME NEW t \in TeleStates, Waits(t), NEW page \in TelePages,
           NEW pos \in Nat, pos < Size(page), NEW m \in Nat, TeleAt(t, page, pos, m),
           NEW byte \in Byte, byte = Transmission[page][pos + 1]
    PROVE  LET u == TeleByte(t, byte)
               out == TeleOutput(t, byte)
           IN  \E m2 \in Nat :
                  /\ TeleAt(u, page, pos + 1, m2)
                  /\ page = TextPage => Kept(t, u)
                  /\ page # TextPage => Moved(t, u, page, pos) /\ Written(page, m, m2, out)
<1> DEFINE u == TeleByte(t, byte)
           out == TeleOutput(t, byte)
           size == Size(page)
           Goal == \E m2 \in Nat :
                      /\ TeleAt(u, page, pos + 1, m2)
                      /\ page = TextPage => Kept(t, u)
                      /\ page # TextPage =>
                            Moved(t, u, page, pos) /\ Written(page, m, m2, out)
<1> SUFFICES Goal OBVIOUS
<1>1. byte % 128 = Code(page, pos + 1) BY DEF Code
<1>2. t.frame_number \in Nat BY FieldRanges
<1>3. t.frame_number = 0 => t.filename = << >> /\ ~t.end_of_file BY DEF TeleAt
<1>4. CASE page = TextPage
  <2>1. TextAt(t, pos) /\ m = 0 BY <1>4 DEF TeleAt
  <2>2. pos < Size(TextPage) /\ byte = Transmission[TextPage][pos + 1] BY <1>4
  <2> HIDE DEF u
  <2>3. TextAt(u, pos + 1) /\ Kept(t, u) BY <2>1, <2>2, TextStep, Zenon DEF u
  <2>4. u.frame_number = 0 => u.filename = << >> /\ ~u.end_of_file BY <1>3, <2>3 DEF Kept
  <2>5. TeleAt(u, page, pos + 1, m) BY <1>4, <2>1, <2>3, <2>4, Zenon DEF TeleAt
  <2> QED BY <1>4, <2>3, <2>5
<1>5. CASE page # TextPage
  <2>1. Counted(t, page, pos) /\ Named(t, page, pos) /\ PartAt(t, page, pos, m)
    BY <1>5, Zenon DEF TeleAt, FrameAt
  <2>2. size \in Nat /\ size >= 14 BY <1>5, FrameBytes, Zenon
  <2>3. page.frame \in 1 .. 10 BY <1>5, FrameRange, Zenon
  <2> HIDE DEF u, out, size
  <2>4. t.frame_number >= (IF page.frame > 1 THEN 1 ELSE 0) + (IF pos >= 3 THEN 1 ELSE 0)
    BY <2>1, <2>2 DEF Counted, size
  <2>5. page.frame > 1 /\ pos >= 3 => t.frame_number # 1 BY <1>2, <2>4
  <2>6. Comes(t, page, pos, byte) BY <1>1, <1>5 DEF Comes
  <2>7. PICK m2 \in Nat : /\ PartAt(u, page, pos + 1, m2) /\ Moved(t, u, page, pos)
                          /\ Written(page, m, m2, out)
    BY <2>1, <2>5, <2>6, PartStep, Zenon DEF u, out
  <2>8. /\ u.frame_number = t.frame_number + (IF pos = 2 THEN 1 ELSE 0)
        /\ u.filename = IF page.frame = 1 /\ pos = 9 /\ t.frame_number = 1
                        THEN FileName(page.program) ELSE t.filename
        /\ (u.end_of_file <=> t.end_of_file \/ (LastPage(page) /\ pos = size - 6))
    BY <2>7, Zenon DEF Moved, size
  <2>9. Counted(u, page, pos + 1)
    <3>1. u.frame_number >=
              (IF page.frame > 1 THEN 1 ELSE 0) + (IF pos + 1 >= 3 THEN 1 ELSE 0)
      BY <1>2, <2>4, <2>8
    <3> QED BY <3>1, Zenon DEF Counted
  <2>10. LastPage(page) => page.frame > 1 /\ size >= 16
    <3> SUFFICES ASSUME LastPage(page) PROVE page.frame > 1 /\ size >= 16 OBVIOUS
    <3>1. page.frame > 1 BY DEF LastPage
    <3>2. BodySize(page) \in Nat /\ BodySize(page) = size - 14 - 2
      BY <3>1, DataBytes DEF size
    <3> QED BY <2>2, <3>1, <3>2
  <2>11. Named(u, page, pos + 1)
    <3> SUFFICES ASSUME page.frame = 1, pos + 1 >= 3, u.frame_number = 1
                 PROVE  /\ ~u.end_of_file
                        /\ pos + 1 >= 14 => u.filename = FileName(page.program)
                        /\ pos + 1 <= 8 => u.filename = << >>
      BY DEF Named
    <3>1. ~LastPage(page) BY <2>10
    <3>2. CASE pos = 2
      <4>1. t.frame_number = 0 BY <1>2, <2>8, <3>2
      <4> QED BY <1>3, <2>8, <3>1, <3>2, <4>1
    <3>3. CASE pos >= 3
      <4>1. t.frame_number = 1 BY <1>2, <2>8, <3>3
      <4>2. /\ ~t.end_of_file
            /\ pos >= 14 => t.filename = FileName(page.program)
            /\ pos <= 8 => t.filename = << >>
        BY <2>1, <3>3, <4>1 DEF Named
      <4>3. pos = 13 => t.filename = FileName(page.program)
        <5> SUFFICES ASSUME pos = 13 PROVE t.filename = FileName(page.program) OBVIOUS
        <5>1. size = 19 BY <1>5, HeaderBytes DEF size
        <5>2. HeaderAt(t, page, 4) BY <2>1, <3>1, <5>1 DEF PartAt, size
        <5> QED BY <4>1, <5>2 DEF HeaderAt
      <4> QED BY <2>8, <3>1, <3>3, <4>1, <4>2, <4>3
    <3> QED BY <3>2, <3>3
  <2>12. u.frame_number = 0 => u.filename = << >> /\ ~u.end_of_file
    <3> SUFFICES ASSUME u.frame_number = 0 PROVE u.filename = << >> /\ ~u.end_of_file OBVIOUS
    <3>1. t.frame_number = 0 BY <1>2, <2>8
    <3>2. ~(LastPage(page) /\ pos = size - 6) BY <2>4, <2>10, <3>1
    <3> QED BY <1>3, <2>8, <3>1, <3>2
  <2>13. TeleAt(u, page, pos + 1, m2)
    BY <1>5, <2>7, <2>9, <2>11, <2>12, Zenon DEF TeleAt, FrameAt
  <2> QED BY <1>5, <2>7, <2>13, Zenon
<1> QED BY <1>4, <1>5

\* At the end of a page, or after the |F of a file, its piece has been written.
LEMMA PartEnds ==
    ASSUME NEW t, NEW page \in TelePages, page # TextPage,
           NEW pos \in 0 .. Size(page), NEW m \in Nat, PartAt(t, page, pos, m),
           pos = Size(page) \/ (LastPage(page) /\ pos >= Size(page) - 5)
    PROVE  m = Whole(page) /\ (pos = Size(page) => Quiet(t))
<1> DEFINE size == Size(page)
           last == LastPage(page)
           body == BodySize(page)
<1>1. size \in Nat /\ size >= 14 BY FrameBytes, Zenon
<1>2. page.frame > 1 =>
          body \in Nat /\ body = size - 14 - (IF last THEN 2 ELSE 0)
  BY DataBytes, Zenon
<1>3. page.frame = 1 => size = 19 /\ ~last BY HeaderBytes DEF LastPage
<1>4. last => page.frame > 1 BY DEF LastPage
<1>5. PieceAt(t, page, pos, m) /\ page.frame > 1 => pos <= 9 + body
  <2> SUFFICES ASSUME PieceAt(t, page, pos, m), page.frame > 1 PROVE pos <= 9 + body
    OBVIOUS
  <2>1. pos \in Nat BY <1>1
  <2>2. pos \in 9 .. 9 + body BY <2>1, PieceSpan, Zenon
  <2> HIDE DEF body
  <2> QED BY <1>2, <2>2
<1> HIDE DEF size, last, body
<1>6. pos = size \/ (last /\ pos >= size - 5) BY DEF size, last
<1>7. \/ /\ last /\ pos \in size - 6 .. size - 5
         /\ m = Whole(page) /\ EndingAt(t, pos - (size - 5))
      \/ /\ pos >= size - 4
         /\ m = Whole(page) /\ TrailerAt(t, page, pos - (size - 5))
  <2>1. ~(pos <= 8) BY <1>1, <1>2, <1>4, <1>6
  <2>2. ~(page.frame = 1 /\ pos \in 9 .. 14) BY <1>1, <1>3, <1>6
  <2>3. ~(page.frame > 1 /\ PieceAt(t, page, pos, m)) BY <1>1, <1>2, <1>5, <1>6
  <2> QED BY <2>1, <2>2, <2>3, Zenon DEF PartAt, size, last
<1>8. ASSUME pos = size PROVE Quiet(t)
  <2>1. pos - (size - 5) = 5 BY <1>1, <1>8
  <2>2. ~(pos \in size - 6 .. size - 5) BY <1>1, <1>8
  <2>3. TrailerAt(t, page, 5) BY <1>7, <2>1, <2>2
  <2> QED BY <2>3 DEF TrailerAt, Quiet
<1> QED BY <1>7, <1>8 DEF size

-----------------------------------------------------------------------------
(* The steps of the session.                                               *)

\* The invariant of a patient user.
PInv == IInv /\ PatientInv

\* What has been read or is on its way, and the page, are of the right type.
LEMMA RestType ==
    ASSUME IInv
    PROVE  /\ rest \in Seq(Byte) /\ host \in TelePages
           /\ Transmission[host] \in Seq(Byte) /\ Size(host) \in Nat
           /\ tele \in TeleStates /\ Waits(tele)
           /\ \A page \in TelePages : Transmission[page] \in Seq(Byte) /\ Size(page) \in Nat
<1>1. buffer \in Seq(Byte) /\ to_client \in Seq(Byte) /\ host \in Pages
      /\ tele \in TeleStates /\ Waits(tele)
  BY Zenon DEF IInv, TypeOK
<1>2. host \in TelePages BY <1>1, HostAssumption, Zenon
<1>3. ASSUME NEW page \in TelePages
      PROVE  Transmission[page] \in Seq(Byte) /\ Size(page) \in Nat
  <2>1. IsTransmission(Transmission[page], page) BY HostAssumption, Zenon
  <2>2. Transmission[page] \in Seq(Byte) BY <2>1, Zenon DEF IsTransmission
  <2> QED BY <2>2 DEF Size
<1>4. rest \in Seq(Byte) BY <1>1 DEF rest
<1> QED BY <1>1, <1>2, <1>3, <1>4, Zenon

\* With an empty buffer the files and the places stay what they are when pc moves
\* on, a key that is read is kept, or the keys on their way are lost.
LEMMA Paces ==
    ASSUME PInv,
           UNCHANGED <<buffer, to_client, tele, host, disk, is_downloading>>,
           download_file' = download_file \/ ~Active',
           typed' \in {typed, << >>}, to_host' \in {to_host, << >>},
           \/ pc' = pc
           \/ /\ buffer = << >> /\ pc' # "decode" /\ (~Active => ~Active')
              /\ tele.end_of_file /\ is_downloading => ~Active'
              /\ pc = "exited" => pc' = "exited",
           OfferInv'
    PROVE  PatientInv'
<1>1. (buffer # << >> => pc = "decode")' BY DEF PInv, PatientInv
<1>2. pc' # "exited" => pc # "exited" OBVIOUS
<1>3. Active' => Active BY DEF Active
<1>4. FilesAreFaithful' BY <1>3 DEF PInv, PatientInv, FilesAreFaithful, Active
<1>5. rest' = rest BY DEF rest
<1>6. ASSUME Follows, pc' # "exited" PROVE Follows'
  <2>1. PICK pos \in 0 .. Size(host), m \in Nat : FollowsAt(pos, m) BY <1>6 DEF Follows
  <2>2. DownloadAt(pos, m)'
    <3> SUFFICES ASSUME is_downloading, Active'
                 PROVE  /\ typed' = << >> /\ to_host' \in {<< >>, <<MORE>>}
                        /\ pc' = "decode" => to_host' = << >>
                        /\ tele'.end_of_file => pc' = "decode"
                        /\ \E p \in Programs : FileAt(p, pos, m)'
      BY Zenon DEF DownloadAt
    <3>1. /\ typed = << >> /\ to_host \in {<< >>, <<MORE>>}
          /\ pc = "decode" => to_host = << >>
          /\ tele.end_of_file => pc = "decode"
      BY <1>3, <2>1, Zenon DEF FollowsAt, DownloadAt
    <3>2. PICK p \in Programs : FileAt(p, pos, m)
      BY <1>3, <2>1, Zenon DEF FollowsAt, DownloadAt
    <3>4. download_file' = download_file BY Zenon
    <3>3. FileAt(p, pos, m)' BY <3>2, <3>4 DEF FileAt
    <3> QED BY <3>1, <3>2, <3>3, Zenon
  <2>3. KeysAt'
    <3>1. Len(typed') + Len(to_host') <= 1
      <4>1. Len(typed) \in Nat /\ Len(to_host) \in Nat /\ Len(typed) + Len(to_host) <= 1
        BY <2>1 DEF FollowsAt, KeysAt, PInv, IInv, TypeOK
      <4>2. Len(typed') \in {0, Len(typed)} /\ Len(to_host') \in {0, Len(to_host)} OBVIOUS
      <4> QED BY <4>1, <4>2
    <3> QED BY <1>5, <2>1, <3>1 DEF FollowsAt, KeysAt
  <2>4. TeleAt(tele, host, pos, m)' BY <2>1 DEF FollowsAt
  <2>5. FollowsAt(pos, m)' BY <1>5, <2>1, <2>2, <2>3, <2>4 DEF FollowsAt
  <2> QED BY <2>1, <2>5 DEF Follows
<1>7. ASSUME Leaves, pc' # "exited" PROVE Leaves'
  <2>1. PICK page \in TelePages \ {TextPage}, k \in 0 .. 4 : LeavesAt(page, k)
    BY <1>7 DEF Leaves
  <2>2. LeavesAt(page, k)' BY <1>5, <2>1 DEF LeavesAt
  <2> QED BY <2>2, Zenon DEF Leaves
<1> QED BY <1>1, <1>2, <1>4, <1>6, <1>7 DEF PInv, PatientInv

\* A new read forgets the end of a frame, and nothing else that says where it is.
LEMMA StartKeeps ==
    ASSUME NEW t \in TeleStates
    PROVE  LET u == TeleStart(t)
           IN  /\ ~u.end_of_frame
               /\ Stands(u, t.state, t.control_code, t.ignore, t.in_frame)
               /\ Counts(u, t.frame_number, t.shift_offset, t.filename, t.end_of_file,
                         u.end_of_frame)
               /\ \A page, pos, m : TeleAt(t, page, pos, m) => TeleAt(u, page, pos, m)
<1> DEFINE u == TeleStart(t)
<1> DEFINE d == [t.check EXCEPT !.parity_error = FALSE]
<1>1. PICK no \in BOOLEAN : no = FALSE BY Zenon
<1>2. u = [t EXCEPT !.end_of_frame = no, !.check = d] BY <1>1 DEF TeleStart
<1> HIDE DEF u, d
<1>3. /\ u.state = t.state /\ u.control_code = t.control_code /\ u.ignore = t.ignore
      /\ u.in_frame = t.in_frame /\ u.frame_number = t.frame_number
      /\ u.shift_offset = t.shift_offset /\ u.filename = t.filename
      /\ u.end_of_file = t.end_of_file /\ u.end_of_frame = no
  BY <1>2 DEF TeleStates
<1>4. ASSUME NEW page, NEW pos, NEW m, TeleAt(t, page, pos, m) PROVE TeleAt(u, page, pos, m)
  <2>1. TextAt(t, pos) => TextAt(u, pos) BY <1>3 DEF TextAt
  <2>2. Counted(t, page, pos) => Counted(u, page, pos) BY <1>3 DEF Counted
  <2>3. Named(t, page, pos) => Named(u, page, pos) BY <1>3 DEF Named
  <2>4. PartAt(t, page, pos, m) => PartAt(u, page, pos, m)
    <3>1. HeadAt(t, pos) => HeadAt(u, pos) BY <1>3 DEF HeadAt
    <3>2. HeaderAt(t, page, pos - 9) => HeaderAt(u, page, pos - 9) BY <1>3 DEF HeaderAt
    <3>3. \A state, shift : Open(t, state, shift) => Open(u, state, shift)
      BY <1>3 DEF Open
    <3>4. PieceAt(t, page, pos, m) => PieceAt(u, page, pos, m)
      <4>1. \A c, j : SymbolAt(t, c, j) => SymbolAt(u, c, j)
        BY <3>3, Zenon DEF SymbolAt
      <4> QED BY <3>3, <4>1, Zenon DEF PieceAt
    <3>5. \A k : EndingAt(t, k) => EndingAt(u, k) BY <1>3 DEF EndingAt
    <3>6. \A k : TrailerAt(t, page, k) => TrailerAt(u, page, k) BY <1>3 DEF TrailerAt
    <3> QED BY <3>1, <3>2, <3>4, <3>5, <3>6, Zenon DEF PartAt
  <2>5. t.frame_number = 0 => t.filename = << >> /\ ~t.end_of_file
    BY <1>4, Zenon DEF TeleAt
  <2>6. u.frame_number = 0 => u.filename = << >> /\ ~u.end_of_file BY <1>3, <2>5
  <2> QED BY <1>4, <2>1, <2>2, <2>3, <2>4, <2>6, Zenon DEF TeleAt, FrameAt
<1>5. ~u.end_of_frame BY <1>1, <1>3
<1>6. Stands(u, t.state, t.control_code, t.ignore, t.in_frame) BY <1>3 DEF Stands
<1>7. Counts(u, t.frame_number, t.shift_offset, t.filename, t.end_of_file, u.end_of_frame)
  BY <1>3 DEF Counts
<1> QED BY <1>4, <1>5, <1>6, <1>7, Zenon DEF u

\* A read takes a part of what is on its way.
LEMMA ReadSocketPlace ==
    ASSUME PInv, ReadSocket
    PROVE  PatientInv'
<1>1. /\ pc = "socket" /\ pc' = "decode" /\ to_client # << >> /\ tele' = TeleStart(tele)
      /\ is_downloading' = is_downloading /\ download_file' = download_file
      /\ disk' = disk /\ to_host' = to_host /\ host' = host /\ typed' = typed
  BY Zenon DEF ReadSocket, outside, download, download_file
<1>2. PICK n \in 1 .. Len(to_client) :
         /\ buffer' = SubSeq(to_client, 1, n)
         /\ to_client' = SubSeq(to_client, n + 1, Len(to_client))
  BY DEF ReadSocket
<1>3. buffer = << >> BY <1>1 DEF PInv, PatientInv
<1>4. to_client \in Seq(Byte) BY Zenon DEF PInv, IInv, TypeOK
<1>5. rest = to_client /\ rest' = to_client
  <2>1. rest = to_client BY <1>3, <1>4, NothingMore DEF rest
  <2>2. rest' = to_client BY <1>2, <1>4, SplitOnce, Zenon DEF rest
  <2> QED BY <2>1, <2>2
<1>6. /\ ~tele'.end_of_frame
      /\ Stands(tele', tele.state, tele.control_code, tele.ignore, tele.in_frame)
      /\ Counts(tele', tele.frame_number, tele.shift_offset, tele.filename, tele.end_of_file,
                tele'.end_of_frame)
      /\ \A page, pos, m : TeleAt(tele, page, pos, m) => TeleAt(tele', page, pos, m)
  BY <1>1, StartKeeps, RestType, Zenon DEF PInv
<1>7. FilesAreFaithful' BY <1>1 DEF PInv, PatientInv, FilesAreFaithful
<1>8. ASSUME Follows PROVE Follows'
  <2>1. PICK pos \in 0 .. Size(host), m \in Nat : FollowsAt(pos, m) BY <1>8 DEF Follows
  <2>2. typed = << >> /\ to_host = << >>
    BY <1>1, <1>5, <2>1, Zenon DEF FollowsAt, KeysAt
  <2>3. pos # Size(host)
    <3> SUFFICES ASSUME pos = Size(host) PROVE FALSE OBVIOUS
    <3>1. rest = From(Transmission[host], Len(Transmission[host]))
      BY <2>1 DEF FollowsAt, Size
    <3>2. Transmission[host] \in Seq(Byte) BY RestType, Zenon DEF PInv
    <3>3. rest = << >> BY <3>1, <3>2, FromEnds, Zenon
    <3> QED BY <1>1, <1>5, <3>3
  <2>4. DownloadAt(pos, m)'
    <3> SUFFICES ASSUME is_downloading
                 PROVE  \E p \in Programs : FileAt(p, pos, m)'
      BY <1>1, <2>2, Zenon DEF DownloadAt
    <3>1. Active BY <1>1 DEF Active
    <3>2. PICK p \in Programs : FileAt(p, pos, m)
      BY <2>1, <3>1, Zenon DEF FollowsAt, DownloadAt
    <3>3. FileAt(p, pos, m)'
      <4>1. host.frame # 1 BY <2>3, <3>2, Zenon DEF FileAt
      <4>2. tele'.frame_number = tele.frame_number /\ tele'.end_of_file = tele.end_of_file
        BY <1>6 DEF Counts
      <4> QED BY <1>1, <3>2, <4>1, <4>2 DEF FileAt
    <3> QED BY <3>3
  <2>5. KeysAt' BY <1>1, <2>2 DEF KeysAt
  <2>6. TeleAt(tele, host, pos, m)' BY <1>1, <1>6, <2>1, Zenon DEF FollowsAt
  <2>7. FollowsAt(pos, m)' BY <1>1, <1>5, <1>6, <2>1, <2>4, <2>5, <2>6 DEF FollowsAt
  <2> QED BY <1>1, <2>7 DEF Follows
<1>9. ASSUME Leaves PROVE Leaves'
  <2>1. PICK page \in TelePages \ {TextPage}, k \in 0 .. 4 : LeavesAt(page, k)
    BY <1>9 DEF Leaves
  <2>2. /\ tele'.frame_number = tele.frame_number /\ tele'.filename = tele.filename
        /\ tele'.end_of_file = tele.end_of_file /\ tele'.in_frame = tele.in_frame
        /\ tele'.shift_offset = tele.shift_offset /\ tele'.state = tele.state
        /\ tele'.control_code = tele.control_code
    BY <1>6 DEF Counts, Stands
  <2>3. LeavesAt(page, k)' BY <1>1, <1>5, <2>1, <2>2 DEF LeavesAt
  <2> QED BY <2>3, Zenon DEF Leaves
<1>10. OfferInv' /\ (buffer # << >> => pc = "decode")' BY <1>1 DEF OfferInv
<1> QED BY <1>1, <1>7, <1>8, <1>9, <1>10 DEF PInv, PatientInv

\* What has been written of a content is a prefix of it.
LEMMA PrefixOf ==
    ASSUME NEW S, NEW s \in Seq(S), NEW n \in 0 .. Len(s)
    PROVE  IsPrefix(SubSeq(s, 1, n), s) /\ IsPrefix(<< >>, s) /\ SubSeq(s, 1, Len(s)) = s
<1>1. n \in Nat /\ Len(s) \in Nat /\ n <= Len(s) OBVIOUS
<1> DEFINE r == SubSeq(s, 1, n)
<1>2. r \in Seq(S) /\ Len(r) = n BY <1>1
<1>3. SubSeq(r, 1, Len(r)) = r
  <2>1. /\ SubSeq(r, 1, n) \in Seq(S) /\ Len(SubSeq(r, 1, n)) = n
        /\ \A i \in 1 .. n : SubSeq(r, 1, n)[i] = r[i]
    <3> HIDE DEF r
    <3> QED BY <1>1, <1>2
  <2> HIDE DEF r
  <2> QED BY <1>2, <2>1, SameSequence
<1>4. IsPrefix(r, s) BY <1>1, <1>2, <1>3 DEF IsPrefix
<1>5. IsPrefix(<< >>, s)
  <2>1. Len(<< >>) = 0 OBVIOUS
  <2>2. SubSeq(<< >>, 1, 0) = << >> /\ SubSeq(s, 1, 0) = << >>
    <3>1. SubSeq(s, 1, 0) \in Seq(S) /\ Len(SubSeq(s, 1, 0)) = 0 OBVIOUS
    <3>2. SubSeq(<< >>, 1, 0) \in Seq(S) /\ Len(SubSeq(<< >>, 1, 0)) = 0
      <4>1. << >> \in Seq(S) /\ Len(<< >>) = 0 OBVIOUS
      <4> DEFINE none == << >>
      <4> HIDE DEF none
      <4>2. none \in Seq(S) /\ Len(none) = 0 BY <4>1 DEF none
      <4>3. SubSeq(none, 1, 0) \in Seq(S) /\ Len(SubSeq(none, 1, 0)) = 0 BY <4>2
      <4> QED BY <4>3 DEF none
    <3> QED BY <3>1, <3>2
  <2> QED BY <1>1, <2>1, <2>2 DEF IsPrefix
<1>6. SubSeq(s, 1, Len(s)) = s
  <2>1. /\ SubSeq(s, 1, Len(s)) \in Seq(S) /\ Len(SubSeq(s, 1, Len(s))) = Len(s)
        /\ \A i \in 1 .. Len(s) : SubSeq(s, 1, Len(s))[i] = s[i]
    OBVIOUS
  <2> QED BY <2>1, SameSequence
<1> QED BY <1>4, <1>5, <1>6

\* What a byte of a data frame adds to the file is the next of the content.
LEMMA GrowFile ==
    ASSUME NEW page \in TelePages, page.frame > 1, NEW m \in Nat, NEW m2 \in Nat,
           NEW out, Written(page, m, m2, out)
    PROVE  LET all == Content[page.program]
               before == UpTo(page.program, page.frame - 2)
           IN  /\ SubSeq(all, 1, before + m) \o out = SubSeq(all, 1, before + m2)
               /\ IsPrefix(SubSeq(all, 1, before + m2), all)
<1> DEFINE all == Content[page.program]
           before == UpTo(page.program, page.frame - 2)
           piece == PieceOf(page)
<1>1. /\ all \in Seq(Byte) /\ before \in Nat
      /\ piece \in Seq(Byte) /\ Len(piece) \in Nat
      /\ before + Len(piece) <= Len(all)
      /\ \A i \in 1 .. Len(piece) : piece[i] = all[before + i]
  BY PieceIs, Zenon
<1>2. /\ m2 <= Len(piece)
      /\ \/ m2 = m /\ out = << >>
         \/ m2 = m + 1 /\ out = <<piece[m + 1]>>
  BY Zenon DEF Written
<1> HIDE DEF all, before, piece
<1>3. Len(all) \in Nat BY <1>1
<1>4. before + m2 \in 0 .. Len(all) BY <1>1, <1>2, <1>3
<1>5. IsPrefix(SubSeq(all, 1, before + m2), all) BY <1>1, <1>4, PrefixOf, Zenon
<1>6. CASE m2 = m /\ out = << >>
  <2>1. SubSeq(all, 1, before + m) \in Seq(Byte)
    <3> DEFINE n == before + m
    <3>1. n \in 0 .. Len(all) BY <1>4, <1>6
    <3> HIDE DEF n
    <3>2. SubSeq(all, 1, n) \in Seq(Byte) BY <1>1, <3>1
    <3> QED BY <3>2 DEF n
  <2>2. SubSeq(all, 1, before + m) \o << >> = SubSeq(all, 1, before + m)
    BY <2>1, NothingMore, Zenon
  <2> QED BY <1>5, <1>6, <2>2, Zenon DEF all, before
<1>7. CASE m2 = m + 1 /\ out = <<piece[m + 1]>>
  <2> DEFINE n == before + m
  <2>1. n \in 0 .. Len(all) - 1 /\ n + 1 = before + m2 /\ m + 1 \in 1 .. Len(piece)
        /\ n + 1 = before + (m + 1)
    BY <1>1, <1>2, <1>3, <1>7
  <2>2. out = <<all[n + 1]>> BY <1>1, <1>7, <2>1
  <2> HIDE DEF n
  <2>3. SubSeq(all, 1, n) \o <<all[n + 1]>> = SubSeq(all, 1, n + 1)
    BY <1>1, <2>1, OneMore, Zenon
  <2>4. SubSeq(all, 1, n) \o out = SubSeq(all, 1, before + m2) BY <2>1, <2>2, <2>3, Zenon
  <2> QED BY <1>5, <2>4, Zenon DEF all, before, n
<1> QED BY <1>2, <1>6, <1>7

\* A byte of the page that the host shows.
LEMMA DecodeFollows ==
    ASSUME PInv, DecodeByte, Follows
    PROVE  Follows' /\ FilesAreFaithful'
<1> DEFINE byte == Head(buffer)
           out == TeleOutput(tele, byte)
           bytes == Transmission[host]
           size == Size(host)
<1>1. /\ pc = "decode" /\ pc' = pc /\ buffer # << >> /\ buffer' = Tail(buffer)
      /\ tele' = TeleByte(tele, byte)
      /\ is_downloading' = is_downloading /\ download_file' = download_file
      /\ to_client' = to_client /\ to_host' = to_host /\ host' = host /\ typed' = typed
  BY Zenon DEF DecodeByte, wire, outside, download, download_file
<1>2. PICK pos \in 0 .. size, m \in Nat : FollowsAt(pos, m) BY DEF Follows
<1>3. /\ bytes \in Seq(Byte) /\ host \in TelePages /\ size \in Nat
      /\ tele \in TeleStates /\ Waits(tele)
      /\ buffer \in Seq(Byte) /\ to_client \in Seq(Byte)
  BY RestType, Zenon DEF PInv, IInv, TypeOK
<1>4. rest # << >> /\ Head(rest) = byte /\ rest' = Tail(rest)
  BY <1>1, <1>3, TailOfBoth, Zenon DEF rest
<1>5. rest = From(bytes, pos) BY <1>2, Zenon DEF FollowsAt
<1>6. pos # size /\ pos \in 0 .. Len(bytes) - 1 /\ pos \in Nat /\ pos < Size(host)
  <2>1. From(bytes, Len(bytes)) = << >> BY <1>3, FromEnds, Zenon
  <2>2. size = Len(bytes) BY DEF Size
  <2> HIDE DEF size, bytes
  <2>3. pos # size BY <1>4, <1>5, <2>1, <2>2
  <2>4. pos \in Nat /\ pos < size BY <1>3, <2>3
  <2> QED BY <1>3, <2>2, <2>3, <2>4 DEF size
<1>7. byte = bytes[pos + 1] /\ rest' = From(bytes, pos + 1)
  BY <1>3, <1>4, <1>5, <1>6, FromStep, Zenon
<1>8. byte \in Byte
  <2> HIDE DEF bytes
  <2> QED BY <1>3, <1>6, <1>7
<1> HIDE DEF byte, out, size
<1>9. TeleAt(tele, host, pos, m) BY <1>2, Zenon DEF FollowsAt
<1>10. PICK m2 \in Nat :
          /\ TeleAt(tele', host, pos + 1, m2)
          /\ host = TextPage => Kept(tele, tele')
          /\ host # TextPage =>
                Moved(tele, tele', host, pos) /\ Written(host, m, m2, out)
  BY <1>1, <1>3, <1>6, <1>7, <1>8, <1>9, TeleStep, Zenon DEF byte, out
<1>11. pos + 1 \in 0 .. size /\ tele.frame_number \in Nat BY <1>3, <1>6, FieldRanges
<1>12. typed = << >> /\ to_host = << >> BY <1>2, <1>4, Zenon DEF FollowsAt, KeysAt
<1>13. Active /\ Active' BY <1>1 DEF Active
\* What is written keeps the file what it is.
<1> DEFINE file == disk[download_file]
           grown == disk'[download_file]
<1>14. ASSUME is_downloading
       PROVE  /\ DOMAIN disk' = DOMAIN disk /\ download_file \in DOMAIN disk
              /\ grown = file \o out /\ file \in Seq(Byte)
              /\ \A name \in DOMAIN disk : name # download_file => disk'[name] = disk[name]
  <2>1. disk' = [disk EXCEPT ![download_file] = file \o out]
    BY <1>14, Zenon DEF DecodeByte, byte, out
  <2>2. download_file \in DOMAIN disk
    BY <1>13, <1>14, Zenon DEF PInv, IInv, DecodesIntoOpenFile, Active, download_file
  <2>3. file \in Seq(Byte) BY <2>2, Zenon DEF PInv, IInv, TypeOK
  <2> HIDE DEF out
  <2> QED BY <2>1, <2>2, <2>3
<1>15. ASSUME is_downloading
       PROVE  \E p \in Programs :
                 /\ FileAt(p, pos + 1, m2)' /\ download_file = FileName(p)
                 /\ IsPrefix(grown, Content[p])
  <2>1. PICK p \in Programs : FileAt(p, pos, m)
    BY <1>2, <1>13, <1>15, Zenon DEF FollowsAt, DownloadAt
  <2>2. download_file = FileName(p) BY <2>1, Zenon DEF FileAt
  <2>3. host # TextPage BY <2>1, Zenon DEF FileAt
  <2>4. host.frame \in 1 .. 10 /\ host.frame # 1
    <3>1. host.frame \in 1 .. 10 BY <1>3, <2>3, FrameRange, Zenon
    <3>2. host.frame # 1 BY <1>1, <2>1, <2>3, Zenon DEF FileAt
    <3> QED BY <3>1, <3>2
  <2>5. host.frame > 1 /\ host.program = p BY <2>1, <2>3, <2>4 DEF FileAt
  <2>6. /\ tele.frame_number = host.frame - (IF pos < 3 THEN 1 ELSE 0)
        /\ (tele.end_of_file <=> LastPage(host) /\ pos >= size - 5)
        /\ file = SubSeq(Content[p], 1, UpTo(p, host.frame - 2) + m)
    BY <2>1, <2>3, <2>5, Zenon DEF FileAt, size
  <2>7. /\ grown = SubSeq(Content[p], 1, UpTo(p, host.frame - 2) + m2)
        /\ IsPrefix(grown, Content[p])
    <3>1. Written(host, m, m2, out) BY <1>10, <2>3
    <3> DEFINE all == Content[host.program]
               before == UpTo(host.program, host.frame - 2)
    <3>2. /\ SubSeq(all, 1, before + m) \o out = SubSeq(all, 1, before + m2)
          /\ IsPrefix(SubSeq(all, 1, before + m2), all)
      BY <1>3, <2>5, <3>1, GrowFile, Zenon
    <3>3. all = Content[p] /\ before = UpTo(p, host.frame - 2) BY <2>5
    <3> HIDE DEF all, before
    <3> QED BY <1>14, <1>15, <2>6, <3>2, <3>3
  <2>8. /\ tele'.frame_number = tele.frame_number + (IF pos = 2 THEN 1 ELSE 0)
        /\ (tele'.end_of_file <=> tele.end_of_file \/ (LastPage(host) /\ pos = size - 6))
    BY <1>10, <2>3, Zenon DEF Moved, size
  <2>9. /\ tele'.frame_number = host.frame - (IF pos + 1 < 3 THEN 1 ELSE 0)
        /\ (tele'.end_of_file <=> LastPage(host) /\ pos + 1 >= size - 5)
    BY <1>3, <1>6, <1>11, <2>4, <2>6, <2>8, SMTT(60)
  <2> HIDE DEF grown
  <2>10. FileAt(p, pos + 1, m2)'
    BY <1>1, <2>2, <2>3, <2>4, <2>5, <2>7, <2>9 DEF FileAt, grown, size
  <2> QED BY <2>2, <2>7, <2>10
<1>16. DownloadAt(pos + 1, m2)'
  <2> SUFFICES ASSUME is_downloading
               PROVE  \E p \in Programs : FileAt(p, pos + 1, m2)'
    BY <1>1, <1>12, Zenon DEF DownloadAt
  <2> QED BY <1>15, Zenon
<1>17. Follows'
  <2>1. KeysAt' BY <1>1, <1>12 DEF KeysAt
  <2>2. pc' = "decode" /\ tele'.end_of_frame =>
            IF host = TextPage THEN tele'.frame_number = 0 ELSE pos + 1 = size
    <3>1. CASE host = TextPage
      <4>1. tele'.end_of_frame = tele.end_of_frame /\ tele'.frame_number = tele.frame_number
        BY <1>10, <3>1 DEF Kept
      <4> QED BY <1>1, <1>2, <3>1, <4>1 DEF FollowsAt
    <3>2. CASE host # TextPage
      <4>1. tele'.end_of_frame <=> tele.end_of_frame \/ pos = size - 1
        BY <1>10, <3>2, Zenon DEF Moved, size
      <4>2. ~tele.end_of_frame BY <1>1, <1>2, <1>6, <3>2, Zenon DEF FollowsAt, size
      <4> QED BY <1>3, <3>2, <4>1, <4>2
    <3> QED BY <3>1, <3>2
  <2>3. TeleAt(tele, host, pos + 1, m2)' BY <1>1, <1>10
  <2>4. FollowsAt(pos + 1, m2)'
    BY <1>1, <1>7, <1>16, <2>1, <2>2, <2>3, Zenon DEF FollowsAt, size
  <2> QED BY <1>1, <1>11, <2>4, Zenon DEF Follows, size
<1>18. FilesAreFaithful'
  <2>1. CASE ~is_downloading
    <3>1. disk' = disk BY <2>1, Zenon DEF DecodeByte
    <3> QED BY <1>1, <3>1 DEF PInv, PatientInv, FilesAreFaithful
  <2>2. CASE is_downloading
    <3> SUFFICES ASSUME NEW name \in DOMAIN disk
                 PROVE  \E p \in Programs :
                           /\ name = FileName(p) /\ IsPrefix(disk'[name], Content[p])
                           /\ name # download_file => disk'[name] = Content[p]
      BY <1>1, <1>14, <2>2, Zenon DEF FilesAreFaithful
    <3>1. CASE name = download_file BY <1>15, <2>2, <3>1, Zenon
    <3>2. CASE name # download_file
      <4>1. disk'[name] = disk[name] BY <1>14, <2>2, <3>2
      <4>2. PICK p \in Programs :
               /\ name = FileName(p)
               /\ IsPrefix(disk[name], Content[p])
               /\ Active /\ name # download_file => disk[name] = Content[p]
        BY Zenon DEF PInv, PatientInv, FilesAreFaithful, Active
      <4> QED BY <1>13, <3>2, <4>1, <4>2, Zenon
    <3> QED BY <3>1, <3>2
  <2> QED BY <2>1, <2>2
<1> QED BY <1>17, <1>18

\* A byte of the rest of a frame, after vt_tele_reset() at its |F.
LEMMA LeaveStep ==
    ASSUME NEW t \in TeleStates, Waits(t), NEW page \in TelePages, LastPage(page),
           NEW k \in 0 .. 4, NEW byte \in Byte,
           byte % 128 = Code(page, ((Size(page) - 5) + k) + 1),
           ~t.in_frame, t.shift_offset = 0, t.state \in {0, k},
           t.state \in 2 .. 4 => t.control_code = END_OF_FRAME
    PROVE  LET u == TeleByte(t, byte)
           IN  /\ ~u.in_frame /\ u.shift_offset = 0 /\ u.frame_number = t.frame_number
               /\ u.filename = t.filename /\ u.end_of_file = t.end_of_file
               /\ u.state \in {0, IF k = 4 THEN 0 ELSE k + 1}
               /\ u.state \in 2 .. 4 => u.control_code = END_OF_FRAME
<1> DEFINE u == TeleByte(t, byte)
           b == byte % 128
           size == Size(page)
           next == IF k = 4 THEN 0 ELSE k + 1
           Goal == /\ ~u.in_frame /\ u.shift_offset = 0 /\ u.frame_number = t.frame_number
                   /\ u.filename = t.filename /\ u.end_of_file = t.end_of_file
                   /\ u.state \in {0, next}
                   /\ u.state \in 2 .. 4 => u.control_code = END_OF_FRAME
<1> SUFFICES Goal OBVIOUS
<1>1. page # TextPage BY FrameRange DEF LastPage
<1>2. /\ size \in Nat /\ size >= 14
      /\ Code(page, size - 4) = CHAR_BAR /\ Code(page, size - 3) = END_OF_FRAME
      /\ Code(page, size - 2) \in 48 .. 57 /\ Code(page, size - 1) \in 48 .. 57
      /\ Code(page, size) \in 48 .. 57
  BY <1>1, FrameBytes, Zenon
<1> HIDE DEF u, size, next, Goal
<1>3. /\ k = 0 => b = CHAR_BAR
      /\ k = 1 => b = END_OF_FRAME
      /\ k \in 2 .. 4 => b \in 48 .. 57
  <2>1. b = Code(page, (size - 5) + k + 1) BY DEF size
  <2> HIDE DEF b
  <2>2. /\ k = 0 => b = Code(page, size - 4)
        /\ k = 1 => b = Code(page, size - 3)
        /\ k = 2 => b = Code(page, size - 2)
        /\ k = 3 => b = Code(page, size - 1)
        /\ k = 4 => b = Code(page, size)
    BY <1>2, <2>1
  <2> QED BY <1>2, <2>2
<1>4. k # 0 => b # CHAR_BAR BY <1>3 DEF CHAR_BAR, END_OF_FRAME
<1> HIDE DEF b
<1>5. CASE k = 0
  <2>1. b = CHAR_BAR BY <1>3, <1>5
  <2>2. Kept(t, u) /\ Stands(u, 1, t.control_code, t.ignore, t.in_frame)
    BY <2>1, BarStep, Zenon DEF u, b
  <2> QED BY <1>5, <2>2 DEF Goal, Kept, Stands, next
<1>6. CASE k # 0 /\ t.state = 0
  <2>1. Kept(t, u) /\ Stands(u, 0, t.control_code, t.ignore, FALSE)
    BY <1>4, <1>6, IdleStep, Zenon DEF u, b
  <2> QED BY <2>1 DEF Goal, Kept, Stands
<1>7. CASE k = 1 /\ t.state = 1
  <2>1. b = END_OF_FRAME /\ t.state = 1 /\ b # CHAR_BAR BY <1>3, <1>4, <1>7
  <2>2. Kept(t, u) /\ Stands(u, 2, b, t.ignore, FALSE)
    BY <1>7, <2>1, CodeStep, Zenon DEF u, b
  <2> QED BY <1>7, <2>1, <2>2 DEF Goal, Kept, Stands, next
<1>8. CASE k \in 2 .. 4 /\ t.state = k
  <2>1. t.state >= 2 /\ t.control_code = END_OF_FRAME /\ k # 0 BY <1>8
  <2> DEFINE ended == t.state = 4 \/ t.end_of_frame
             state == IF t.state = 4 THEN 0 ELSE t.state + 1
  <2>2. /\ Stands(u, state, t.control_code, t.ignore, t.in_frame)
        /\ Counts(u, t.frame_number, t.shift_offset, t.filename, t.end_of_file, ended)
    BY <1>4, <2>1, WaitStep, Zenon DEF u, b
  <2>3. state = next BY <1>8 DEF next
  <2> HIDE DEF ended, state
  <2> QED BY <2>1, <2>2, <2>3 DEF Goal, Stands, Counts
<1> QED BY <1>5, <1>6, <1>7, <1>8

\* A piece has a length.
LEMMA WholeType ==
    ASSUME NEW page \in TelePages, page # TextPage
    PROVE  Whole(page) \in Nat
<1>1. page.frame > 1 => Len(PieceOf(page)) \in Nat BY PieceIs, Zenon
<1> QED BY <1>1 DEF Whole

\* At the end of the last frame the decoder that has been reset is in its place.
LEMMA PastEnd ==
    ASSUME NEW u, NEW page \in TelePages, page # TextPage, LastPage(page),
           Quiet(u), u.frame_number = 0, u.filename = << >>, ~u.end_of_file
    PROVE  TeleAt(u, page, Size(page), Whole(page))
<1> DEFINE size == Size(page)
           m == Whole(page)
<1>1. size \in Nat BY FrameBytes, Zenon
<1>2. Counted(u, page, size) BY Zenon DEF Counted
<1>3. Named(u, page, size) BY DEF Named, LastPage
<1>4. TrailerAt(u, page, 5) BY DEF TrailerAt, Quiet
<1>5. size >= size - 4 /\ size - (size - 5) = 5
  <2> HIDE DEF size
  <2> QED BY <1>1
<1>6. TrailerAt(u, page, size - (size - 5)) BY <1>4, <1>5, Zenon
<1>7. PartAt(u, page, size, m) BY <1>5, <1>6, Zenon DEF PartAt
<1> QED BY <1>2, <1>3, <1>7, Zenon DEF TeleAt, FrameAt

\* A byte after the end of a file, of the frame or of the page that follows it.
LEMMA DecodeLeaves ==
    ASSUME PInv, DecodeByte, Leaves
    PROVE  (Follows' \/ Leaves') /\ FilesAreFaithful' /\ tele'.frame_number = 0
<1> DEFINE byte == Head(buffer)
<1>1. /\ pc = "decode" /\ pc' = pc /\ buffer # << >> /\ buffer' = Tail(buffer)
      /\ tele' = TeleByte(tele, byte)
      /\ is_downloading' = is_downloading /\ download_file' = download_file
      /\ to_client' = to_client /\ to_host' = to_host /\ host' = host /\ typed' = typed
  BY Zenon DEF DecodeByte, wire, outside, download, download_file
<1>2. PICK page \in TelePages \ {TextPage}, k \in 0 .. 4 : LeavesAt(page, k) BY DEF Leaves
<1> DEFINE bytes == Transmission[page]
           text == Transmission[TextPage]
           size == Size(page)
           pos == (size - 5) + k
           both(s) == IF host = page THEN s ELSE s \o text
<1>3. /\ bytes \in Seq(Byte) /\ text \in Seq(Byte)
      /\ tele \in TeleStates /\ Waits(tele)
      /\ buffer \in Seq(Byte) /\ to_client \in Seq(Byte)
  BY RestType, TextBytes, Zenon DEF PInv, IInv, TypeOK
<1>4. rest # << >> /\ Head(rest) = byte /\ rest' = Tail(rest)
  BY <1>1, <1>3, TailOfBoth, Zenon DEF rest
<1>5. size \in Nat /\ size >= 14 /\ size = Len(bytes) BY FrameBytes, Zenon DEF Size
<1>6. pos \in 0 .. Len(bytes) - 1 /\ pos \in Nat
  <2> HIDE DEF size, bytes
  <2> QED BY <1>5
<1>7. /\ From(bytes, pos) # << >> /\ From(bytes, pos) \in Seq(Byte)
      /\ Head(From(bytes, pos)) = bytes[pos + 1]
      /\ Tail(From(bytes, pos)) = From(bytes, pos + 1)
  BY <1>3, <1>6, FromStep, Zenon
<1>8. rest = both(From(bytes, pos))
  BY <1>2, Zenon DEF LeavesAt
<1>9. byte = bytes[pos + 1] /\ rest' = both(From(bytes, pos + 1))
  <2> HIDE DEF bytes, text, pos
  <2>1. CASE host = page BY <1>4, <1>7, <1>8, <2>1
  <2>2. CASE host # page
    <3>1. rest = From(bytes, pos) \o text BY <1>8, <2>2
    <3>2. /\ Head(From(bytes, pos) \o text) = Head(From(bytes, pos))
          /\ Tail(From(bytes, pos) \o text) = Tail(From(bytes, pos)) \o text
      BY <1>3, <1>7, TailOfBoth, Zenon
    <3> QED BY <1>4, <1>7, <2>2, <3>1, <3>2
  <2> QED BY <2>1, <2>2
<1>10. byte \in Byte /\ byte % 128 = Code(page, ((Size(page) - 5) + k) + 1)
  <2>1. bytes[pos + 1] \in Byte
    <3> HIDE DEF bytes, pos
    <3> QED BY <1>3, <1>6
  <2> QED BY <1>9, <2>1 DEF Code
<1>11. /\ ~is_downloading /\ typed = << >>
       /\ tele.frame_number = 0 /\ tele.filename = << >> /\ ~tele.end_of_file
       /\ ~tele.in_frame /\ tele.shift_offset = 0
       /\ LastPage(page)
       /\ tele.state \in {0, k}
       /\ tele.state \in 2 .. 4 => tele.control_code = END_OF_FRAME
       /\ \/ host = page /\ to_host \in {<< >>, <<MORE>>}
          \/ host = TextPage /\ to_host = << >>
  BY <1>2, Zenon DEF LeavesAt
<1>12. FilesAreFaithful'
  <2>1. disk' = disk BY <1>11, Zenon DEF DecodeByte
  <2> QED BY <1>1, <2>1 DEF PInv, PatientInv, FilesAreFaithful
<1> HIDE DEF byte
<1>13. /\ ~tele'.in_frame /\ tele'.shift_offset = 0 /\ tele'.frame_number = tele.frame_number
       /\ tele'.filename = tele.filename /\ tele'.end_of_file = tele.end_of_file
       /\ tele'.state \in {0, IF k = 4 THEN 0 ELSE k + 1}
       /\ tele'.state \in 2 .. 4 => tele'.control_code = END_OF_FRAME
  <2> DEFINE u == TeleByte(tele, byte)
             next == IF k = 4 THEN 0 ELSE k + 1
  <2>1. /\ ~u.in_frame /\ u.shift_offset = 0 /\ u.frame_number = tele.frame_number
        /\ u.filename = tele.filename /\ u.end_of_file = tele.end_of_file
        /\ u.state \in {0, next}
        /\ u.state \in 2 .. 4 => u.control_code = END_OF_FRAME
    <3>1. page \in TelePages OBVIOUS
    <3> QED BY <1>3, <1>10, <1>11, <3>1, LeaveStep
  <2>2. tele' = u BY <1>1
  <2> HIDE DEF u
  <2> QED BY <2>1, <2>2
<1> SUFFICES (Follows' \/ Leaves') /\ FilesAreFaithful'
  <2>1. tele'.frame_number = 0 BY <1>11, <1>13
  <2> QED BY <2>1
<1>14. CASE k < 4
  <2>1. k + 1 \in 0 .. 4 /\ pos + 1 = (size - 5) + (k + 1)
    <3>1. k + 1 \in 0 .. 4 BY <1>14
    <3> DEFINE n == size
    <3>2. n \in Nat BY <1>5
    <3> HIDE DEF n, size
    <3>3. ((n - 5) + k) + 1 = (n - 5) + (k + 1) BY <3>2
    <3> QED BY <3>1, <3>3 DEF n
  <2>2. tele'.state \in {0, k + 1} BY <1>13, <1>14
  <2>3. \/ host = page /\ rest' = From(bytes, (size - 5) + (k + 1))
        \/ host = TextPage /\ rest' = From(bytes, (size - 5) + (k + 1)) \o text
    BY <1>9, <1>11, <2>1, Zenon
  <2> HIDE DEF pos, both
  <2>4. LeavesAt(page, k + 1)' BY <1>1, <1>11, <1>13, <2>2, <2>3 DEF LeavesAt
  <2> QED BY <1>12, <2>1, <2>4, Zenon DEF Leaves
<1>15. CASE k = 4
  <2>1. pos + 1 = Len(bytes)
    <3> HIDE DEF size, bytes
    <3> QED BY <1>5, <1>15
  <2>2. From(bytes, pos + 1) = << >> BY <1>3, <2>1, FromEnds, Zenon
  <2>3. tele'.state = 0 BY <1>13, <1>15
  <2>4. Quiet(tele') BY <1>13, <2>3 DEF Quiet
  <2>5. tele'.frame_number = 0 /\ tele'.filename = << >> /\ ~tele'.end_of_file
    BY <1>11, <1>13
  <2>6. CASE host = page
    <3> DEFINE m == Whole(page)
    <3>1. m \in Nat BY <1>11, WholeType, Zenon
    <3>2. TeleAt(tele', page, size, m) BY <1>11, <2>4, <2>5, PastEnd, Zenon
    <3>3. rest' = << >> /\ rest' = From(bytes, size)
      <4>1. rest' = << >> BY <1>9, <2>2, <2>6, Zenon
      <4>2. From(bytes, size) = << >> BY <1>3, <1>5, FromEnds, Zenon
      <4> QED BY <4>1, <4>2
    <3>4. Len(typed') + Len(to_host') <= 1
      <4>1. Len(<< >>) = 0 /\ Len(<<MORE>>) = 1 OBVIOUS
      <4> DEFINE a == Len(typed')
                 b == Len(to_host')
      <4>2. a = 0 /\ b \in {0, 1} BY <1>1, <1>11, <2>6, <4>1
      <4> HIDE DEF a, b
      <4>3. a + b <= 1 BY <4>2
      <4> QED BY <4>3 DEF a, b
    <3>5. KeysAt' BY <1>1, <1>11, <2>5, <2>6, <3>3, <3>4 DEF KeysAt
    <3>6. DownloadAt(size, m)' BY <1>1, <1>11, Zenon DEF DownloadAt
    <3> HIDE DEF m, bytes
    <3>7. FollowsAt(size, m)'
      BY <1>1, <2>6, <3>2, <3>3, <3>5, <3>6, Zenon DEF FollowsAt, bytes
    <3>8. size \in 0 .. Size(host') BY <1>1, <1>5, <2>6
    <3> QED BY <1>12, <3>1, <3>7, <3>8, Zenon DEF Follows
  <2>7. CASE host = TextPage /\ to_host = << >>
    <3>1. rest' = text
      <4>1. rest' = << >> \o text BY <1>9, <2>2, <2>7, Zenon
      <4> QED BY <1>3, <4>1, NothingMore, Zenon
    <3>2. rest' = From(text, 0) BY <1>3, <3>1, FromEnds, Zenon
    <3>3. TeleAt(tele', TextPage, 0, 0)
      <4>1. TextAt(tele', 0) BY <2>4, TextEnds, Zenon
      <4> QED BY <2>5, <4>1, Zenon DEF TeleAt
    <3>4. KeysAt'
      <4>1. Len(<< >>) = 0 OBVIOUS
      <4> QED BY <1>1, <1>11, <2>7, <4>1 DEF KeysAt
    <3>5. DownloadAt(0, 0)' BY <1>1, <1>11, Zenon DEF DownloadAt
    <3> HIDE DEF text
    <3>6. FollowsAt(0, 0)'
      BY <1>1, <2>5, <2>7, <3>2, <3>3, <3>4, <3>5, Zenon DEF FollowsAt, text
    <3>7. 0 \in 0 .. Size(host')
      <4>1. Size(host') \in Nat BY <1>1, RestType, Zenon DEF PInv
      <4> QED BY <4>1
    <3> QED BY <1>12, <3>6, <3>7 DEF Follows
  <2> QED BY <1>11, <2>6, <2>7, Zenon
<1> QED BY <1>14, <1>15

\* A byte of a read.
LEMMA DecodeBytePlace ==
    ASSUME PInv, DecodeByte
    PROVE  PatientInv'
<1>1. pc = "decode" /\ pc' = "decode" BY Zenon DEF DecodeByte
<1>2. (Follows' \/ Leaves') /\ FilesAreFaithful'
  <2>1. Follows \/ Leaves BY <1>1 DEF PInv, PatientInv
  <2> QED BY <2>1, DecodeFollows, DecodeLeaves, Zenon
<1> QED BY <1>1, <1>2 DEF PatientInv, OfferInv

\* A download follows its page, and its file has not ended between two reads.
LEMMA Downloads ==
    ASSUME PInv, is_downloading, pc # "exited"
    PROVE  Follows /\ (Active /\ tele.end_of_file => pc = "decode")
<1>1. ~Leaves BY Zenon DEF Leaves, LeavesAt
<1>2. Follows BY <1>1, Zenon DEF PInv, PatientInv
<1> QED BY <1>2, Zenon DEF Follows, FollowsAt, DownloadAt

\* When all of a page has been read nothing of it is being decoded.
LEMMA AllRead ==
    ASSUME PInv, NEW pos \in 0 .. Size(host), NEW m \in Nat, FollowsAt(pos, m), rest = << >>
    PROVE  /\ pos = Size(host) /\ Quiet(tele)
           /\ m = (IF host = TextPage THEN 0 ELSE Whole(host))
<1>1. host \in TelePages /\ Transmission[host] \in Seq(Byte) BY RestType, Zenon DEF PInv
<1>2. pos = Size(host)
  <2>1. From(Transmission[host], pos) = << >> BY Zenon DEF FollowsAt
  <2>2. pos \in 0 .. Len(Transmission[host]) BY DEF Size
  <2>3. pos = Len(Transmission[host]) BY <1>1, <2>1, <2>2, FromEnds, Zenon
  <2> QED BY <2>3 DEF Size
<1>3. TeleAt(tele, host, pos, m) BY Zenon DEF FollowsAt
<1>4. CASE host = TextPage
  <2>1. TextAt(tele, Size(TextPage)) /\ m = 0 BY <1>2, <1>3, <1>4 DEF TeleAt
  <2>2. Quiet(tele) BY <2>1, TextEnds, Zenon
  <2> QED BY <1>2, <1>4, <2>1, <2>2
<1>5. CASE host # TextPage
  <2>1. PartAt(tele, host, pos, m) BY <1>3, <1>5, Zenon DEF TeleAt, FrameAt
  <2>2. m = Whole(host) /\ Quiet(tele) BY <1>1, <1>2, <1>5, <2>1, PartEnds, Zenon
  <2> QED BY <1>2, <1>5, <2>2
<1> QED BY <1>4, <1>5

\* A key that waits is the only one, and all of the page has been read.
LEMMA KeyWaits ==
    ASSUME PInv, pc # "exited", typed # << >>
    PROVE  /\ Follows /\ ~is_downloading /\ rest = << >>
           /\ to_host = << >> /\ Tail(typed) = << >>
           /\ Head(typed) = KEY_DOWNLOAD => host # TextPage /\ host.frame = 1
<1>1. Follows BY Zenon DEF PInv, PatientInv, Leaves, LeavesAt
<1>2. KeysAt BY <1>1, Zenon DEF Follows, FollowsAt
<1>3. typed \in Seq(Ascii) /\ to_host \in Seq(Ascii) BY Zenon DEF PInv, IInv, TypeOK
<1>4. Len(typed) + Len(to_host) <= 1 BY <1>2 DEF KeysAt
<1>5. Len(typed) = 1 /\ Len(to_host) = 0
  <2> DEFINE a == Len(typed)
             b == Len(to_host)
  <2>1. a \in Nat /\ a # 0 /\ b \in Nat /\ a + b <= 1 BY <1>3, <1>4
  <2> HIDE DEF a, b
  <2>2. a = 1 /\ b = 0 BY <2>1
  <2> QED BY <2>2 DEF a, b
<1>6. Tail(typed) = << >> /\ to_host = << >>
  <2>1. to_host = << >> BY <1>3, <1>5
  <2> DEFINE r == Tail(typed)
  <2>2. r \in Seq(Ascii) /\ Len(r) = 0 BY <1>3, <1>5
  <2> HIDE DEF r
  <2>3. r = << >> BY <2>2
  <2> QED BY <2>1, <2>3 DEF r
<1> QED BY <1>1, <1>2, <1>6 DEF KeysAt

\* The steps that only move on.
LEMMA ProgramPacesPlace ==
    ASSUME PInv,
           \/ Test \/ Poll \/ SkipSocket \/ SkipKey \/ ServeTimer
           \/ HeaderLookedFor \/ CloseFails \/ KeepKey
    PROVE  PatientInv'
<1>1. ASSUME pc \in {"test", "poll", "socket", "stdin", "timer"}, pc' # "decode",
             UNCHANGED <<buffer, to_client, tele, host, disk, is_downloading, download_file,
                         to_host, can_download>>,
             typed' \in {typed, << >>}
      PROVE  PatientInv'
  <2>1. buffer = << >> /\ OfferInv BY <1>1 DEF PInv, PatientInv
  <2>2. Active /\ pc # "exited" /\ pc # "decode" BY <1>1 DEF Active
  <2>3. tele.end_of_file /\ is_downloading => ~Active' BY <2>2, Downloads, Zenon
  <2>4. OfferInv' BY <1>1, <2>1, <2>2 DEF OfferInv
  <2>5. to_host' \in {to_host, << >>} BY <1>1
  <2> QED BY <1>1, <2>1, <2>2, <2>3, <2>4, <2>5, Paces
<1>2. CASE Test \/ Poll \/ SkipSocket \/ SkipKey \/ ServeTimer
  <2>1. /\ pc \in {"test", "poll", "socket", "stdin", "timer"} /\ pc' # "decode"
        /\ UNCHANGED <<buffer, to_client, tele, host, disk, is_downloading, download_file,
                       to_host, can_download, typed>>
    BY <1>2 DEF Test, Poll, SkipSocket, SkipKey, ServeTimer, wire, outside, download, download_file
  <2> QED BY <1>1, <2>1
<1>3. CASE KeepKey
  <2>1. /\ pc = "stdin" /\ pc' = "timer" /\ typed # << >> /\ typed' = Tail(typed)
        /\ UNCHANGED <<buffer, to_client, tele, host, disk, is_downloading, download_file,
                       to_host, can_download>>
    BY <1>3 DEF KeepKey, KeyReady, ReadKey, wire, download, download_file
  <2>2. typed' = << >> BY <2>1, KeyWaits
  <2> QED BY <1>1, <2>1, <2>2
<1>4. CASE HeaderLookedFor
  <2>1. /\ pc = "decode" /\ buffer = << >> /\ ~is_downloading /\ pc' = "stdin"
        /\ can_download' = HeaderDecoded(tele)
        /\ UNCHANGED <<buffer, to_client, tele, host, disk, is_downloading, download_file,
                       to_host, typed>>
    BY <1>4 DEF HeaderLookedFor, Decoded, wire, outside, download_file
  <2>2. OfferInv' BY <2>1 DEF OfferInv, HeaderDecoded
  <2>3. Active BY <2>1 DEF Active
  <2> QED BY <2>1, <2>2, <2>3, Paces
<1>5. CASE CloseFails
  <2>1. /\ pc = "decode" /\ buffer = << >> /\ is_downloading /\ pc' = "cleanup"
        /\ UNCHANGED <<buffer, to_client, tele, host, disk, is_downloading, to_host, typed>>
    BY <1>5 DEF CloseFails, Decoded, wire, outside
  <2>2. OfferInv' BY <2>1 DEF OfferInv
  <2>3. Active /\ ~Active' BY <2>1 DEF Active
  <2> QED BY <2>1, <2>2, <2>3, Paces
<1> QED BY <1>2, <1>3, <1>4, <1>5

\* The timer, a signal and the end of the connection.
LEMMA OutsidePacesPlace ==
    ASSUME PInv, TimerExpires \/ Signal \/ HostCloses \/ UNCHANGED vars
    PROVE  PatientInv'
<1>1. /\ UNCHANGED <<buffer, to_client, tele, host, disk, is_downloading, download_file,
                     typed, can_download>>
      /\ to_host' \in {to_host, << >>}
      /\ pc' = pc \/ (pc = "poll" /\ pc' = "test")
  BY DEF TimerExpires, Signal, HostCloses, vars, program, flags, wire, outside, download,
         download_file
<1>2. OfferInv' BY <1>1 DEF PInv, PatientInv, OfferInv
<1>3. CASE pc' = pc
  <2>1. typed' \in {typed, << >>} BY <1>1
  <2> QED BY <1>1, <1>2, <1>3, <2>1, Paces
<1>4. CASE pc = "poll" /\ pc' = "test"
  <2>1. buffer = << >> BY <1>4 DEF PInv, PatientInv
  <2>2. Active /\ pc # "exited" /\ pc # "decode" BY <1>4 DEF Active
  <2>3. tele.end_of_file /\ is_downloading => ~Active' BY <2>2, Downloads, Zenon
  <2>4. typed' \in {typed, << >>} /\ pc' # "decode" BY <1>1, <1>4
  <2> QED BY <1>1, <1>2, <1>4, <2>1, <2>2, <2>3, <2>4, Paces
<1> QED BY <1>1, <1>3, <1>4

\* A key that is sent, or lost because the host has closed the connection.
LEMMA KeySent ==
    ASSUME NEW key, to_host = << >>, Write(key)
    PROVE  to_host' \in {<< >>, <<key>>}
<1>1. Append(<< >>, key) = <<key>> OBVIOUS
<1> QED BY <1>1 DEF Write

\* Then it is the only one.
LEMMA OneKey ==
    ASSUME NEW key, typed' = << >>, to_host' \in {<< >>, <<key>>},
           rest' = << >>, pc' # "decode"
    PROVE  KeysAt'
<1>1. Len(typed') = 0 /\ Len(to_host') \in {0, 1} BY DEF KeysAt
<1> DEFINE a == Len(typed')
           b == Len(to_host')
<1>2. a = 0 /\ b \in {0, 1} BY <1>1
<1> HIDE DEF a, b
<1>3. a + b <= 1 BY <1>2
<1> QED BY <1>3 DEF a, b, KeysAt

\* The end of a frame: the next is asked for.
LEMMA FrameContinuesPlace ==
    ASSUME PInv, FrameContinues
    PROVE  PatientInv'
<1>1. /\ pc = "decode" /\ buffer = << >> /\ is_downloading /\ ~tele.end_of_file
      /\ pc' = "stdin"
      /\ UNCHANGED <<buffer, to_client, tele, host, disk, is_downloading, download_file,
                     can_download, typed>>
  BY DEF FrameContinues, Decoded, outside, download, download_file
<1>2. OfferInv' BY <1>1 DEF OfferInv
<1>3. Active /\ pc # "exited" BY <1>1 DEF Active
<1>4. CASE to_host' = to_host
  <2>1. typed' \in {typed, << >>} /\ to_host' \in {to_host, << >>} BY <1>1, <1>4
  <2> QED BY <1>1, <1>2, <1>3, <2>1, Paces
<1>5. CASE to_host' # to_host
  <2>1. tele.end_of_frame /\ Write(MORE) BY <1>5 DEF FrameContinues
  <2>2. PICK pos \in 0 .. Size(host), m \in Nat : FollowsAt(pos, m)
    BY <1>1, <1>3, Downloads, Zenon DEF Follows
  <2>3. /\ typed = << >> /\ to_host = << >>
        /\ \E p \in Programs : FileAt(p, pos, m)
    BY <1>1, <1>3, <2>2, Zenon DEF FollowsAt, DownloadAt
  <2>4. PICK p \in Programs : FileAt(p, pos, m) BY <2>3
  <2>5. host # TextPage BY <2>4, Zenon DEF FileAt
  <2>6. pos = Size(host) BY <1>1, <2>1, <2>2, <2>5, Zenon DEF FollowsAt
  <2>7. rest' = rest BY <1>1 DEF rest
  <2>8. rest = << >>
    <3>1. rest = From(Transmission[host], Len(Transmission[host]))
      BY <2>2, <2>6 DEF FollowsAt, Size
    <3>2. Transmission[host] \in Seq(Byte) BY RestType, Zenon DEF PInv
    <3> QED BY <3>1, <3>2, FromEnds, Zenon
  <2>9. to_host' \in {<< >>, <<MORE>>} BY <2>1, <2>3, KeySent, Zenon
  <2>10. KeysAt' BY <1>1, <2>3, <2>7, <2>8, <2>9, OneKey, Zenon
  <2>11. FileAt(p, pos, m)' BY <1>1, <2>4 DEF FileAt
  <2>12. DownloadAt(pos, m)' BY <1>1, <2>3, <2>9, <2>11 DEF DownloadAt
  <2>13. FollowsAt(pos, m)'
    <3>1. TeleAt(tele, host, pos, m)' BY <1>1, <2>2 DEF FollowsAt
    <3> QED BY <1>1, <2>2, <2>7, <2>10, <2>12, <3>1 DEF FollowsAt
  <2>14. Follows' BY <1>1, <2>2, <2>13 DEF Follows
  <2>15. FilesAreFaithful' BY <1>1 DEF PInv, PatientInv, FilesAreFaithful
  <2> QED BY <1>1, <1>2, <2>14, <2>15 DEF PatientInv
<1> QED BY <1>4, <1>5

\* A download that has ended has all of its file.
LEMMA FileComplete ==
    ASSUME PInv, NEW pos \in 0 .. Size(host), NEW m \in Nat, FollowsAt(pos, m),
           NEW p \in Programs, FileAt(p, pos, m), tele.end_of_file
    PROVE  /\ host # TextPage /\ LastPage(host) /\ pos >= Size(host) - 5
           /\ m = Whole(host) /\ (pos = Size(host) => Quiet(tele))
           /\ download_file = FileName(p) /\ disk[download_file] = Content[p]
<1> DEFINE size == Size(host)
<1>1. host \in TelePages /\ size \in Nat BY RestType, Zenon DEF PInv
<1>2. host # TextPage /\ host.frame # 1 BY Zenon DEF FileAt
<1>3. host.frame \in 1 .. 10 BY <1>1, <1>2, FrameRange, Zenon
<1>4. host.frame > 1 BY <1>2, <1>3
<1>5. /\ LastPage(host) /\ pos >= size - 5 /\ host.program = p
      /\ disk[download_file] = SubSeq(Content[p], 1, UpTo(p, host.frame - 2) + m)
      /\ download_file = FileName(p)
  BY <1>2, <1>4, Zenon DEF FileAt
<1>6. PartAt(tele, host, pos, m) BY <1>2, Zenon DEF FollowsAt, TeleAt, FrameAt
<1>7. m = Whole(host) /\ (pos = size => Quiet(tele))
  BY <1>1, <1>2, <1>5, <1>6, PartEnds, Zenon
<1>8. disk[download_file] = Content[p]
  <2> DEFINE all == Content[p]
             n == UpTo(p, host.frame - 2) + m
  <2>1. m = Len(PieceOf(host)) BY <1>4, <1>7 DEF Whole
  <2>2. /\ Content[host.program] \in Seq(Byte)
        /\ UpTo(host.program, host.frame - 2) + Len(PieceOf(host)) = Len(Content[host.program])
    BY <1>1, <1>4, <1>5, PieceIs, Zenon
  <2>3. all \in Seq(Byte) /\ n = Len(all) BY <1>5, <2>1, <2>2, Zenon
  <2> HIDE DEF all, n
  <2>4. Len(all) \in Nat BY <2>3
  <2>5. Len(all) \in 0 .. Len(all) BY <2>4
  <2>6. SubSeq(all, 1, n) = all BY <2>3, <2>5, PrefixOf, Zenon
  <2> QED BY <1>5, <2>6, Zenon DEF all, n
<1> QED BY <1>2, <1>5, <1>7, <1>8

\* The end of a file: the page that follows is asked for, and the rest of the last
\* frame may still come.
LEMMA FileEndsPlace ==
    ASSUME PInv, FileEnds
    PROVE  PatientInv'
<1>1. /\ pc = "decode" /\ buffer = << >> /\ is_downloading /\ tele.end_of_file
      /\ ~is_downloading' /\ ~can_download' /\ tele' = TeleReset /\ download_file' = NoFile
      /\ pc' = "stdin" /\ Write(MORE)
      /\ UNCHANGED <<buffer, to_client, host, disk, typed>>
  <2>1. /\ pc = "decode" /\ buffer = << >> /\ is_downloading /\ tele.end_of_file
        /\ ~is_downloading' /\ ~can_download' /\ tele' = TeleReset
        /\ pc' = "stdin" /\ Write(MORE)
        /\ UNCHANGED <<buffer, to_client, host, disk, typed>>
    BY DEF FileEnds, Decoded, outside
  <2>2. DOMAIN opened' = DOMAIN opened \ {download_fd} /\ download_fd' = NoFd
    BY Zenon DEF FileEnds, Closed
  <2>3. NoFd \notin DOMAIN opened BY SMT DEF PInv, IInv, TypeOK, NoFd
  <2>4. download_file' = NoFile BY <2>2, <2>3, Zenon DEF download_file
  <2> QED BY <2>1, <2>4
<1>2. Active /\ pc # "exited" BY <1>1 DEF Active
<1>3. PICK pos \in 0 .. Size(host), m \in Nat : FollowsAt(pos, m)
  BY <1>1, <1>2, Downloads, Zenon DEF Follows
<1>4. /\ typed = << >> /\ to_host = << >>
      /\ \E p \in Programs : FileAt(p, pos, m)
  BY <1>1, <1>2, <1>3, Zenon DEF FollowsAt, DownloadAt
<1>5. PICK p \in Programs : FileAt(p, pos, m) BY <1>4
<1>6. /\ host # TextPage /\ LastPage(host) /\ pos >= Size(host) - 5
      /\ m = Whole(host)
      /\ download_file = FileName(p) /\ disk[download_file] = Content[p]
  BY <1>1, <1>3, <1>5, FileComplete, Zenon
<1>7. host \in TelePages /\ Size(host) \in Nat /\ Transmission[host] \in Seq(Byte)
  BY RestType, Zenon DEF PInv
<1>8. rest' = rest /\ rest = From(Transmission[host], pos)
  BY <1>1, <1>3 DEF rest, FollowsAt
<1>9. to_host' \in {<< >>, <<MORE>>} BY <1>1, <1>4, KeySent, Zenon
<1>10. /\ Quiet(tele') /\ tele'.frame_number = 0 /\ tele'.filename = << >>
       /\ ~tele'.end_of_file /\ tele'.state = 0
  BY <1>1 DEF TeleReset, Quiet
<1>11. FilesAreFaithful'
  <2> SUFFICES ASSUME NEW name \in DOMAIN disk
               PROVE  \E q \in Programs :
                         /\ name = FileName(q) /\ IsPrefix(disk[name], Content[q])
                         /\ disk[name] = Content[q]
    BY <1>1, Zenon DEF FilesAreFaithful
  <2>1. PICK q \in Programs :
           /\ name = FileName(q) /\ IsPrefix(disk[name], Content[q])
           /\ Active /\ name # download_file => disk[name] = Content[q]
    BY Zenon DEF PInv, PatientInv, FilesAreFaithful, Active
  <2>2. CASE name # download_file BY <1>2, <2>1, <2>2, Zenon
  <2>3. CASE name = download_file
    <3>1. p = q BY <1>6, <2>1, <2>3 DEF FileName
    <3> QED BY <1>6, <2>1, <2>3, <3>1, Zenon
  <2> QED BY <2>2, <2>3
<1>12. CASE pos = Size(host)
  <2>1. TeleAt(tele', host, pos, m) BY <1>6, <1>7, <1>10, <1>12, PastEnd, Zenon
  <2>2. rest = << >>
    <3>1. rest = From(Transmission[host], Len(Transmission[host])) BY <1>8, <1>12 DEF Size
    <3> QED BY <1>7, <3>1, FromEnds, Zenon
  <2>3. KeysAt' BY <1>1, <1>4, <1>8, <1>9, <2>2, OneKey, Zenon
  <2>4. DownloadAt(pos, m)' BY <1>1, Zenon DEF DownloadAt
  <2>5. FollowsAt(pos, m)' BY <1>1, <1>8, <2>1, <2>3, <2>4 DEF FollowsAt
  <2>6. Follows' BY <1>1, <1>3, <2>5 DEF Follows
  <2> QED BY <1>1, <1>11, <2>6 DEF PatientInv, OfferInv
<1>13. CASE pos # Size(host)
  <2>1. PICK k \in 0 .. 4 : (Size(host) - 5) + k = pos
    <3> DEFINE n == Size(host)
    <3>1. n \in Nat /\ pos \in 0 .. n /\ pos >= n - 5 /\ pos # n BY <1>6, <1>7, <1>13
    <3> HIDE DEF n
    <3>2. pos \in Nat BY <3>1
    <3>3. pos - (n - 5) \in 0 .. 4 /\ (n - 5) + (pos - (n - 5)) = pos BY <3>1, <3>2
    <3> QED BY <3>3, Zenon DEF n
  <2> DEFINE At(page) ==
          rest' = From(Transmission[page], (Size(page) - 5) + k) /\ LastPage(page)
  <2>2. PICK page \in TelePages \ {TextPage} : page = host /\ At(page)
    <3>1. At(host) BY <1>6, <1>8, <2>1
    <3> HIDE DEF At
    <3> QED BY <1>6, <1>7, <3>1
  <2>3. tele'.state \in {0, k} /\ ~(tele'.state \in 2 .. 4) BY <1>10
  <2>4. LeavesAt(page, k)'
    <3>1. ~tele'.in_frame /\ tele'.shift_offset = 0 BY <1>10 DEF Quiet
    <3>2. typed' = << >> /\ host' = page BY <1>1, <1>4, <2>2
    <3> QED BY <1>1, <1>9, <1>10, <2>2, <2>3, <3>1, <3>2, Zenon DEF LeavesAt
  <2>5. Leaves' BY <2>4, Zenon DEF Leaves
  <2> QED BY <1>1, <1>11, <2>5 DEF PatientInv, OfferInv
<1> QED BY <1>12, <1>13

\* open() gives download_fd the file of its name.
LEMMA FileOpened ==
    ASSUME StartDownload
    PROVE  download_file' = tele.filename
<1>1. /\ download_fd' = NewFd
      /\ opened' = [fd \in DOMAIN opened \cup {NewFd} |->
                       IF fd = NewFd THEN tele.filename ELSE opened[fd]]
  BY Zenon DEF StartDownload
<1>2. NewFd \in DOMAIN opened' /\ opened'[NewFd] = tele.filename BY <1>1, Zenon
<1> QED BY <1>1, <1>2, Zenon DEF download_file

\* Nothing is being read and all files are closed: CTRL-g, on a header only, opens
\* the file that it names.
LEMMA StartDownloadPlace ==
    ASSUME PInv, StartDownload
    PROVE  PatientInv'
<1>1. /\ pc = "stdin" /\ typed # << >> /\ Head(typed) = KEY_DOWNLOAD /\ can_download
      /\ is_downloading' = TRUE /\ download_file' = tele.filename
      /\ disk' = [name \in DOMAIN disk \cup {tele.filename} |->
                     IF name = tele.filename THEN << >> ELSE disk[name]]
      /\ typed' = Tail(typed) /\ pc' = "timer" /\ Write(MORE)
      /\ UNCHANGED <<buffer, tele, to_client, host, can_download>>
  <2>1. /\ pc = "stdin" /\ typed # << >> /\ Head(typed) = KEY_DOWNLOAD /\ can_download
        /\ is_downloading' = TRUE
        /\ disk' = [name \in DOMAIN disk \cup {tele.filename} |->
                       IF name = tele.filename THEN << >> ELSE disk[name]]
        /\ typed' = Tail(typed) /\ pc' = "timer" /\ Write(MORE)
        /\ UNCHANGED <<buffer, tele, to_client, host, can_download>>
    BY DEF StartDownload, KeyReady, ReadKey
  <2>2. download_file' = tele.filename BY FileOpened
  <2> QED BY <2>1, <2>2
<1>2. Active /\ pc # "exited" /\ pc # "decode" BY <1>1 DEF Active
<1>3. /\ Follows /\ ~is_downloading /\ rest = << >> /\ to_host = << >>
      /\ typed' = << >> /\ host # TextPage /\ host.frame = 1
  BY <1>1, <1>2, KeyWaits
<1>4. PICK pos \in 0 .. Size(host), m \in Nat : FollowsAt(pos, m) BY <1>3 DEF Follows
<1>5. pos = Size(host) BY <1>3, <1>4, AllRead, Zenon
<1>6. buffer = << >> /\ tele.frame_number = 1
  BY <1>1, <1>2, <1>3 DEF PInv, PatientInv, OfferInv
<1>7. host \in TelePages BY RestType, Zenon DEF PInv
<1> DEFINE p == host.program
<1>8. p \in Programs BY <1>3, <1>7, PageFrame
<1>9. tele.filename = FileName(p) /\ ~tele.end_of_file
  <2>1. pos >= 14
    <3>1. Size(host) = 19 BY <1>3, <1>7, HeaderBytes, Zenon
    <3> QED BY <1>5, <3>1
  <2>2. pos >= 3 BY <2>1
  <2>3. Named(tele, host, pos) BY <1>3, <1>4, Zenon DEF FollowsAt, TeleAt, FrameAt
  <2> QED BY <1>3, <1>6, <2>1, <2>2, <2>3, Zenon DEF Named
<1>10. rest' = << >> BY <1>1, <1>3 DEF rest
<1>11. to_host' \in {<< >>, <<MORE>>} BY <1>1, <1>3, KeySent, Zenon
<1>12. disk'[download_file'] = << >> BY <1>1
<1> HIDE DEF p
<1>13. PICK own \in Programs : FileAt(own, pos, m)'
  <2>1. host' # TextPage /\ host'.frame = 1 /\ ~(host'.frame > 1) BY <1>1, <1>3
  <2>2. PICK it \in Programs : it = host.program /\ download_file' = FileName(it)
    BY <1>1, <1>8, <1>9 DEF p
  <2>3. FileAt(it, pos, m)' BY <1>1, <1>5, <1>6, <1>9, <1>12, <2>1, <2>2 DEF FileAt
  <2> QED BY <2>3
<1>14. DownloadAt(pos, m)'
  <2>1. \E one \in Programs : FileAt(one, pos, m)' BY <1>13
  <2>2. ~tele'.end_of_file BY <1>1, <1>9
  <2> QED BY <1>1, <1>3, <1>11, <2>1, <2>2, Zenon DEF DownloadAt
<1>15. KeysAt' BY <1>1, <1>3, <1>10, <1>11, OneKey, Zenon
<1>16. FollowsAt(pos, m)'
  <2>1. TeleAt(tele, host, pos, m)' BY <1>1, <1>4 DEF FollowsAt
  <2>2. rest' = From(Transmission[host'], pos) BY <1>1, <1>3, <1>4, <1>10 DEF FollowsAt
  <2> QED BY <1>1, <1>14, <1>15, <2>1, <2>2 DEF FollowsAt
<1>17. Follows' BY <1>1, <1>4, <1>16 DEF Follows
<1>18. FilesAreFaithful'
  <2> SUFFICES ASSUME NEW name \in DOMAIN disk'
               PROVE  \E q \in Programs :
                         /\ name = FileName(q) /\ IsPrefix(disk'[name], Content[q])
                         /\ name # download_file' => disk'[name] = Content[q]
    BY Zenon DEF FilesAreFaithful
  <2>1. CASE name = download_file'
    <3>1. Content[p] \in Seq(Byte)
      <4>1. Content \in [Programs -> Seq(Byte)] BY HostAssumption, Zenon
      <4> QED BY <1>8, <4>1
    <3>2. IsPrefix(<< >>, Content[p])
      <4> DEFINE all == Content[p]
      <4> HIDE DEF all
      <4>1. all \in Seq(Byte) /\ 0 \in 0 .. Len(all) BY <3>1 DEF all
      <4> QED BY <4>1, PrefixOf, Zenon DEF all
    <3> QED BY <1>1, <1>8, <1>9, <1>12, <2>1, <3>2, Zenon
  <2>2. CASE name # download_file'
    <3>1. name \in DOMAIN disk /\ disk'[name] = disk[name] BY <1>1, <2>2
    <3>2. PICK q \in Programs :
             /\ name = FileName(q) /\ IsPrefix(disk[name], Content[q])
             /\ Active /\ name # download_file => disk[name] = Content[q]
      BY <3>1, Zenon DEF PInv, PatientInv, FilesAreFaithful, Active
    <3>3. name # download_file
      <4>1. download_file = NoFile
        <5>1. download_fd = NoFd
          BY <1>2, <1>3, Zenon DEF PInv, IInv, DecodesIntoOpenFile, Active
        <5>2. NoFd \notin DOMAIN opened BY SMT DEF PInv, IInv, TypeOK, NoFd
        <5> QED BY <5>1, <5>2, Zenon DEF download_file
      <4>2. FileName(q) # NoFile BY DEF FileName, NoFile
      <4> QED BY <3>2, <4>1, <4>2
    <3> QED BY <1>2, <3>1, <3>2, <3>3, Zenon
  <2> QED BY <2>1, <2>2
<1> QED BY <1>1, <1>6, <1>17, <1>18 DEF PatientInv, OfferInv

\* The file cannot be opened: the program gives up.  Other keys go to the host.
LEMMA OtherKeysPlace ==
    ASSUME PInv, OpenFails \/ SendKey
    PROVE  PatientInv'
<1>1. /\ pc = "stdin" /\ typed # << >> /\ typed' = Tail(typed)
      /\ UNCHANGED <<buffer, tele, to_client, host, can_download, disk>>
      /\ \/ pc' = "cleanup" /\ is_downloading' /\ to_host' = to_host
         \/ /\ pc' = "timer" /\ Write(Head(typed)) /\ is_downloading' = is_downloading
            /\ download_file' = download_file
  BY DEF OpenFails, SendKey, KeyReady, ReadKey, wire, download, download_file
<1>2. Active /\ pc # "exited" /\ pc # "decode" /\ pc' # "decode" BY <1>1 DEF Active
<1>3. Follows /\ ~is_downloading /\ rest = << >> /\ to_host = << >> /\ typed' = << >>
  BY <1>1, <1>2, KeyWaits
<1>4. buffer = << >> /\ OfferInv BY <1>2 DEF PInv, PatientInv
<1>5. PICK pos \in 0 .. Size(host), m \in Nat : FollowsAt(pos, m) BY <1>3 DEF Follows
<1>6. rest' = rest BY <1>1 DEF rest
<1>7. KeysAt'
  <2>1. PICK key : key = Head(typed) OBVIOUS
  <2>2. to_host' \in {<< >>, <<key>>}
    <3>1. CASE to_host' = to_host BY <1>3, <3>1
    <3>2. CASE Write(Head(typed)) BY <1>3, <2>1, <3>2, KeySent, Zenon
    <3> QED BY <1>1, <3>1, <3>2
  <2> QED BY <1>2, <1>3, <1>6, <2>2, OneKey, Zenon
<1>8. DownloadAt(pos, m)'
  <2>1. is_downloading' => ~Active' BY <1>1, <1>3 DEF Active
  <2> QED BY <2>1, Zenon DEF DownloadAt
<1>9. FollowsAt(pos, m)'
  <2>1. TeleAt(tele, host, pos, m)' BY <1>1, <1>5 DEF FollowsAt
  <2> QED BY <1>1, <1>2, <1>5, <1>6, <1>7, <1>8, <2>1 DEF FollowsAt
<1>10. Follows' BY <1>1, <1>5, <1>9 DEF Follows
<1>11. OfferInv' BY <1>1, <1>2, <1>4 DEF OfferInv
<1>12. FilesAreFaithful' BY <1>1, <1>2 DEF PInv, PatientInv, FilesAreFaithful, Active
<1> QED BY <1>1, <1>4, <1>10, <1>11, <1>12 DEF PatientInv

\* Logging off.
LEMMA CleanupPlace ==
    ASSUME PInv, Cleanup
    PROVE  PatientInv'
<1>1. /\ pc = "cleanup" /\ pc' = "exited"
      /\ UNCHANGED <<buffer, tele, can_download, is_downloading, disk>>
  BY DEF Cleanup
<1>2. buffer' = << >> /\ OfferInv' BY <1>1 DEF PInv, PatientInv, OfferInv
<1>3. FilesAreFaithful' BY <1>1 DEF PInv, PatientInv, FilesAreFaithful
<1> QED BY <1>1, <1>2, <1>3 DEF PatientInv

\* The patient user types a key when all of a page has been read.
LEMMA PatientKeyPlace ==
    ASSUME PInv, NEW key, Patient(key), TypeKey(key)
    PROVE  PatientInv'
<1>1. /\ typed = << >> /\ to_host = << >> /\ to_client = << >>
      /\ pc \in {"test", "poll"} /\ ~is_downloading
      /\ key = KEY_DOWNLOAD => host.frame = 1
  BY Zenon DEF Patient
<1>2. /\ typed' = <<key>>
      /\ UNCHANGED <<pc, buffer, tele, can_download, is_downloading, download_file, disk,
                     to_client, to_host, host>>
  <2>1. Append(<< >>, key) = <<key>> OBVIOUS
  <2> QED BY <1>1, <2>1 DEF TypeKey, program, wire, download, download_file
<1>3. pc # "decode" /\ pc # "exited" BY <1>1
<1>4. buffer = << >> /\ OfferInv BY <1>3 DEF PInv, PatientInv
<1>5. rest = << >> /\ rest' = << >>
  <2>1. << >> \o << >> = << >> OBVIOUS
  <2> QED BY <1>1, <1>2, <1>4, <2>1 DEF rest
<1>6. ~Leaves
  <2> SUFFICES ASSUME NEW page \in TelePages \ {TextPage}, NEW k \in 0 .. 4, LeavesAt(page, k)
               PROVE  FALSE
    BY DEF Leaves
  <2> DEFINE bytes == Transmission[page]
             pos == (Size(page) - 5) + k
  <2>1. bytes \in Seq(Byte) /\ Transmission[TextPage] \in Seq(Byte)
    BY RestType, TextBytes, Zenon DEF PInv
  <2>2. pos \in 0 .. Len(bytes) - 1
    <3>1. Size(page) \in Nat /\ Size(page) >= 14 /\ Size(page) = Len(bytes)
      BY FrameBytes, Zenon DEF Size
    <3> DEFINE n == Len(bytes)
    <3>2. n \in Nat /\ n >= 14 BY <3>1
    <3>3. pos = (n - 5) + k BY <3>1
    <3> HIDE DEF n, pos
    <3>4. pos \in 0 .. n - 1 BY <3>2, <3>3
    <3> QED BY <3>4 DEF n
  <2> HIDE DEF pos, bytes
  <2>3. From(bytes, pos) # << >> /\ From(bytes, pos) \in Seq(Byte)
    BY <2>1, <2>2, FromStep, Zenon
  <2>4. From(bytes, pos) \o Transmission[TextPage] # << >>
    BY <2>1, <2>3, TailOfBoth, Zenon
  <2>5. rest \in {From(bytes, pos), From(bytes, pos) \o Transmission[TextPage]}
    BY Zenon DEF LeavesAt, bytes, pos
  <2> QED BY <1>5, <2>3, <2>4, <2>5
<1>7. Follows BY <1>3, <1>6 DEF PInv, PatientInv
<1>8. PICK pos \in 0 .. Size(host), m \in Nat : FollowsAt(pos, m) BY <1>7 DEF Follows
<1>9. KeysAt'
  <2>1. Len(typed') = 1 /\ Len(to_host') = 0 BY <1>1, <1>2
  <2> DEFINE a == Len(typed')
             b == Len(to_host')
  <2>2. a = 1 /\ b = 0 BY <2>1
  <2> HIDE DEF a, b
  <2>3. a + b <= 1 BY <2>2
  <2>4. key = KEY_DOWNLOAD => host # TextPage /\ host.frame = 1
    BY <1>1 DEF TextPage, Page
  <2>5. Head(typed') = key BY <1>2
  <2> QED BY <1>1, <1>2, <1>3, <1>5, <2>3, <2>4, <2>5 DEF KeysAt, a, b
<1>10. DownloadAt(pos, m)' BY <1>1, <1>2, Zenon DEF DownloadAt
<1>11. FollowsAt(pos, m)'
  <2>1. TeleAt(tele, host, pos, m)' BY <1>2, <1>8 DEF FollowsAt
  <2>2. rest' = rest BY <1>5
  <2> QED BY <1>2, <1>3, <1>8, <1>9, <1>10, <2>1, <2>2 DEF FollowsAt
<1>12. Follows' BY <1>2, <1>8, <1>11 DEF Follows
<1>13. OfferInv' BY <1>2, <1>4 DEF OfferInv
<1>14. FilesAreFaithful' BY <1>2 DEF PInv, PatientInv, FilesAreFaithful
<1> QED BY <1>2, <1>4, <1>12, <1>13, <1>14 DEF PatientInv

\* Where a key leads, and what the key of the next frame does.
LEMMA NextPage ==
    ASSUME NEW page \in TelePages, NEW key \in Ascii
    PROVE  LET new == PageAfter[<<page, key>>]
               more == page # TextPage /\ page.frame < Frames(page.program)
               next == Page(page.program, page.frame + 1)
           IN  /\ new \in TelePages
               /\ new = TextPage \/ new.frame = 1 \/ (key = MORE /\ more /\ new = next)
               /\ key = MORE => new = IF more THEN next ELSE TextPage
               /\ next.program = page.program /\ next.frame = page.frame + 1
<1> DEFINE new == PageAfter[<<page, key>>]
           more == page # TextPage /\ page.frame < Frames(page.program)
           next == Page(page.program, page.frame + 1)
<1>1. PageAfter = TelePageAfter BY HostAssumption, Zenon
<1>2. new = IF key \in Programs THEN Page(key, 1)
            ELSE IF key = MORE /\ more THEN next ELSE TextPage
  BY <1>1 DEF TelePageAfter
<1>3. MORE \notin Programs BY HostAssumption
<1>4. Page(key, 1).frame = 1 BY DEF Page
<1>5. next.program = page.program /\ next.frame = page.frame + 1 BY DEF Page
<1>6. new \in TelePages
  <2>1. PageAfter \in [Pages \X Ascii -> Pages] BY SessionAssumption, Zenon
  <2>2. Pages = TelePages BY HostAssumption, Zenon
  <2> QED BY <2>1, <2>2
<1> HIDE DEF new, more, next
<1>7. new = TextPage \/ new.frame = 1 \/ (key = MORE /\ more /\ new = next)
  BY <1>2, <1>4
<1>8. key = MORE => new = IF more THEN next ELSE TextPage BY <1>2, <1>3
<1> QED BY <1>5, <1>6, <1>7, <1>8, Zenon DEF new, more, next

\* The answer to a key, when the rest of a file's last frame may still come.
LEMMA AnswerLeaves ==
    ASSUME PInv, HostAnswers, Head(to_host) # LOGOFF, Leaves
    PROVE  Leaves'
<1>1. PICK page \in TelePages \ {TextPage}, k \in 0 .. 4 : LeavesAt(page, k) BY DEF Leaves
<1>2. /\ to_host # << >> /\ host' = PageAfter[<<host, Head(to_host)>>]
      /\ to_client' = to_client \o Transmission[host'] /\ to_host' = Tail(to_host)
      /\ UNCHANGED <<buffer, tele, is_downloading, typed>>
  BY DEF HostAnswers, program, download
<1>3. /\ host = page /\ to_host = <<MORE>> /\ LastPage(page)
      /\ rest = From(Transmission[page], (Size(page) - 5) + k)
  BY <1>1, <1>2, Zenon DEF LeavesAt
<1>4. to_host' = << >> /\ Head(to_host) = MORE
  <2>1. Tail(<<MORE>>) = << >> /\ Head(<<MORE>>) = MORE OBVIOUS
  <2> QED BY <1>2, <1>3, <2>1
<1>5. host' = TextPage
  <2>1. MORE \in Ascii BY DEF MORE, Ascii
  <2>2. PageAfter[<<page, MORE>>] =
            IF page # TextPage /\ page.frame < Frames(page.program)
            THEN Page(page.program, page.frame + 1) ELSE TextPage
    BY <2>1, NextPage, Zenon
  <2>3. page.frame \in Nat /\ page.frame = Frames(page.program)
    BY <1>3, FrameRange DEF LastPage
  <2>4. ~(page.frame < Frames(page.program)) BY <2>3
  <2> QED BY <1>2, <1>3, <1>4, <2>2, <2>4
<1>6. rest' = rest \o Transmission[TextPage]
  <2> DEFINE text == Transmission[TextPage]
  <2>1. buffer \in Seq(Byte) /\ to_client \in Seq(Byte) /\ text \in Seq(Byte)
    BY TextBytes, Zenon DEF PInv, IInv, TypeOK
  <2>2. rest' = buffer \o (to_client \o text) BY <1>2, <1>5 DEF rest
  <2> HIDE DEF text
  <2>3. buffer \o (to_client \o text) = (buffer \o to_client) \o text BY <2>1
  <2> QED BY <2>2, <2>3 DEF rest, text
<1>7. LeavesAt(page, k)'
  <2>1. /\ ~is_downloading /\ typed = << >>
        /\ tele.frame_number = 0 /\ tele.filename = << >> /\ ~tele.end_of_file
        /\ ~tele.in_frame /\ tele.shift_offset = 0
        /\ tele.state \in {0, k}
        /\ tele.state \in 2 .. 4 => tele.control_code = END_OF_FRAME
    BY <1>1, Zenon DEF LeavesAt
  <2> QED BY <1>2, <1>3, <1>4, <1>5, <1>6, <2>1 DEF LeavesAt
<1> QED BY <1>7, Zenon DEF Leaves

\* The answer to a key when all of a page has been read.
LEMMA AnswerFollows ==
    ASSUME PInv, HostAnswers, Head(to_host) # LOGOFF, Follows
    PROVE  Follows'
<1> DEFINE new == PageAfter[<<host, Head(to_host)>>]
<1>1. /\ to_host # << >> /\ host' = new
      /\ to_client' = to_client \o Transmission[new] /\ to_host' = Tail(to_host)
      /\ UNCHANGED <<pc, buffer, tele, is_downloading, download_file, disk, typed>>
  BY DEF HostAnswers, program, download, download_file
<1>2. PICK pos \in 0 .. Size(host), m \in Nat : FollowsAt(pos, m) BY DEF Follows
<1>3. typed = << >> /\ rest = << >> /\ to_host' = << >>
  <2>1. KeysAt BY <1>2, Zenon DEF FollowsAt
  <2>2. typed \in Seq(Ascii) /\ to_host \in Seq(Ascii) BY Zenon DEF PInv, IInv, TypeOK
  <2>3. typed = << >> /\ Len(to_host) = 1 /\ rest = << >>
    <3> DEFINE a == Len(typed)
               b == Len(to_host)
    <3>1. a \in Nat /\ b \in Nat /\ b # 0 /\ a + b <= 1 BY <1>1, <2>1, <2>2 DEF KeysAt
    <3> HIDE DEF a, b
    <3>2. a = 0 /\ b = 1 BY <3>1
    <3> QED BY <1>1, <2>1, <2>2, <3>2 DEF a, b, KeysAt
  <2> DEFINE r == Tail(to_host)
  <2>4. r \in Seq(Ascii) /\ Len(r) = 0 BY <2>2, <2>3
  <2> HIDE DEF r
  <2>5. r = << >> BY <2>4
  <2> QED BY <1>1, <2>3, <2>5 DEF r
<1>4. pos = Size(host) /\ Quiet(tele) /\ m = (IF host = TextPage THEN 0 ELSE Whole(host))
  BY <1>2, <1>3, AllRead, Zenon
<1>5. Head(to_host) \in Ascii /\ host \in TelePages /\ Size(host) \in Nat /\ Size(host) >= 0
  <2>1. to_host \in Seq(Ascii) BY Zenon DEF PInv, IInv, TypeOK
  <2>2. host \in TelePages /\ Size(host) \in Nat BY RestType, Zenon DEF PInv
  <2> QED BY <1>1, <2>1, <2>2
<1> DEFINE more == host # TextPage /\ host.frame < Frames(host.program)
           next == Page(host.program, host.frame + 1)
<1>6. /\ new \in TelePages
      /\ new = TextPage \/ new.frame = 1 \/ (Head(to_host) = MORE /\ more /\ new = next)
      /\ Head(to_host) = MORE => new = IF more THEN next ELSE TextPage
      /\ next.program = host.program /\ next.frame = host.frame + 1
  BY <1>5, NextPage, Zenon
<1>7. rest' = From(Transmission[new], 0)
  <2>1. Transmission[new] \in Seq(Byte) /\ buffer \in Seq(Byte) /\ to_client \in Seq(Byte)
    BY <1>6, RestType, Zenon DEF PInv, IInv, TypeOK
  <2>2. buffer = << >> /\ to_client = << >>
    <3>1. Len(buffer) \in Nat /\ Len(to_client) \in Nat
          /\ Len(buffer \o to_client) = Len(buffer) + Len(to_client)
      BY <2>1
    <3>2. Len(buffer \o to_client) = 0 BY <1>3 DEF rest
    <3>3. Len(buffer) = 0 /\ Len(to_client) = 0 BY <3>1, <3>2
    <3> QED BY <2>1, <3>3
  <2>3. rest' = << >> \o (<< >> \o Transmission[new]) BY <1>1, <2>2 DEF rest
  <2> QED BY <2>1, <2>3, NothingMore, FromEnds, Zenon
<1>8. LastPage(host) => ~more
  <2>1. host # TextPage => host.frame \in Nat BY <1>5, FrameRange
  <2> QED BY <2>1 DEF LastPage
<1> HIDE DEF new, more, next
<1>9. TeleAt(tele, new, 0, 0)
  <2>1. tele.frame_number = 0 => tele.filename = << >> /\ ~tele.end_of_file
    BY <1>2, Zenon DEF FollowsAt, TeleAt
  <2>2. CASE new = TextPage
    <3>1. TextAt(tele, 0) BY <1>4, TextEnds, Zenon
    <3> QED BY <2>1, <2>2, <3>1, Zenon DEF TeleAt
  <2>3. CASE new # TextPage
    <3>1. tele.frame_number >= (IF new.frame > 1 THEN 1 ELSE 0)
      <4>1. tele.frame_number \in Nat BY RestType, FieldRanges, Zenon DEF PInv
      <4>2. CASE new.frame = 1 BY <4>1, <4>2
      <4>3. CASE new.frame # 1
        <5>1. more BY <1>6, <2>3, <4>3
        <5>2. host # TextPage /\ ~LastPage(host) BY <1>8, <5>1 DEF more
        <5>3. Counted(tele, host, pos) BY <1>2, <5>2, Zenon DEF FollowsAt, TeleAt, FrameAt
        <5>4. Size(host) >= 14 /\ Size(host) \in Nat BY <1>5, <5>2, FrameBytes, Zenon
        <5>5. tele.frame_number >= 1 BY <1>4, <4>1, <5>2, <5>3, <5>4 DEF Counted
        <5> QED BY <4>1, <5>5
      <4> QED BY <4>2, <4>3
    <3>2. Counted(tele, new, 0) BY <3>1, RestType, FieldRanges DEF Counted, PInv
    <3>3. Named(tele, new, 0) BY DEF Named
    <3>4. HeadAt(tele, 0) BY <1>4 DEF HeadAt, Quiet
    <3>5. PartAt(tele, new, 0, 0)
      <4>1. 0 <= 8 OBVIOUS
      <4> QED BY <3>4, <4>1, Zenon DEF PartAt
    <3> QED BY <2>1, <2>3, <3>2, <3>3, <3>5, Zenon DEF TeleAt, FrameAt
  <2> QED BY <2>2, <2>3
<1>10. pc = "decode" => new = TextPage /\ tele.frame_number = 0
  <2> SUFFICES ASSUME pc = "decode" PROVE new = TextPage /\ tele.frame_number = 0 OBVIOUS
  <2>1. to_host = <<MORE>> /\ LastPage(host) /\ tele.frame_number = 0
    BY <1>1, <1>2, Zenon DEF FollowsAt, KeysAt
  <2>2. Head(to_host) = MORE BY <2>1
  <2> QED BY <1>6, <1>8, <2>1, <2>2
<1>11. ASSUME is_downloading, Active, NEW p \in Programs, FileAt(p, pos, m)
       PROVE  FileAt(p, 0, 0)'
  <2>1. /\ Head(to_host) = MORE /\ pc # "decode" /\ ~tele.end_of_file
    <3>1. to_host \in {<< >>, <<MORE>>} /\ (pc = "decode" => to_host = << >>)
          /\ (tele.end_of_file => pc = "decode")
      BY <1>2, <1>11, Zenon DEF FollowsAt, DownloadAt
    <3> QED BY <1>1, <3>1
  <2>2. new = IF more THEN next ELSE TextPage BY <1>6, <2>1
  <2>3. /\ download_file = FileName(p)
        /\ host # TextPage /\ host.program = p
        /\ host.frame = 1 => tele.frame_number = 1 /\ disk[download_file] = << >>
        /\ host.frame > 1 =>
              /\ tele.frame_number = host.frame - (IF pos < 3 THEN 1 ELSE 0)
              /\ (tele.end_of_file <=> LastPage(host) /\ pos >= Size(host) - 5)
              /\ disk[download_file] = SubSeq(Content[p], 1, UpTo(p, host.frame - 2) + m)
    BY <1>11, Zenon DEF FileAt
  <2>4. host.frame \in 1 .. Frames(p) /\ Frames(p) \in 2 .. 10
    BY <1>5, <2>3, PageFrame
  <2>5. CASE host.frame = 1
    <3>1. tele.frame_number = 1 /\ disk[download_file] = << >> BY <2>3, <2>5
    <3>2. more /\ new = next BY <2>2, <2>3, <2>4, <2>5 DEF more
    <3>3. new.program = p /\ new.frame = 2 BY <1>6, <2>3, <2>5, <3>2
    <3>4. new # TextPage BY <3>3 DEF TextPage, Page
    <3>5. Size(new) \in Nat /\ Size(new) >= 14 BY <1>6, <3>4, FrameBytes, Zenon
    <3>6. << >> = SubSeq(Content[p], 1, UpTo(p, 0) + 0)
      <4>1. UpTo(p, 0) + 0 = 0 BY DEF UpTo
      <4>2. Content \in [Programs -> Seq(Byte)] BY HostAssumption, Zenon
      <4>3. Content[p] \in Seq(Byte) BY <4>2
      <4> DEFINE r == SubSeq(Content[p], 1, 0)
      <4>4. r \in Seq(Byte) /\ Len(r) = 0 BY <4>3
      <4> HIDE DEF r
      <4>5. r = << >> BY <4>4
      <4> QED BY <4>1, <4>5, Zenon DEF r
    <3>7. /\ 2 - (IF 0 < 3 THEN 1 ELSE 0) = 1 /\ 2 - 2 = 0 /\ 2 > 1 /\ 2 # 1
          /\ ~(0 >= Size(new) - 5)
      BY <3>5
    <3> DEFINE upto == UpTo(p, new.frame - 2) + 0
    <3>8. disk[download_file] = SubSeq(Content[p], 1, upto) BY <3>1, <3>3, <3>6, <3>7
    <3> HIDE DEF upto
    <3> QED BY <1>1, <2>1, <2>3, <3>1, <3>3, <3>4, <3>7, <3>8, Zenon DEF FileAt, upto
  <2>6. CASE host.frame # 1
    <3>1. host.frame \in Nat /\ host.frame > 1 BY <2>4, <2>6
    <3>2. ~LastPage(host)
      <4>1. pos >= Size(host) - 5 BY <1>4, <1>5
      <4> QED BY <2>1, <2>3, <3>1, <4>1, Zenon
    <3>3. more /\ new = next
      <4>1. host.program = p BY <2>3, <2>6
      <4>2. host.frame # Frames(p) BY <3>1, <3>2, <4>1 DEF LastPage
      <4> QED BY <2>2, <2>3, <2>4, <3>1, <4>1, <4>2 DEF more
    <3>4. new.program = p /\ new.frame = host.frame + 1 BY <1>6, <2>3, <2>6, <3>3
    <3>5. new # TextPage BY <3>1, <3>4 DEF TextPage, Page
    <3>6. Size(new) \in Nat /\ Size(new) >= 14 BY <1>6, <3>5, FrameBytes, Zenon
    <3>7. tele.frame_number = host.frame
      <4>1. ~(pos < 3)
        <5>1. Size(host) \in Nat /\ Size(host) >= 14 BY <1>5, <2>3, FrameBytes, Zenon
        <5> QED BY <1>4, <5>1
      <4> QED BY <2>3, <2>6, <3>1, <4>1
    <3>8. disk[download_file] = SubSeq(Content[p], 1, UpTo(p, new.frame - 2) + 0)
      <4> DEFINE before == UpTo(host.program, host.frame - 2)
                 upto == UpTo(host.program, host.frame - 1)
                 l == Len(PieceOf(host))
      <4>1. before \in Nat /\ l \in Nat /\ before + l = upto
        BY <1>5, <3>1, PieceIs, Zenon
      <4>2. host.program = p /\ m = l BY <1>4, <2>3, <2>6, <3>1 DEF Whole
      <4>3. disk[download_file] = SubSeq(Content[p], 1, before + m) BY <2>3, <2>6, <3>1, <4>2
      <4>4. new.frame - 2 = host.frame - 1 BY <3>1, <3>4
      <4>5. UpTo(p, new.frame - 2) = upto BY <4>2, <4>4
      <4> HIDE DEF before, upto, l
      <4>6. before + m = upto /\ upto + 0 = upto BY <4>1, <4>2
      <4> QED BY <4>3, <4>5, <4>6
    <3>9. /\ tele.frame_number = new.frame - (IF 0 < 3 THEN 1 ELSE 0)
          /\ new.frame > 1 /\ new.frame # 1 /\ ~(0 >= Size(new) - 5)
      BY <3>1, <3>4, <3>6, <3>7
    <3> QED BY <1>1, <2>1, <2>3, <3>4, <3>5, <3>8, <3>9, Zenon DEF FileAt
  <2> QED BY <2>5, <2>6
<1>12. DownloadAt(0, 0)'
  <2> SUFFICES ASSUME is_downloading, Active
               PROVE  \E p \in Programs : FileAt(p, 0, 0)'
    <3>1. tele.end_of_file => pc = "decode" \/ ~is_downloading \/ ~Active
      BY <1>2, Zenon DEF FollowsAt, DownloadAt
    <3>2. tele'.end_of_file => pc' = "decode" \/ ~is_downloading' \/ ~Active'
      BY <1>1, <3>1 DEF Active
    <3> QED BY <1>1, <1>3, <3>2 DEF DownloadAt, Active
  <2>1. PICK p \in Programs : FileAt(p, pos, m) BY <1>2, Zenon DEF FollowsAt, DownloadAt
  <2> QED BY <1>11, <2>1, Zenon
<1>13. KeysAt'
  <2>1. Len(typed') + Len(to_host') <= 1 BY <1>1, <1>3
  <2>2. typed' = << >> /\ to_host' = << >> BY <1>1, <1>3
  <2> QED BY <2>1, <2>2 DEF KeysAt
<1>14. FollowsAt(0, 0)'
  <2>1. TeleAt(tele, host, 0, 0)' BY <1>1, <1>9
  <2>2. pc' = "decode" => host' = TextPage /\ tele'.frame_number = 0 BY <1>1, <1>10
  <2>3. rest' = From(Transmission[host'], 0) BY <1>1, <1>7
  <2> QED BY <1>12, <1>13, <2>1, <2>2, <2>3, Zenon DEF FollowsAt
<1>15. 0 \in 0 .. Size(host')
  <2>1. Size(new) \in Nat BY <1>6, RestType, Zenon DEF PInv
  <2> QED BY <1>1, <2>1
<1> QED BY <1>14, <1>15 DEF Follows

\* An answer of the host, or the connection closed after a logoff.
LEMMA HostAnswersPlace ==
    ASSUME PInv, HostAnswers
    PROVE  PatientInv'
<1>1. /\ to_host # << >> /\ to_host' = Tail(to_host)
      /\ UNCHANGED <<pc, buffer, tele, can_download, is_downloading, download_file, disk, typed>>
  BY DEF HostAnswers, program, download, download_file
<1>2. OfferInv' BY <1>1 DEF PInv, PatientInv, OfferInv
<1>3. FilesAreFaithful' BY <1>1 DEF PInv, PatientInv, FilesAreFaithful
<1>4. (buffer # << >> => pc = "decode")' BY <1>1 DEF PInv, PatientInv
<1>5. ASSUME pc # "exited", Head(to_host) # LOGOFF PROVE Follows' \/ Leaves'
  <2>1. Follows \/ Leaves BY <1>5, Zenon DEF PInv, PatientInv
  <2> QED BY <1>5, <2>1, AnswerFollows, AnswerLeaves, Zenon
<1>6. ASSUME pc # "exited", Head(to_host) = LOGOFF PROVE PatientInv'
  <2>1. UNCHANGED <<host, to_client>> BY <1>6 DEF HostAnswers
  <2>2. to_host' = << >>
    <3>1. Len(to_host) <= 1
      <4>1. typed \in Seq(Ascii) /\ to_host \in Seq(Ascii) BY Zenon DEF PInv, IInv, TypeOK
      <4>2. CASE Follows
        <5>1. Len(typed) + Len(to_host) <= 1
          BY <4>2, Zenon DEF Follows, FollowsAt, KeysAt
        <5> DEFINE a == Len(typed)
                   b == Len(to_host)
        <5>2. a \in Nat /\ b \in Nat /\ a + b <= 1 BY <4>1, <5>1
        <5> HIDE DEF a, b
        <5>3. b <= 1 BY <5>2
        <5> QED BY <5>3 DEF b
      <4>3. CASE Leaves
        <5>1. to_host = << >> \/ to_host = <<MORE>>
          BY <4>3, Zenon DEF Leaves, LeavesAt
        <5>2. Len(<< >>) = 0 /\ Len(<<MORE>>) = 1 OBVIOUS
        <5>3. Len(to_host) \in {0, 1} BY <5>1, <5>2, Zenon
        <5> DEFINE n == Len(to_host)
        <5>4. n \in {0, 1} BY <5>3
        <5> HIDE DEF n
        <5>5. n <= 1 BY <5>4
        <5> QED BY <5>5 DEF n
      <4>4. Follows \/ Leaves BY <1>6, Zenon DEF PInv, PatientInv
      <4> QED BY <4>2, <4>3, <4>4, Zenon
    <3> DEFINE r == Tail(to_host)
    <3>2. to_host \in Seq(Ascii) BY Zenon DEF PInv, IInv, TypeOK
    <3>3. r \in Seq(Ascii) /\ Len(r) = 0
      <4>1. Len(to_host) = 1
        <5> DEFINE n == Len(to_host)
        <5>1. n \in Nat /\ n # 0 /\ n <= 1 BY <1>1, <3>1, <3>2
        <5> HIDE DEF n
        <5>2. n = 1 BY <5>1
        <5> QED BY <5>2 DEF n
      <4> QED BY <3>2, <4>1
    <3> HIDE DEF r
    <3>4. r = << >> BY <3>3
    <3> QED BY <1>1, <3>4 DEF r
  <2>3. typed' \in {typed, << >>} /\ to_host' \in {to_host, << >>} BY <1>1, <2>2
  <2> QED BY <1>1, <1>2, <2>1, <2>3, Paces
<1>7. pc' = pc BY <1>1
<1> QED BY <1>2, <1>3, <1>4, <1>5, <1>6, <1>7 DEF PatientInv

\* Every step of a session with a patient user keeps the invariant.
LEMMA PatientNextInv == PInv /\ [PatientNext]_vars => PInv'
<1> SUFFICES ASSUME PInv, [PatientNext]_vars PROVE PInv' OBVIOUS
<1>1. [Next]_vars
  <2>1. ASSUME NEW key \in Keys, Patient(key) /\ TypeKey(key) PROVE Next
    BY <2>1, Zenon DEF Next
  <2> QED BY <2>1, Zenon DEF PatientNext, Next
<1>2. IInv' BY <1>1, NextInv DEF PInv
<1>3. PatientInv'
  <2>1. CASE Program
    <3>1. CASE \/ Test \/ Poll \/ SkipSocket \/ SkipKey \/ ServeTimer
               \/ HeaderLookedFor \/ CloseFails \/ KeepKey
      BY <3>1, ProgramPacesPlace, Zenon
    <3>2. CASE ReadSocket BY <3>2, ReadSocketPlace, Zenon
    <3>3. CASE DecodeByte BY <3>3, DecodeBytePlace, Zenon
    <3>4. CASE FrameContinues BY <3>4, FrameContinuesPlace, Zenon
    <3>5. CASE FileEnds BY <3>5, FileEndsPlace, Zenon
    <3>6. CASE StartDownload BY <3>6, StartDownloadPlace, Zenon
    <3>7. CASE OpenFails \/ SendKey BY <3>7, OtherKeysPlace, Zenon
    <3>8. CASE Cleanup BY <3>8, CleanupPlace, Zenon
    <3> QED BY <2>1, <3>1, <3>2, <3>3, <3>4, <3>5, <3>6, <3>7, <3>8, Zenon DEF Program
  <2>2. CASE HostAnswers BY <2>2, HostAnswersPlace, Zenon
  <2>3. CASE \E key \in Keys : Patient(key) /\ TypeKey(key)
    BY <2>3, PatientKeyPlace, Zenon
  <2>4. CASE TimerExpires \/ Signal \/ HostCloses \/ UNCHANGED vars
    BY <2>4, OutsidePacesPlace, Zenon
  <2> QED BY <2>1, <2>2, <2>3, <2>4, Zenon DEF PatientNext
<1> QED BY <1>2, <1>3 DEF PInv

\* At first the page of text is on its way.
LEMMA InitPatient == Init => PInv
<1> SUFFICES ASSUME Init PROVE PInv OBVIOUS
<1>1. IInv BY InitInv
<1>2. /\ pc = "test" /\ buffer = << >> /\ tele = TeleReset
      /\ can_download = FALSE /\ is_downloading = FALSE
      /\ disk = << >> /\ to_client = Transmission[HomePage]
      /\ to_host = << >> /\ typed = << >> /\ host = HomePage
  BY DEF Init
<1>3. host = TextPage /\ to_client = Transmission[TextPage]
  <2>1. HomePage = TextPage BY HostAssumption, Zenon
  <2> QED BY <1>2, <2>1
<1>4. rest = From(Transmission[TextPage], 0)
  <2>1. Transmission[TextPage] \in Seq(Byte) BY TextBytes, Zenon
  <2>2. rest = << >> \o Transmission[TextPage] BY <1>2, <1>3 DEF rest
  <2> QED BY <2>1, <2>2, NothingMore, FromEnds, Zenon
<1>5. TeleAt(tele, TextPage, 0, 0)
  <2>1. Quiet(tele) /\ tele.filename = << >> /\ ~tele.end_of_file
    BY <1>2 DEF Quiet, TeleReset
  <2>2. TextAt(tele, 0) BY <2>1, TextEnds, Zenon
  <2> QED BY <2>1, <2>2, Zenon DEF TeleAt
<1>6. KeysAt
  <2>1. Len(typed) + Len(to_host) <= 1 BY <1>2
  <2> QED BY <1>2, <2>1 DEF KeysAt
<1>7. DownloadAt(0, 0) BY <1>2, Zenon DEF DownloadAt
<1>8. FollowsAt(0, 0)
  <2>1. pc # "decode" BY <1>2
  <2> QED BY <1>3, <1>4, <1>5, <1>6, <1>7, <2>1 DEF FollowsAt
<1>9. 0 \in 0 .. Size(host)
  <2>1. Size(host) \in Nat BY <1>1, RestType, Zenon
  <2> QED BY <2>1
<1>10. Follows BY <1>8, <1>9 DEF Follows
<1>11. FilesAreFaithful
  <2>1. DOMAIN disk = {} BY <1>2
  <2> QED BY <2>1, Zenon DEF FilesAreFaithful
<1> QED BY <1>1, <1>2, <1>10, <1>11 DEF PInv, PatientInv, OfferInv

\* A key that a download sends goes out between two frames.
LEMMA KeysBetween == PInv => AsksBetweenFrames
<1> SUFFICES ASSUME PInv, is_downloading, to_host # << >>, pc # "exited"
             PROVE  Len(to_host) = 1 /\ to_client = << >> /\ buffer = << >>
  BY DEF AsksBetweenFrames
<1>1. PICK pos \in 0 .. Size(host), m \in Nat : FollowsAt(pos, m)
  BY Downloads, Zenon DEF Follows
<1>2. KeysAt BY <1>1, Zenon DEF FollowsAt
<1>3. /\ typed \in Seq(Ascii) /\ to_host \in Seq(Ascii)
      /\ buffer \in Seq(Byte) /\ to_client \in Seq(Byte)
  BY Zenon DEF PInv, IInv, TypeOK
<1>4. Len(to_host) = 1
  <2> DEFINE a == Len(typed)
             b == Len(to_host)
  <2>1. a \in Nat /\ b \in Nat /\ b # 0 /\ a + b <= 1 BY <1>2, <1>3 DEF KeysAt
  <2> HIDE DEF a, b
  <2>2. b = 1 BY <2>1
  <2> QED BY <2>2 DEF b
<1>5. rest = << >> BY <1>2 DEF KeysAt
<1>6. buffer = << >> /\ to_client = << >>
  <2>1. Len(buffer \o to_client) = Len(buffer) + Len(to_client)
        /\ Len(buffer) \in Nat /\ Len(to_client) \in Nat
    BY <1>3
  <2>2. Len(buffer \o to_client) = 0 BY <1>5 DEF rest
  <2>3. Len(buffer) = 0 /\ Len(to_client) = 0 BY <2>1, <2>2
  <2> QED BY <1>3, <2>3
<1> QED BY <1>4, <1>6

-----------------------------------------------------------------------------
(* The checksum of a frame.                                                *)

\* The exclusive or of the first n characters after |A: the bits that are in an
\* odd number of them.
OddOf(page, n, w) == Cardinality({i \in 1 .. n : Bit(Code(page, 3 + i), w) = 1}) % 2
SumOf(page, n) ==
    OddOf(page, n, 1) + 2 * OddOf(page, n, 2) + 4 * OddOf(page, n, 4)
        + 8 * OddOf(page, n, 8) + 16 * OddOf(page, n, 16) + 32 * OddOf(page, n, 32)
        + 64 * OddOf(page, n, 64)

\* The sum at the end of a frame, and what has come of its digits after k of them.
FrameSum(page) == SumOf(page, Size(page) - 8)
Received(page, k) ==
    LET digit(i) == Code(page, (Size(page) - 3) + i) - 48
    IN  CASE k = 0 -> 0
          [] k = 1 -> 100 * digit(1)
          [] k = 2 -> 100 * digit(1) + 10 * digit(2)
          [] k = 3 -> 100 * digit(1) + 10 * digit(2) + digit(3)

\* The checks by the place, from |A on.  A bar is summed with the code after it.
SumAt(t, page, pos) ==
    /\ (t.state = 1 <=> Code(page, pos) = CHAR_BAR)
    /\ pos <= Size(page) - 5 =>
          t.check.running_checksum = SumOf(page, (pos - 3) - (IF t.state = 1 THEN 1 ELSE 0))
    /\ pos >= Size(page) - 4 => t.check.running_checksum = FrameSum(page)
    /\ pos >= Size(page) - 3 => t.check.checksum = Received(page, pos - (Size(page) - 3))

\* The place, by what is left.
here == Size(host) - Len(rest)

\* The invariant of the checks, while the frame is counted.
SumInv ==
    /\ ~tele.check.parity_error
    /\ pc # "exited" /\ host # TextPage /\ tele.frame_number # 0 /\ here >= 3 =>
          SumAt(tele, host, here)
    /\ ChecksAgree

\* The weights of the bits of a character.
Weights == {1, 2, 4, 8, 16, 32, 64}

\* A bit is 0 or 1.
LEMMA BitIs ==
    ASSUME NEW a \in Ascii, NEW w \in Weights
    PROVE  Bit(a, w) \in {0, 1}
<1>1. a \div w \in Int BY SMT DEF Ascii, Weights
<1> DEFINE x == a \div w
<1> HIDE DEF x
<1>2. x \in Int BY <1>1 DEF x
<1>3. x % 2 \in {0, 1} BY <1>2
<1> QED BY <1>3 DEF Bit, x

\* The bits of a number are those that it is made of.
LEMMA BitsOf ==
    ASSUME NEW a \in {0, 1}, NEW b \in {0, 1}, NEW c \in {0, 1}, NEW d \in {0, 1},
           NEW e \in {0, 1}, NEW f \in {0, 1}, NEW g \in {0, 1}
    PROVE  LET s == a + 2 * b + 4 * c + 8 * d + 16 * e + 32 * f + 64 * g
           IN  /\ s \in Ascii
               /\ Bit(s, 1) = a /\ Bit(s, 2) = b /\ Bit(s, 4) = c /\ Bit(s, 8) = d
               /\ Bit(s, 16) = e /\ Bit(s, 32) = f /\ Bit(s, 64) = g
<1> DEFINE s == a + 2 * b + 4 * c + 8 * d + 16 * e + 32 * f + 64 * g
<1>0. s \in Ascii BY SMT DEF Ascii
<1>1. s % 2 = a BY SMT
<1>2. (s \div 2) % 2 = b BY SMT
<1>3. (s \div 4) % 2 = c BY SMT
<1>4. (s \div 8) % 2 = d BY SMT
<1>5. (s \div 16) % 2 = e BY SMT
<1>6. (s \div 32) % 2 = f BY SMT
<1>7. (s \div 64) % 2 = g BY SMT
<1>8. s \div 1 = s BY SMT
<1> HIDE DEF s
<1> QED BY <1>0, <1>1, <1>2, <1>3, <1>4, <1>5, <1>6, <1>7, <1>8, Zenon DEF Bit, s

\* One more character: a bit of it changes whether there is an odd number.
LEMMA OddGrows ==
    ASSUME NEW page, NEW n \in Nat, NEW w \in Weights
    PROVE  /\ OddOf(page, n, w) \in {0, 1}
           /\ OddOf(page, 0, w) = 0
           /\ Code(page, 4 + n) \in Ascii =>
                 OddOf(page, n + 1, w) = (OddOf(page, n, w) + Bit(Code(page, 4 + n), w)) % 2
<1> DEFINE has(i)  == Bit(Code(page, 3 + i), w) = 1
           ones(k) == {i \in 1 .. k : has(i)}
<1>1. ASSUME NEW k \in Nat
      PROVE  IsFiniteSet(ones(k)) /\ Cardinality(ones(k)) \in Nat
  <2>1. IsFiniteSet(1 .. k) BY FS_Interval
  <2>2. ones(k) \subseteq 1 .. k OBVIOUS
  <2> HIDE DEF ones
  <2> QED BY <2>1, <2>2, FS_Subset, FS_CardinalityType
<1>2. OddOf(page, n, w) \in {0, 1}
  <2> DEFINE x == Cardinality(ones(n))
  <2>1. x \in Nat BY <1>1
  <2>2. OddOf(page, n, w) = x % 2 BY Zenon DEF OddOf
  <2> HIDE DEF x
  <2> QED BY <2>1, <2>2
<1>3. OddOf(page, 0, w) = 0
  <2>1. ones(0) = {} OBVIOUS
  <2>2. Cardinality(ones(0)) = 0 BY <2>1, FS_EmptySet
  <2>3. OddOf(page, 0, w) = Cardinality(ones(0)) % 2 BY Zenon DEF OddOf
  <2> HIDE DEF ones
  <2> QED BY <2>2, <2>3
<1>4. ASSUME Code(page, 4 + n) \in Ascii
      PROVE  OddOf(page, n + 1, w) = (OddOf(page, n, w) + Bit(Code(page, 4 + n), w)) % 2
  <2> DEFINE bit == Bit(Code(page, 4 + n), w)
             x == Cardinality(ones(n))
             y == Cardinality(ones(n + 1))
  <2>1. bit \in {0, 1} BY <1>4, BitIs
  <2>2. 3 + (n + 1) = 4 + n OBVIOUS
  <2>3. has(n + 1) <=> bit = 1 BY <2>2
  <2>4. ASSUME bit = 0 PROVE y = x
    <3> HIDE DEF has
    <3>1. ones(n + 1) = ones(n) BY <2>3, <2>4
    <3> QED BY <3>1
  <2>5. ASSUME bit = 1 PROVE y = x + 1
    <3> HIDE DEF has
    <3>1. ones(n + 1) = ones(n) \cup {n + 1} BY <2>3, <2>5
    <3>2. n + 1 \notin ones(n) OBVIOUS
    <3> HIDE DEF ones
    <3>3. IsFiniteSet(ones(n)) BY <1>1
    <3>4. Cardinality(ones(n) \cup {n + 1}) = Cardinality(ones(n)) + 1
      BY <3>2, <3>3, FS_AddElement
    <3> QED BY <3>1, <3>4
  <2>6. y = x + bit /\ x \in Nat
    <3>1. x \in Nat BY <1>1
    <3>2. bit = 0 => y = x BY <2>4
    <3>3. bit = 1 => y = x + 1 BY <2>5
    <3> HIDE DEF x, y, bit
    <3> QED BY <2>1, <3>1, <3>2, <3>3
  <2>7. OddOf(page, n, w) = x % 2 /\ OddOf(page, n + 1, w) = y % 2 BY Zenon DEF OddOf
  <2> HIDE DEF x, y, bit
  <2>8. (x + bit) % 2 = ((x % 2) + bit) % 2 BY <2>1, <2>6, SMT
  <2> QED BY <2>6, <2>7, <2>8 DEF bit
<1> QED BY <1>2, <1>3, <1>4

\* vt_tele_decode(): summing a character is the exclusive or.
LEMMA SumGrows ==
    ASSUME NEW page, NEW n \in Nat
    PROVE  /\ SumOf(page, n) \in Ascii /\ SumOf(page, 0) = 0
           /\ Code(page, 4 + n) \in Ascii =>
                 Xor(SumOf(page, n), Code(page, 4 + n)) = SumOf(page, n + 1)
<1> DEFINE odd(k, w) == OddOf(page, k, w)
           s(k) == SumOf(page, k)
<1>1. 0 \in Nat /\ n + 1 \in Nat OBVIOUS
<1>2. \A w \in Weights : odd(0, w) = 0 /\ odd(n, w) \in {0, 1}
  BY OddGrows, Zenon
<1>3. /\ 1 \in Weights /\ 2 \in Weights /\ 4 \in Weights /\ 8 \in Weights
      /\ 16 \in Weights /\ 32 \in Weights /\ 64 \in Weights
  BY DEF Weights
<1>4. \A k : s(k) = odd(k, 1) + 2 * odd(k, 2) + 4 * odd(k, 4) + 8 * odd(k, 8)
                   + 16 * odd(k, 16) + 32 * odd(k, 32) + 64 * odd(k, 64)
  BY Zenon DEF SumOf
<1>5. /\ s(n) \in Ascii
      /\ Bit(s(n), 1) = odd(n, 1) /\ Bit(s(n), 2) = odd(n, 2) /\ Bit(s(n), 4) = odd(n, 4)
      /\ Bit(s(n), 8) = odd(n, 8) /\ Bit(s(n), 16) = odd(n, 16)
      /\ Bit(s(n), 32) = odd(n, 32) /\ Bit(s(n), 64) = odd(n, 64)
  <2> HIDE DEF odd, s
  <2>1. /\ odd(n, 1) \in {0, 1} /\ odd(n, 2) \in {0, 1} /\ odd(n, 4) \in {0, 1}
        /\ odd(n, 8) \in {0, 1} /\ odd(n, 16) \in {0, 1} /\ odd(n, 32) \in {0, 1}
        /\ odd(n, 64) \in {0, 1}
    BY <1>2, <1>3, Zenon
  <2> QED BY <1>4, <2>1, BitsOf
<1>6. s(0) = 0
  <2>1. /\ odd(0, 1) = 0 /\ odd(0, 2) = 0 /\ odd(0, 4) = 0 /\ odd(0, 8) = 0
        /\ odd(0, 16) = 0 /\ odd(0, 32) = 0 /\ odd(0, 64) = 0
    BY <1>2, <1>3, Zenon
  <2> HIDE DEF odd, s
  <2> QED BY <1>4, <2>1
<1>7. ASSUME Code(page, 4 + n) \in Ascii
      PROVE  Xor(s(n), Code(page, 4 + n)) = s(n + 1)
  <2> DEFINE c == Code(page, 4 + n)
             digit(w) == w * ((Bit(s(n), w) + Bit(c, w)) % 2)
  <2>1. \A w \in Weights : odd(n + 1, w) = (odd(n, w) + Bit(c, w)) % 2
    BY <1>7, OddGrows, Zenon
  <2>2. \A w \in Weights : Bit(s(n), w) = odd(n, w)
    BY <1>5, Zenon DEF Weights
  <2>3. \A w \in Weights : digit(w) = w * odd(n + 1, w)
    BY <2>1, <2>2, Zenon
  <2>4. Xor(s(n), c) = digit(1) + digit(2) + digit(4) + digit(8) + digit(16) + digit(32)
                           + digit(64)
    BY Zenon DEF Xor
  <2>5. odd(n + 1, 1) \in {0, 1} BY <1>1, <1>3, OddGrows, Zenon
  <2> HIDE DEF odd, s, c, digit
  <2>6. /\ digit(1) = odd(n + 1, 1) /\ digit(2) = 2 * odd(n + 1, 2)
        /\ digit(4) = 4 * odd(n + 1, 4) /\ digit(8) = 8 * odd(n + 1, 8)
        /\ digit(16) = 16 * odd(n + 1, 16) /\ digit(32) = 32 * odd(n + 1, 32)
        /\ digit(64) = 64 * odd(n + 1, 64)
    <3>1. digit(1) = 1 * odd(n + 1, 1) BY <1>3, <2>3, Zenon
    <3>2. digit(1) = odd(n + 1, 1) BY <2>5, <3>1
    <3> QED BY <1>3, <2>3, <3>2, Zenon
  <2>7. s(n + 1) = digit(1) + digit(2) + digit(4) + digit(8) + digit(16) + digit(32)
                       + digit(64)
    BY <1>4, <2>6, Zenon
  <2> QED BY <2>4, <2>7 DEF c
<1> QED BY <1>5, <1>6, <1>7

\* The bytes that are summed, and the digits of their sum.
LEMMA FrameSumIs ==
    ASSUME NEW page \in TelePages, page # TextPage
    PROVE  FrameSum(page) \in Ascii /\ Received(page, 3) = FrameSum(page)
<1> DEFINE size == Size(page)
           data == [i \in 1 .. size - 14 |-> Code(page, 9 + i)]
           frame == page.frame
           inner == Inner(frame, data)
           w == <<12>> \o Frame(frame, data)
           code(i) == Code(page, i)
<1>1. size \in Nat /\ size >= 14 /\ data \in Seq(Ascii) /\ Len(data) = size - 14
  BY FrameData, Zenon
<1>2. \A i \in 1 .. size : code(i) = w[i]
  BY FrameData, Zenon
<1>3. frame \in 1 .. 10 BY FrameRange, Zenon
<1>4. /\ inner \in Seq(Ascii) /\ Len(inner) = 6 + Len(data)
      /\ \A i \in 1 .. 6 + Len(data) : w[3 + i] = inner[i]
      /\ \A i \in 1 .. 3 : w[11 + Len(data) + i] = Digits(Checksum(inner))[i]
  <2> HIDE DEF data, frame
  <2> QED BY <1>1, <1>3, FrameLaidOut
<1> HIDE DEF size, data, frame, inner, w, code
<1>5. /\ Len(inner) = size - 8 /\ size - 8 \in Nat
      /\ \A i \in 1 .. size - 8 : code(3 + i) = inner[i]
      /\ \A i \in 1 .. 3 : code((size - 3) + i) = Digits(Checksum(inner))[i]
  <2>1. \A i \in 1 .. 6 + Len(data) : 3 + i \in 1 .. size BY <1>1
  <2>2. \A i \in 1 .. 3 : (size - 3) + i \in 1 .. size /\ 11 + Len(data) + i = (size - 3) + i
    BY <1>1
  <2>3. 6 + Len(data) = size - 8 /\ size - 8 \in Nat BY <1>1
  <2>4. \A i \in 1 .. size - 8 : code(3 + i) = inner[i] BY <1>2, <1>4, <2>1, <2>3
  <2>5. \A i \in 1 .. 3 : code((size - 3) + i) = Digits(Checksum(inner))[i]
    BY <1>2, <1>4, <2>2
  <2> QED BY <1>4, <2>3, <2>4, <2>5
<1>6. FrameSum(page) = Checksum(inner)
  <2> DEFINE ones(v) == {i \in 1 .. size - 8 : Bit(code(3 + i), v) = 1}
             odds(v) == {i \in DOMAIN inner : Bit(inner[i], v) = 1}
  <2>1. DOMAIN inner = 1 .. size - 8 BY <1>4, <1>5
  <2>2. \A v : ones(v) = odds(v) BY <1>5, <2>1
  <2>3. \A v : OddOf(page, size - 8, v) = Cardinality(ones(v)) % 2
    BY Zenon DEF OddOf, code
  <2> DEFINE odd(v) == Cardinality(odds(v)) % 2
  <2>4. \A v : OddOf(page, size - 8, v) = odd(v) BY <2>2, <2>3, Zenon
  <2>5. FrameSum(page) = odd(1) + 2 * odd(2) + 4 * odd(4) + 8 * odd(8) + 16 * odd(16)
                             + 32 * odd(32) + 64 * odd(64)
    <3> DEFINE sums(v) == OddOf(page, size - 8, v)
    <3>1. FrameSum(page) = sums(1) + 2 * sums(2) + 4 * sums(4) + 8 * sums(8)
                               + 16 * sums(16) + 32 * sums(32) + 64 * sums(64)
      BY Zenon DEF FrameSum, SumOf, size
    <3>2. \A v : sums(v) = odd(v) BY <2>4, Zenon
    <3> HIDE DEF sums, odd
    <3> QED BY <3>1, <3>2, Zenon
  <2>6. Checksum(inner) = odd(1) + 2 * odd(2) + 4 * odd(4) + 8 * odd(8) + 16 * odd(16)
                              + 32 * odd(32) + 64 * odd(64)
    BY Zenon DEF Checksum
  <2> QED BY <2>5, <2>6, Zenon
<1> DEFINE sum == Checksum(inner)
<1>7. sum \in Ascii BY <1>4, ChecksumType
<1> HIDE DEF sum
<1>8. /\ code((size - 3) + 1) = 48 + sum \div 100
      /\ code((size - 3) + 2) = 48 + ((sum \div 10) % 10)
      /\ code((size - 3) + 3) = 48 + (sum % 10)
  <2>1. Digits(sum) = <<48 + sum \div 100, 48 + ((sum \div 10) % 10), 48 + (sum % 10)>>
    BY DEF Digits
  <2>2. \A i \in 1 .. 3 : code((size - 3) + i) = Digits(sum)[i] BY <1>5 DEF sum
  <2>3. 1 \in 1 .. 3 /\ 2 \in 1 .. 3 /\ 3 \in 1 .. 3 OBVIOUS
  <2>4. /\ code((size - 3) + 1) = Digits(sum)[1] /\ code((size - 3) + 2) = Digits(sum)[2]
        /\ code((size - 3) + 3) = Digits(sum)[3]
    BY <2>2, <2>3, Zenon
  <2>5. /\ Digits(sum)[1] = 48 + sum \div 100 /\ Digits(sum)[2] = 48 + ((sum \div 10) % 10)
        /\ Digits(sum)[3] = 48 + (sum % 10)
    BY <2>1
  <2> QED BY <2>4, <2>5, Zenon
<1>9. Received(page, 3) = sum
  <2> DEFINE digit(i) == code((size - 3) + i) - 48
  <2>1. Received(page, 3) = 100 * digit(1) + 10 * digit(2) + digit(3)
    <3>1. 3 # 0 /\ 3 # 1 /\ 3 # 2 OBVIOUS
    <3> QED BY <3>1, Zenon DEF Received, code, size
  <2>2. /\ digit(1) = (48 + sum \div 100) - 48 /\ digit(2) = (48 + ((sum \div 10) % 10)) - 48
        /\ digit(3) = (48 + (sum % 10)) - 48
    BY <1>8, Zenon
  <2> HIDE DEF digit
  <2>3. /\ 100 * ((48 + sum \div 100) - 48) + 10 * ((48 + ((sum \div 10) % 10)) - 48)
              + ((48 + (sum % 10)) - 48) = sum
    BY <1>7, SMT DEF Ascii
  <2>4. Received(page, 3) =
            100 * ((48 + sum \div 100) - 48) + 10 * ((48 + ((sum \div 10) % 10)) - 48)
              + ((48 + (sum % 10)) - 48)
    BY <2>1, <2>2, Zenon
  <2> QED BY <2>3, <2>4, Zenon
<1> QED BY <1>6, <1>7, <1>9 DEF sum

\* No code after a bar is a bar, |A or |Z within the encoding of a character.
LEMMA AfterBar ==
    ASSUME NEW c \in Byte, NEW j \in 1 .. Len(Encoded(c)) - 1, Encoded(c)[j] = CHAR_BAR
    PROVE  Encoded(c)[j + 1] \notin {CHAR_BAR, START_FRAME, END_OF_FRAME}
<1> DEFINE e == Encoded(c)
           code == ShiftOf(c)
           d == c - ShiftOffset(code)
<1>0. \A x \in 32 .. 126 :
          LET y == Symbol(x)
          IN  \/ Len(y) = 1 /\ y[1] # CHAR_BAR
              \/ Len(y) = 2 /\ (y[2] = BAR \/ y[2] = CHAR_THREE_QUARTERS)
  BY SymbolIs, Zenon
<1> USE DEF CHAR_BAR, START_FRAME, END_OF_FRAME, BAR, CHAR_THREE_QUARTERS, END_OF_LINE, CR
<1>1. CASE c = CR
  <2>1. Len(e) = 2 /\ e[1] = CHAR_BAR /\ e[2] = END_OF_LINE BY <1>1, EncodedIs, Zenon
  <2> HIDE DEF e
  <2>2. j = 1 BY <2>1 DEF e
  <2> QED BY <2>1, <2>2 DEF e
<1>2. CASE c \in 32 .. 126
  <2> DEFINE y == Symbol(c)
  <2>1. e = y BY <1>2, EncodedIs, Zenon
  <2>2. \/ Len(y) = 1
        \/ Len(y) = 2 /\ (y[2] = BAR \/ y[2] = CHAR_THREE_QUARTERS)
    BY <1>0, <1>2, ZenonT(30)
  <2> DEFINE l == Len(y)
  <2>3. j \in 1 .. l - 1 BY <2>1, Zenon
  <2> HIDE DEF l
  <2>4. l = 1 \/ l = 2 BY <2>2, Zenon DEF l
  <2>5. j = 1 /\ l # 1 BY <2>3, <2>4
  <2>6. y[2] = BAR \/ y[2] = CHAR_THREE_QUARTERS BY <2>2, <2>5, Zenon DEF l
  <2> HIDE DEF e, y
  <2>7. e[j + 1] = y[2] BY <2>1, <2>5
  <2> QED BY <2>6, <2>7 DEF e
<1>3. CASE IsShifted(c)
  <2> DEFINE y == Symbol(d)
             l == Len(y)
  <2>1. code \in 49 .. 53 /\ d \in 32 .. 126 /\ Shifted(e, code, y)
    BY <1>3, EncodedIs, Zenon
  <2>2. \/ l = 1 /\ y[1] # CHAR_BAR
        \/ l = 2 /\ (y[2] = BAR \/ y[2] = CHAR_THREE_QUARTERS)
    <3> HIDE DEF d
    <3>1. \/ Len(Symbol(d)) = 1 /\ Symbol(d)[1] # CHAR_BAR
          \/ Len(Symbol(d)) = 2 /\ (Symbol(d)[2] = BAR \/ Symbol(d)[2] = CHAR_THREE_QUARTERS)
      BY <1>0, <2>1, ZenonT(30)
    <3> QED BY <3>1, ZenonT(30)
  <2> HIDE DEF e, y, code, d
  <2>3. /\ Len(e) = 4 + l /\ e[1] = CHAR_BAR /\ e[2] = code
        /\ \A i \in 1 .. l : e[2 + i] = y[i]
        /\ e[3 + l] = CHAR_BAR /\ e[4 + l] = 48
    BY <2>1, Zenon DEF Shifted, l
  <2>4. j \in 1 .. Len(e) - 1 /\ e[j] = CHAR_BAR BY DEF e
  <2> HIDE DEF l
  <2>5. CASE l = 1
    <3>1. e[3] = y[1] /\ e[4] = CHAR_BAR /\ e[5] = 48 BY <2>3, <2>5
    <3>2. j \in {1, 2, 3, 4} BY <2>3, <2>4, <2>5
    <3>3. j \in {1, 4} BY <2>1, <2>2, <2>3, <2>4, <2>5, <3>1, <3>2
    <3>4. CASE j = 1
      <4>1. e[j + 1] = code BY <2>3, <3>4
      <4>2. code \notin {CHAR_BAR, START_FRAME, END_OF_FRAME} BY <2>1
      <4> QED BY <4>1, <4>2, Zenon DEF e
    <3>5. CASE j = 4
      <4>1. e[j + 1] = 48 BY <3>1, <3>5
      <4> QED BY <4>1 DEF e
    <3> QED BY <3>3, <3>4, <3>5
  <2>6. CASE l = 2
    <3>1. e[3] = y[1] /\ e[4] = y[2] /\ e[5] = CHAR_BAR /\ e[6] = 48 BY <2>3, <2>6
    <3>2. j \in {1, 2, 3, 4, 5} BY <2>3, <2>4, <2>6
    <3>3. j \in {1, 3, 5} BY <2>1, <2>2, <2>3, <2>4, <2>6, <3>1, <3>2
    <3> QED BY <2>1, <2>2, <2>3, <2>6, <3>1, <3>3 DEF e
  <2> QED BY <2>2, <2>5, <2>6
<1> QED BY <1>1, <1>2, <1>3 DEF IsShifted

\* What comes next between |A and |Z.
Within(t, b) ==
    \/ t.state = 0 /\ (t.in_frame \/ b = CHAR_BAR)
    \/ t.state = 1 /\ b \notin {CHAR_BAR, START_FRAME, END_OF_FRAME}
    \/ t.state = 2 /\ t.control_code = FRAME_LETTER /\ b # CHAR_BAR
LEMMA WithinIs ==
    ASSUME NEW page \in TelePages, page # TextPage, NEW t,
           NEW pos \in Nat, pos >= 3, pos <= Size(page) - 5, NEW m \in Nat,
           PartAt(t, page, pos, m)
    PROVE  Within(t, Code(page, pos + 1))
<1> DEFINE size == Size(page)
           code(i) == Code(page, i)
<1>1. /\ size \in Nat /\ size >= 14
      /\ code(5) = FRAME_LETTER /\ code(6) = 96 + page.frame /\ code(9) = TERMINATOR
      /\ code(size - 4) = CHAR_BAR
  BY FrameBytes, Zenon
<1> USE DEF CHAR_BAR, START_FRAME, END_OF_FRAME, FRAME_LETTER, TERMINATOR, END_OF_LINE,
            END_OF_FILE
<1>2. page.frame \in 1 .. 10 BY FrameRange, Zenon
<1>3. CASE pos <= 8 /\ HeadAt(t, pos)
  <2> HIDE DEF size, code
  <2>1. CASE pos = 4 \/ pos = 8
    <3>1. t.state = 1 BY <1>3, <2>1 DEF HeadAt
    <3>2. code(pos + 1) \in {FRAME_LETTER, TERMINATOR} BY <1>1, <2>1
    <3> QED BY <3>1, <3>2 DEF Within, code
  <2>2. CASE pos = 5
    <3>1. t.state = 2 /\ t.control_code = FRAME_LETTER BY <1>3, <2>2 DEF HeadAt
    <3>2. code(pos + 1) # CHAR_BAR BY <1>1, <1>2, <2>2
    <3> QED BY <3>1, <3>2 DEF Within, code
  <2>3. CASE pos \in {3, 6, 7}
    <3>1. t.state = 0 /\ t.in_frame BY <1>3, <2>3 DEF HeadAt
    <3> QED BY <3>1, Zenon DEF Within
  <2> QED BY <1>3, <2>1, <2>2, <2>3
<1>4. CASE page.frame = 1 /\ pos \in 9 .. 14 /\ HeaderAt(t, page, pos - 9)
  <2>1. code(12) = END_OF_LINE BY <1>4, HeaderBytes, Zenon
  <2> HIDE DEF size, code
  <2>2. t.in_frame /\ t.state = (IF pos - 9 = 2 THEN 1 ELSE 0) BY <1>4, Zenon DEF HeaderAt
  <2>3. CASE pos = 11
    <3>1. t.state = 1 BY <2>2, <2>3
    <3>2. code(pos + 1) = END_OF_LINE BY <2>1, <2>3
    <3> QED BY <3>1, <3>2 DEF Within, code
  <2>4. CASE pos # 11
    <3>1. t.state = 0 BY <2>2, <2>4
    <3> QED BY <2>2, <3>1, Zenon DEF Within
  <2> QED BY <2>3, <2>4
<1>5. CASE page.frame > 1 /\ PieceAt(t, page, pos, m)
  <2> DEFINE piece == PieceOf(page)
             n == Len(piece)
             cut(k) == Cut(page)[k]
  <2>1. ASSUME Open(t, 0, 0) PROVE Within(t, Code(page, pos + 1))
    BY <2>1, Zenon DEF Within, Open
  <2>2. ASSUME NEW i \in 0 .. n - 1,
               NEW j \in 0 .. Len(Encoded(piece[i + 1])) - 1,
               pos = 9 + cut(i) + j, SymbolAt(t, piece[i + 1], j)
        PROVE  Within(t, Code(page, pos + 1))
    <3> DEFINE c == piece[i + 1]
               e == Encoded(c)
               l == Len(e)
    <3>1. /\ c \in Byte /\ cut(i) \in Nat /\ l \in Nat
          /\ \A k \in 0 .. l - 1 : Code(page, 9 + cut(i) + k + 1) = e[k + 1]
      BY <1>5, CutStep, Zenon
    <3>2. Code(page, pos + 1) = e[j + 1] BY <2>2, <3>1, Zenon
    <3>3. /\ t.state = (IF j > 0 /\ e[j] = CHAR_BAR THEN 1 ELSE 0)
          /\ t.in_frame
      BY <2>2, Zenon DEF SymbolAt, Open
    <3>4. CASE j > 0 /\ e[j] = CHAR_BAR
      <4>1. j \in 1 .. l - 1
        <5> HIDE DEF l
        <5> QED BY <3>1, <3>4 DEF l
      <4>2. e[j + 1] \notin {CHAR_BAR, START_FRAME, END_OF_FRAME}
        BY <3>1, <3>4, <4>1, AfterBar, Zenon
      <4>3. t.state = 1 BY <3>3, <3>4, Zenon
      <4> QED BY <3>2, <4>2, <4>3, Zenon DEF Within
    <3>5. CASE ~(j > 0 /\ e[j] = CHAR_BAR)
      <4>1. t.state = 0 BY <3>3, <3>5, Zenon
      <4> QED BY <3>3, <4>1, Zenon DEF Within
    <3> QED BY <3>4, <3>5
  <2> QED BY <1>5, <2>1, <2>2, Zenon DEF PieceAt
<1>6. CASE /\ LastPage(page) /\ pos \in size - 6 .. size - 5
           /\ EndingAt(t, pos - (size - 5))
  <2>1. code(size - 5) = END_OF_FILE
    <3>1. page.frame > 1 BY <1>6 DEF LastPage
    <3> QED BY <1>6, <3>1, DataBytes, Zenon
  <2> HIDE DEF size, code
  <2>2. CASE pos = size - 6
    <3>1. pos - (size - 5) = -1 /\ pos + 1 = size - 5 BY <1>1, <2>2
    <3>2. t.state = 1 BY <1>6, <3>1 DEF EndingAt
    <3> QED BY <2>1, <3>1, <3>2 DEF Within, code
  <2>3. CASE pos = size - 5
    <3>1. pos - (size - 5) # -1 /\ pos + 1 = size - 4 BY <1>1, <2>3
    <3>2. t.state = 0 BY <1>6, <3>1 DEF EndingAt
    <3> QED BY <1>1, <3>1, <3>2 DEF Within, code
  <2> QED BY <1>1, <1>6, <2>2, <2>3
<1>7. ~(pos >= size - 4)
  <2>1. pos <= size - 5 OBVIOUS
  <2> HIDE DEF size
  <2> QED BY <1>1, <2>1
<1> QED BY <1>3, <1>4, <1>5, <1>6, <1>7, Zenon DEF PartAt, size

\* The checks after a byte: its parity counts in a frame, its code in the sum.
LEMMA CheckIs ==
    ASSUME NEW t \in TeleStates, Waits(t), NEW byte \in Byte
    PROVE  LET c == ParityChecked(t, byte)
           IN  /\ TeleByte(t, byte).check = Summed(t, c, byte % 128)
               /\ c \in Checks
               /\ c.running_checksum = t.check.running_checksum
               /\ c.checksum = t.check.checksum
               /\ (c.parity_error <=> \/ t.check.parity_error
                                      \/ t.in_frame /\ Parity(byte) # byte \div 128)
<1> DEFINE v == Taken(t, byte % 128)
           c == ParityChecked(t, byte)
           d == Summed(t, c, byte % 128)
           error == t.check.parity_error \/ (t.in_frame /\ Parity(byte) # byte \div 128)
<1>1. byte % 128 \in Ascii BY ModuloRange DEF Byte
<1>2. v \in TeleStates BY <1>1, TakenType, Zenon
<1>3. TeleByte(t, byte) = [v EXCEPT !.check = d] BY Zenon DEF TeleByte
<1>4. TeleByte(t, byte).check = d
  <2> HIDE DEF v, d
  <2>1. [v EXCEPT !.check = d].check = d BY <1>2, SMT DEF TeleStates
  <2> QED BY <1>3, <2>1, Zenon
<1>5. t.check \in Checks BY FieldRanges, Zenon
<1>6. error \in BOOLEAN OBVIOUS
<1>7. c = [t.check EXCEPT !.parity_error = error] BY Zenon DEF ParityChecked
<1> DEFINE a == t.check
<1>8. /\ c \in Checks /\ c.running_checksum = a.running_checksum
      /\ c.checksum = a.checksum /\ c.parity_error = error
  <2> HIDE DEF a, c, error
  <2>1. c = [a EXCEPT !.parity_error = error] BY <1>7 DEF a
  <2> QED BY <1>5, <1>6, <2>1, SMT DEF Checks, a
<1> QED BY <1>4, <1>8, Zenon

\* What a byte does to the sum and to the digits.
LEMMA SummedIs ==
    ASSUME NEW t \in TeleStates, NEW c \in Checks, NEW b \in Ascii
    PROVE  LET d == Summed(t, c, b)
               Sums(r) == d.running_checksum = r /\ d.checksum = c.checksum
           IN  /\ d.parity_error = c.parity_error
               /\ b = CHAR_BAR => Sums(c.running_checksum)
               /\ b # CHAR_BAR /\ InData(t) => Sums(Xor(c.running_checksum, b))
               /\ b \notin {CHAR_BAR, START_FRAME, END_OF_FRAME} /\ t.state = 1 =>
                     Sums(Xor(Xor(c.running_checksum, CHAR_BAR), b))
               /\ b = START_FRAME /\ t.state = 1 => Sums(0)
               /\ b = END_OF_FRAME /\ t.state = 1 =>
                     d.running_checksum = c.running_checksum /\ d.checksum = 0
               /\ b # CHAR_BAR /\ t.state > 1 /\ t.control_code = FRAME_LETTER =>
                     Sums(Xor(c.running_checksum, b))
               /\ b # CHAR_BAR /\ t.state > 1 /\ t.control_code = END_OF_FRAME =>
                     /\ d.running_checksum = c.running_checksum
                     /\ d.checksum = c.checksum + (b - 48) *
                           (CASE t.state = 2 -> 100 [] t.state = 3 -> 10 [] OTHER -> 1)
<1> DEFINE d == Summed(t, c, b)
           r == c.running_checksum
           Sums(n) == d.running_checksum = n /\ d.checksum = c.checksum
           Same    == d.parity_error = c.parity_error
<1>1. r \in Int /\ t.state \in 0 .. 4 BY CheckFields, FieldRanges, Zenon
<1>2. CHAR_BAR # START_FRAME /\ CHAR_BAR # END_OF_FRAME /\ START_FRAME # END_OF_FRAME
      /\ FRAME_LETTER # END_OF_FRAME
  BY DEF CHAR_BAR, START_FRAME, END_OF_FRAME, FRAME_LETTER
<1>3. \A n : LET a == [c EXCEPT !.running_checksum = n]
             IN  /\ a.running_checksum = n /\ a.checksum = c.checksum
                 /\ a.parity_error = c.parity_error
  BY SMT DEF Checks
<1>4. CASE b = CHAR_BAR
  <2>1. d = c BY <1>4, Zenon DEF Summed
  <2>2. Sums(r) /\ Same BY <2>1, Zenon
  <2> HIDE DEF d
  <2> QED BY <1>2, <1>4, <2>2, Zenon DEF d
<1>5. CASE b # CHAR_BAR /\ InData(t)
  <2>3. t.state # 1 /\ ~(t.state > 1) BY <1>5 DEF InData
  <2>1. d = [c EXCEPT !.running_checksum = Xor(r, b)] BY <1>5, <2>3, Zenon DEF Summed
  <2>2. Sums(Xor(r, b)) /\ Same BY <1>3, <2>1, Zenon
  <2> HIDE DEF d
  <2> QED BY <1>5, <2>2, <2>3, Zenon DEF d
<1>6. CASE b # CHAR_BAR /\ t.state = 1
  <2>1. ~InData(t) /\ ~(t.state > 1) BY <1>6 DEF InData
  <2>2. d = CodeChecked(c, b) BY <1>6, <2>1, Zenon DEF Summed
  <2>3. CASE b = START_FRAME
    <3>1. d = [c EXCEPT !.running_checksum = 0]
      BY <1>2, <2>2, <2>3, Zenon DEF CodeChecked
    <3>2. Sums(0) /\ Same BY <1>3, <3>1, Zenon
    <3> HIDE DEF d
    <3> QED BY <1>2, <1>6, <2>1, <2>3, <3>2, Zenon DEF d
  <2>4. CASE b = END_OF_FRAME
    <3>1. d = [c EXCEPT !.checksum = 0] BY <1>2, <2>2, <2>4, Zenon DEF CodeChecked
    <3>2. d.running_checksum = r /\ d.checksum = 0 /\ Same BY <3>1, SMT DEF Checks
    <3> HIDE DEF d
    <3> QED BY <1>2, <1>6, <2>1, <2>4, <3>2, Zenon DEF d
  <2>5. CASE b # START_FRAME /\ b # END_OF_FRAME
    <3>1. d = [c EXCEPT !.running_checksum = Xor(Xor(r, CHAR_BAR), b)]
      BY <2>2, <2>5, Zenon DEF CodeChecked
    <3>2. Sums(Xor(Xor(r, CHAR_BAR), b)) /\ Same BY <1>3, <3>1, Zenon
    <3> HIDE DEF d
    <3> QED BY <1>6, <2>1, <2>5, <3>2, Zenon DEF d
  <2> QED BY <2>3, <2>4, <2>5
<1>7. CASE b # CHAR_BAR /\ t.state > 1
  <2>1. ~InData(t) /\ t.state # 1 BY <1>1, <1>7 DEF InData
  <2>2. CASE t.control_code = FRAME_LETTER
    <3>1. d = [c EXCEPT !.running_checksum = Xor(r, b), !.frame_letter = b]
      BY <1>7, <2>1, <2>2, Zenon DEF Summed, LetterChecked
    <3> DEFINE x == Xor(r, b)
    <3>2. Sums(x) /\ Same
      <4> HIDE DEF x, r
      <4>1. d = [c EXCEPT !.running_checksum = x, !.frame_letter = b] BY <3>1 DEF x, r
      <4> HIDE DEF d
      <4> QED BY <4>1, SMT DEF Checks
    <3> HIDE DEF d
    <3> QED BY <1>2, <1>7, <2>1, <2>2, <3>2, Zenon DEF d
  <2>3. CASE t.control_code = END_OF_FRAME
    <3> DEFINE weight == CASE t.state = 2 -> 100 [] t.state = 3 -> 10 [] OTHER -> 1
               sum == c.checksum + (b - 48) * weight
               wrong == c.invalid_checksum \/ (t.state = 4 /\ sum # c.running_checksum)
    <3>1. d = [c EXCEPT !.checksum = sum, !.invalid_checksum = wrong]
      BY <1>2, <1>7, <2>1, <2>3, Zenon DEF Summed, DigitChecked
    <3>2. d.running_checksum = r /\ d.checksum = sum /\ Same
      <4> HIDE DEF sum, wrong, d
      <4> QED BY <3>1, SMT DEF Checks
    <3> HIDE DEF d
    <3> QED BY <1>2, <1>7, <2>1, <2>3, <3>2, Zenon DEF d
  <2>4. CASE t.control_code # FRAME_LETTER /\ t.control_code # END_OF_FRAME
    <3> DEFINE weight == CASE t.state = 2 -> 100 [] t.state = 3 -> 10 [] OTHER -> 1
               sum == c.checksum + (b - 48) * weight
               wrong == c.invalid_checksum \/ (t.state = 4 /\ sum # c.running_checksum)
    <3>1. d = [c EXCEPT !.checksum = sum, !.invalid_checksum = wrong]
      BY <1>7, <2>1, <2>4, Zenon DEF Summed, DigitChecked
    <3>2. Same
      <4> HIDE DEF sum, wrong, d
      <4> QED BY <3>1, SMT DEF Checks
    <3> HIDE DEF d
    <3> QED BY <1>7, <2>1, <2>4, <3>2, Zenon DEF d
  <2> QED BY <2>2, <2>3, <2>4
<1>8. CASE b # CHAR_BAR /\ ~InData(t) /\ t.state = 0
  <2>1. t.state # 1 /\ ~(t.state > 1) BY <1>8
  <2>2. d = c BY <1>8, <2>1, Zenon DEF Summed
  <2>3. Same BY <2>2
  <2> HIDE DEF d
  <2> QED BY <1>8, <2>1, <2>3, Zenon DEF d
<1>9. t.state = 0 \/ t.state = 1 \/ t.state > 1 BY <1>1
<1> QED BY <1>4, <1>5, <1>6, <1>7, <1>8, <1>9

\* After a byte the decoder waits for a code if and only if the byte is a bar.
LEMMA BarWaits ==
    ASSUME NEW t \in TeleStates, Waits(t), NEW byte \in Byte
    PROVE  TeleByte(t, byte).state = 1 <=> byte % 128 = CHAR_BAR
<1> DEFINE b == byte % 128
           u == TeleByte(t, byte)
           v == Taken(t, b)
<1>1. u.state = v.state BY CheckAside, Zenon DEF Stands
<1>2. b \in Ascii BY ModuloRange DEF Byte
<1> HIDE DEF b
<1>3. t.state \in 0 .. 4 BY FieldRanges, Zenon
<1>4. CASE b = CHAR_BAR
  <2>1. v = [t EXCEPT !.state = 1] BY <1>4, Zenon DEF Taken
  <2>2. v.state = 1 BY <2>1, SMT DEF TeleStates
  <2> QED BY <1>1, <1>4, <2>2, Zenon DEF b
<1>5. CASE b # CHAR_BAR
  <2>1. CASE InData(t)
    <3>1. v = Data(t, b) BY <1>5, <2>1, Zenon DEF Taken
    <3>2. Data(t, b).state = t.state BY SMT DEF Data, TeleStates
    <3>3. t.state = 0 BY <2>1 DEF InData
    <3> HIDE DEF v, u
    <3> QED BY <1>1, <1>5, <3>1, <3>2, <3>3 DEF u, b
  <2>2. CASE ~InData(t) /\ t.state = 0
    <3>1. ~(t.state >= 1) BY <2>2
    <3>2. v = t BY <1>5, <2>2, <3>1, Zenon DEF Taken
    <3> HIDE DEF v, u
    <3> QED BY <1>1, <1>5, <2>2, <3>2 DEF u, b
  <2>3. CASE t.state >= 1
    <3> DEFINE w == IF t.state = 1 THEN [t EXCEPT !.control_code = b] ELSE t
    <3>1. ~InData(t) BY <2>3 DEF InData
    <3>2. v = Obey(w) BY <1>5, <2>3, <3>1, Zenon DEF Taken, Control
    <3>3. w \in TeleStates /\ w.state = t.state
      <4>1. w \in TeleStates BY <1>2, FieldTypes, Zenon
      <4> QED BY <4>1, SMT DEF TeleStates
    <3> HIDE DEF w
    <3>4. Obey(w).state # 1
      <4> DEFINE done == [w EXCEPT !.state = 0]
      <4>1. w.state \in 1 .. 4 BY <1>3, <2>3, <3>3
      <4>2. w.state = 1 => [w EXCEPT !.state = 2].state # 1 BY <3>3, SMT DEF TeleStates
      <4>3. EndOfFrame(w).state # 1
        <5>1. CASE w.state = 1
          <6>1. EndOfFrame(w) = [w EXCEPT !.state = 2, !.in_frame = FALSE]
            BY <5>1, SMT DEF EndOfFrame
          <6> QED BY <3>3, <6>1, SMT DEF TeleStates
        <5>2. CASE w.state \in {2, 3}
          <6>1. EndOfFrame(w) = [w EXCEPT !.state = w.state + 1]
            <7>1. w.state # 1 /\ w.state # 4 BY <5>2
            <7> QED BY <5>2, <7>1, Zenon DEF EndOfFrame
          <6>2. w.state + 1 # 1 BY <5>2
          <6> QED BY <3>3, <6>1, <6>2, SMT DEF TeleStates
        <5>3. CASE w.state = 4
          <6>1. EndOfFrame(w) = [w EXCEPT !.state = 0, !.end_of_frame = TRUE]
            BY <5>3, SMT DEF EndOfFrame
          <6> QED BY <3>3, <6>1, SMT DEF TeleStates
        <5> QED BY <4>1, <5>1, <5>2, <5>3
      <4>4. \/ Obey(w) = EndOfFrame(w)
            \/ w.state = 1 /\ Obey(w) = [w EXCEPT !.state = 2]
            \/ Obey(w) = done
            \/ \E s : Obey(w) = [done EXCEPT !.shift_offset = s]
            \/ \E n : Obey(w) = [done EXCEPT !.frame_number = n, !.in_frame = TRUE]
            \/ Obey(w) = [done EXCEPT !.end_of_file = TRUE, !.in_frame = FALSE]
            \/ \E i : Obey(w) = [done EXCEPT !.ignore = i]
        <5>1. w.control_code \in SHIFTS =>
                 Obey(w) = [done EXCEPT !.shift_offset = ShiftOffset(w.control_code)]
          BY SMT DEF Obey, SHIFTS, START_FRAME, END_OF_FILE, FRAME_LETTER, TERMINATOR,
             END_OF_LINE, END_OF_FRAME, START_DATA, START_HEADER, BAR, CHAR_THREE_QUARTERS
        <5>2. w.control_code \notin SHIFTS =>
                 \/ Obey(w) = EndOfFrame(w)
                 \/ w.state = 1 /\ Obey(w) = [w EXCEPT !.state = 2]
                 \/ Obey(w) = done
                 \/ Obey(w) = [done EXCEPT !.frame_number = w.frame_number + 1,
                                           !.in_frame = TRUE]
                 \/ Obey(w) = [done EXCEPT !.end_of_file = TRUE, !.in_frame = FALSE]
                 \/ Obey(w) = [done EXCEPT !.ignore = TRUE]
                 \/ Obey(w) = [done EXCEPT !.ignore = FALSE]
                 \/ Obey(w) = [done EXCEPT !.ignore = w.ignore \/ w.frame_number = 1]
          BY SMT DEF Obey, SHIFTS, START_FRAME, END_OF_FILE, FRAME_LETTER, TERMINATOR,
             END_OF_LINE, END_OF_FRAME, START_DATA, START_HEADER, BAR, CHAR_THREE_QUARTERS
        <5> HIDE DEF done
        <5> QED BY <5>1, <5>2, Zenon
      <4>5. /\ done.state = 0
            /\ \A s : [done EXCEPT !.shift_offset = s].state = 0
            /\ \A n : [done EXCEPT !.frame_number = n, !.in_frame = TRUE].state = 0
            /\ [done EXCEPT !.end_of_file = TRUE, !.in_frame = FALSE].state = 0
            /\ \A i : [done EXCEPT !.ignore = i].state = 0
        BY <3>3, SMT DEF TeleStates
      <4>6. 0 # 1 OBVIOUS
      <4> HIDE DEF done
      <4> QED BY <4>2, <4>3, <4>4, <4>5, <4>6, ZenonT(30)
    <3> HIDE DEF u, v
    <3> QED BY <1>1, <1>5, <3>2, <3>4 DEF u, b
  <2> QED BY <1>3, <2>1, <2>2, <2>3
<1> QED BY <1>4, <1>5

\* vt_parity(): a byte that is sent with even parity passes.
LEMMA EvenParity ==
    ASSUME NEW b \in Ascii, NEW byte, byte = b + 128 * Parity(b)
    PROVE  Parity(byte) = byte \div 128
<1> DEFINE p == Parity(b)
<1>1. p \in {0, 1} BY WithParity
<1> HIDE DEF p
<1>2. byte = b + 128 * p BY DEF p
<1>3. byte \div 128 = p BY <1>1, <1>2, SMT DEF Ascii
<1>4. /\ Bit(byte, 1) = Bit(b, 1) /\ Bit(byte, 2) = Bit(b, 2) /\ Bit(byte, 4) = Bit(b, 4)
      /\ Bit(byte, 8) = Bit(b, 8) /\ Bit(byte, 16) = Bit(b, 16)
      /\ Bit(byte, 32) = Bit(b, 32) /\ Bit(byte, 64) = Bit(b, 64)
  <2>1. CASE p = 0
    <3>1. byte = b BY <1>2, <2>1 DEF Ascii
    <3> QED BY <3>1
  <2>2. CASE p = 1
    <3>1. byte = b + 128 /\ b \in 0 .. 127 BY <1>2, <2>2 DEF Ascii
    <3>2. Bit(byte, 1) = Bit(b, 1) BY <3>1, SMT DEF Bit
    <3>3. Bit(byte, 2) = Bit(b, 2) BY <3>1, SMT DEF Bit
    <3>4. Bit(byte, 4) = Bit(b, 4) BY <3>1, SMT DEF Bit
    <3>5. Bit(byte, 8) = Bit(b, 8) BY <3>1, SMT DEF Bit
    <3>6. Bit(byte, 16) = Bit(b, 16) BY <3>1, SMT DEF Bit
    <3>7. Bit(byte, 32) = Bit(b, 32) BY <3>1, SMT DEF Bit
    <3>8. Bit(byte, 64) = Bit(b, 64) BY <3>1, SMT DEF Bit
    <3> QED BY <3>2, <3>3, <3>4, <3>5, <3>6, <3>7, <3>8, Zenon
  <2> QED BY <1>1, <2>1, <2>2
<1>5. Parity(byte) = Parity(b) BY <1>4, SMT DEF Parity
<1> QED BY <1>3, <1>5 DEF p

\* Only |Z and its digits are in the last five bytes of a page.
LEMMA TrailerIs ==
    ASSUME NEW page \in TelePages, page # TextPage, NEW t,
           NEW pos \in Nat, pos >= Size(page) - 4, NEW m \in Nat, PartAt(t, page, pos, m)
    PROVE  TrailerAt(t, page, pos - (Size(page) - 5))
<1> DEFINE size == Size(page)
<1>1. size \in Nat /\ size >= 14 BY FrameBytes, Zenon
<1>2. pos >= size - 4 OBVIOUS
<1>3. ~(pos <= 8)
  <2> HIDE DEF size
  <2> QED BY <1>1, <1>2
<1>4. ~(page.frame = 1 /\ pos \in 9 .. 14)
  <2>1. SUFFICES ASSUME page.frame = 1, pos \in 9 .. 14 PROVE FALSE OBVIOUS
  <2>2. size = 19 BY <2>1, HeaderBytes, Zenon
  <2> HIDE DEF size
  <2> QED BY <1>2, <2>1, <2>2
<1>5. ~(page.frame > 1 /\ PieceAt(t, page, pos, m))
  <2>1. SUFFICES ASSUME page.frame > 1, PieceAt(t, page, pos, m) PROVE FALSE OBVIOUS
  <2> DEFINE body == BodySize(page)
  <2>2. pos \in 9 .. 9 + body BY <2>1, PieceSpan, Zenon
  <2>3. body \in Nat /\ body = size - 14 - (IF LastPage(page) THEN 2 ELSE 0)
    BY <2>1, DataBytes, Zenon
  <2> HIDE DEF size, body
  <2> QED BY <1>1, <1>2, <2>2, <2>3
<1>6. ~(pos \in size - 6 .. size - 5)
  <2> HIDE DEF size
  <2> QED BY <1>1, <1>2
<1> QED BY <1>3, <1>4, <1>5, <1>6, Zenon DEF PartAt, size

\* |A starts the sum.
LEMMA SumStart ==
    ASSUME NEW t, NEW page, NEW byte, Comes(t, page, 2, byte), HeadAt(t, 2)
    PROVE  SumAt(TeleByte(t, byte), page, 3)
<1> DEFINE u == TeleByte(t, byte)
           b == byte % 128
           c == ParityChecked(t, byte)
           size == Size(page)
<1>1. /\ t \in TeleStates /\ Waits(t) /\ page \in TelePages /\ page # TextPage
      /\ byte \in Byte /\ b = Code(page, 3)
  <2>1. 2 + 1 = 3 OBVIOUS
  <2> QED BY <2>1, Zenon DEF Comes
<1>2. size \in Nat /\ size >= 14 /\ Code(page, 3) = START_FRAME /\ START_FRAME # CHAR_BAR
  <2>1. size \in Nat /\ size >= 14 /\ Code(page, 3) = START_FRAME
    BY <1>1, FrameBytes, Zenon
  <2> QED BY <2>1 DEF START_FRAME, CHAR_BAR
<1>3. t.state = 1 BY DEF HeadAt
<1>4. b \in Ascii BY <1>1, ModuloRange DEF Byte
<1>5. u.check = Summed(t, c, b) /\ c \in Checks BY <1>1, CheckIs, Zenon
<1>6. u.check.running_checksum = 0
  <2>1. b = START_FRAME BY <1>1, <1>2
  <2> DEFINE d == Summed(t, c, b)
  <2> HIDE DEF b, c, u
  <2>2. d.running_checksum = 0
    BY <1>1, <1>3, <1>4, <1>5, <2>1, SummedIs
  <2> HIDE DEF d
  <2> QED BY <1>5, <2>2 DEF d
<1>7. u.state # 1 BY <1>1, <1>2, BarWaits, Zenon
<1>8. SumOf(page, 0) = 0
  <2>1. 0 \in Nat OBVIOUS
  <2> QED BY <2>1, SumGrows, Zenon
<1> HIDE DEF u, size
<1>9. (3 - 3) - (IF u.state = 1 THEN 1 ELSE 0) = 0
  <2>1. (IF u.state = 1 THEN 1 ELSE 0) = 0 BY <1>7, Zenon
  <2>2. (3 - 3) - 0 = 0 OBVIOUS
  <2> QED BY <2>1, <2>2, Zenon
<1>10. ~(3 >= size - 4) /\ ~(3 >= size - 3) BY <1>2
<1> QED BY <1>2, <1>6, <1>7, <1>8, <1>9, <1>10, Zenon DEF SumAt, u, size

\* Each byte from |A on leads to the checks of the next place.
LEMMA SumStep ==
    ASSUME NEW t, NEW page, NEW pos, NEW byte, Comes(t, page, pos, byte), pos >= 3,
           NEW m \in Nat, PartAt(t, page, pos, m), SumAt(t, page, pos)
    PROVE  SumAt(TeleByte(t, byte), page, pos + 1)
<1> DEFINE u == TeleByte(t, byte)
           b == byte % 128
           c == ParityChecked(t, byte)
           size == Size(page)
           code(i) == Code(page, i)
           sum(n) == SumOf(page, n)
           r == t.check.running_checksum
           k == t.check.checksum
<1>1. /\ t \in TeleStates /\ Waits(t) /\ page \in TelePages /\ page # TextPage
      /\ pos \in Nat /\ pos < size /\ byte \in Byte /\ b = code(pos + 1)
  BY Zenon DEF Comes
<1>2. /\ size \in Nat /\ size >= 14 /\ \A i \in 1 .. size : code(i) \in Ascii
      /\ code(3) = START_FRAME /\ code(size - 4) = CHAR_BAR /\ code(size - 3) = END_OF_FRAME
      /\ code(size - 2) \in 48 .. 57 /\ code(size - 1) \in 48 .. 57 /\ code(size) \in 48 .. 57
  BY <1>1, FrameBytes, Zenon
<1>3. START_FRAME # CHAR_BAR /\ END_OF_FRAME # CHAR_BAR /\ CHAR_BAR \notin 48 .. 57
  BY DEF START_FRAME, CHAR_BAR, END_OF_FRAME
<1>4. b \in Ascii BY <1>1, ModuloRange DEF Byte
<1>5. /\ u.check = Summed(t, c, b) /\ c \in Checks
      /\ c.running_checksum = r /\ c.checksum = k
  BY <1>1, CheckIs, Zenon
<1>6. u.state = 1 <=> b = CHAR_BAR BY <1>1, BarWaits, Zenon
<1> DEFINE r2 == u.check.running_checksum
           k2 == u.check.checksum
           Sums(n) == r2 = n /\ k2 = k
<1>7. /\ b = CHAR_BAR => Sums(r)
      /\ b # CHAR_BAR /\ InData(t) => Sums(Xor(r, b))
      /\ b \notin {CHAR_BAR, START_FRAME, END_OF_FRAME} /\ t.state = 1 =>
            Sums(Xor(Xor(r, CHAR_BAR), b))
      /\ b = END_OF_FRAME /\ t.state = 1 => r2 = r /\ k2 = 0
      /\ b # CHAR_BAR /\ t.state > 1 /\ t.control_code = FRAME_LETTER => Sums(Xor(r, b))
      /\ b # CHAR_BAR /\ t.state > 1 /\ t.control_code = END_OF_FRAME =>
            /\ r2 = r
            /\ k2 = k + (b - 48) *
                  (CASE t.state = 2 -> 100 [] t.state = 3 -> 10 [] OTHER -> 1)
  <2> DEFINE d == Summed(t, c, b)
             Then(n) == d.running_checksum = n /\ d.checksum = c.checksum
             weight == CASE t.state = 2 -> 100 [] t.state = 3 -> 10 [] OTHER -> 1
             s == c.running_checksum
  <2> HIDE DEF b, c, u
  <2>1. /\ b = CHAR_BAR => Then(s)
        /\ b # CHAR_BAR /\ InData(t) => Then(Xor(s, b))
        /\ b \notin {CHAR_BAR, START_FRAME, END_OF_FRAME} /\ t.state = 1 =>
              Then(Xor(Xor(s, CHAR_BAR), b))
        /\ b = END_OF_FRAME /\ t.state = 1 => d.running_checksum = s /\ d.checksum = 0
        /\ b # CHAR_BAR /\ t.state > 1 /\ t.control_code = FRAME_LETTER => Then(Xor(s, b))
        /\ b # CHAR_BAR /\ t.state > 1 /\ t.control_code = END_OF_FRAME =>
              d.running_checksum = s /\ d.checksum = c.checksum + (b - 48) * weight
    BY <1>1, <1>4, <1>5, SummedIs
  <2>2. d.running_checksum = r2 /\ d.checksum = k2 /\ s = r /\ c.checksum = k BY <1>5
  <2> HIDE DEF d, s, weight, r, k, r2, k2
  <2> QED BY <2>1, <2>2, Zenon DEF weight
<1>8. /\ (t.state = 1 <=> code(pos) = CHAR_BAR)
      /\ pos <= size - 5 => r = sum((pos - 3) - (IF t.state = 1 THEN 1 ELSE 0))
      /\ pos >= size - 4 => r = FrameSum(page)
      /\ pos >= size - 3 => k = Received(page, pos - (size - 3))
  BY Zenon DEF SumAt
<1> DEFINE Goal == /\ (u.state = 1 <=> code(pos + 1) = CHAR_BAR)
                   /\ pos + 1 <= size - 5 =>
                         r2 = sum(((pos + 1) - 3) - (IF u.state = 1 THEN 1 ELSE 0))
                   /\ pos + 1 >= size - 4 => r2 = FrameSum(page)
                   /\ pos + 1 >= size - 3 => k2 = Received(page, (pos + 1) - (size - 3))
<1>9. SUFFICES Goal BY Zenon DEF SumAt
<1>10. FrameSum(page) = sum(size - 8) BY Zenon DEF FrameSum
<1>11. ASSUME NEW n \in Nat, code(4 + n) \in Ascii
       PROVE  Xor(sum(n), code(4 + n)) = sum(n + 1)
  BY <1>11, SumGrows, Zenon
<1>12. CASE pos <= size - 5
  <2>1. Within(t, b) BY <1>1, <1>12, WithinIs, Zenon
  <2>2. t.state = 0 \/ t.state = 1 \/ t.state = 2 BY <2>1, Zenon DEF Within
  <2>3. t.state = 1 \/ t.state = 2 => b # CHAR_BAR
    <3>1. 1 # 0 /\ 2 # 0 /\ 1 # 2 OBVIOUS
    <3> QED BY <2>1, <3>1, Zenon DEF Within
  <2>4. CASE b = CHAR_BAR
    <3>1. t.state # 1 BY <2>3, <2>4
    <3>2. r2 = r BY <1>7, <2>4, Zenon
    <3> HIDE DEF u, b, size, sum, r, k, r2, k2
    <3>3. r = sum(pos - 3)
      <4>1. (pos - 3) - (IF t.state = 1 THEN 1 ELSE 0) = pos - 3 BY <1>1, <3>1
      <4> QED BY <1>8, <1>12, <4>1
    <3>4. ((pos + 1) - 3) - (IF u.state = 1 THEN 1 ELSE 0) = pos - 3
      BY <1>1, <1>6, <2>4
    <3>5. pos + 1 >= size - 4 => pos - 3 = size - 8 BY <1>1, <1>2, <1>12
    <3>6. ~(pos + 1 >= size - 3) BY <1>1, <1>2, <1>12
    <3> QED BY <1>1, <1>6, <1>10, <3>2, <3>3, <3>4, <3>5, <3>6, Zenon
  <2>5. CASE b # CHAR_BAR
    <3> HIDE DEF u, b, size, sum, r, k, r2, k2, code
    <3>1. pos + 1 <= size - 5
      <4>1. pos # size - 5
        <5>1. pos = size - 5 => pos + 1 = size - 4 BY <1>1, <1>2
        <5> QED BY <1>1, <1>2, <2>5, <5>1
      <4> QED BY <1>1, <1>2, <1>12, <4>1
    <3>2. PICK n \in Nat : n = pos - 3 BY <1>1
    <3>3. 4 + n = pos + 1 /\ pos = 3 + n /\ n + 1 = (pos + 1) - 3 BY <1>1, <3>2
    <3>4. Xor(sum(n), b) = sum(n + 1) BY <1>1, <1>4, <1>11, <3>3
    <3>5. r2 = sum(n + 1)
      <4>1. CASE t.state = 0
        <5>1. InData(t)
          <6>1. t.state # 1 /\ t.state # 2 BY <4>1
          <6> QED BY <2>1, <2>5, <4>1, <6>1, Zenon DEF Within, InData
        <5>2. r2 = Xor(r, b) BY <1>7, <2>5, <5>1, Zenon
        <5>3. r = sum(n)
          <6>1. (pos - 3) - (IF t.state = 1 THEN 1 ELSE 0) = n BY <3>2, <4>1
          <6> QED BY <1>8, <1>12, <6>1
        <5> QED BY <3>4, <5>2, <5>3
      <4>2. CASE t.state = 1
        <5>1. b \notin {CHAR_BAR, START_FRAME, END_OF_FRAME}
          <6>1. t.state # 0 /\ t.state # 2 BY <4>2
          <6> QED BY <2>1, <6>1, Zenon DEF Within
        <5>2. r2 = Xor(Xor(r, CHAR_BAR), b) BY <1>7, <4>2, <5>1, Zenon
        <5>3. code(pos) = CHAR_BAR BY <1>8, <4>2
        <5>4. pos # 3 BY <1>2, <1>3, <5>3
        <5>5. PICK i \in Nat : n = i + 1 BY <1>1, <3>2, <5>4
        <5>6. r = sum(i)
          <6>1. (pos - 3) - (IF t.state = 1 THEN 1 ELSE 0) = i BY <3>2, <4>2, <5>5
          <6> QED BY <1>8, <1>12, <6>1
        <5>7. Xor(r, CHAR_BAR) = sum(n)
          <6>1. 4 + i = pos BY <3>3, <5>5
          <6>2. code(4 + i) = CHAR_BAR BY <5>3, <6>1
          <6>3. code(4 + i) \in Ascii BY <6>2 DEF CHAR_BAR, Ascii
          <6>4. Xor(sum(i), code(4 + i)) = sum(i + 1) BY <1>11, <6>3
          <6> QED BY <5>5, <5>6, <6>2, <6>4
        <5> QED BY <3>4, <5>2, <5>7
      <4>3. CASE t.state = 2
        <5>1. t.state > 1 /\ t.control_code = FRAME_LETTER
          <6>1. t.state # 0 /\ t.state # 1 /\ t.state > 1 BY <4>3
          <6> QED BY <2>1, <6>1, Zenon DEF Within
        <5>2. r2 = Xor(r, b) BY <1>7, <2>5, <5>1, Zenon
        <5>3. r = sum(n)
          <6>1. (pos - 3) - (IF t.state = 1 THEN 1 ELSE 0) = n BY <3>2, <4>3
          <6> QED BY <1>8, <1>12, <6>1
        <5> QED BY <3>4, <5>2, <5>3
      <4> QED BY <2>2, <4>1, <4>2, <4>3
    <3>6. ((pos + 1) - 3) - (IF u.state = 1 THEN 1 ELSE 0) = n + 1
      <4>1. u.state # 1 BY <1>6, <2>5
      <4> QED BY <3>3, <4>1
    <3>7. ~(pos + 1 >= size - 4) /\ ~(pos + 1 >= size - 3) BY <1>1, <1>2, <3>1
    <3> QED BY <1>1, <1>6, <3>5, <3>6, <3>7, Zenon
  <2> QED BY <2>4, <2>5
<1>13. CASE pos >= size - 4
  <2> DEFINE j == pos - (size - 5)
  <2>1. TrailerAt(t, page, j) BY <1>1, <1>13, TrailerIs, Zenon
  <2>2. j \in 1 .. 4
    <3> HIDE DEF size
    <3> QED BY <1>1, <1>2, <1>13
  <2>3. /\ t.state = j
        /\ j \in 2 .. 4 => t.control_code = END_OF_FRAME
    <3> HIDE DEF j
    <3>1. j # 5 BY <2>2
    <3> QED BY <2>1, <3>1, Zenon DEF TrailerAt
  <2> DEFINE digit(i) == code((size - 3) + i) - 48
  <2>4. /\ Received(page, 0) = 0 /\ Received(page, 1) = 100 * digit(1)
        /\ Received(page, 2) = 100 * digit(1) + 10 * digit(2)
        /\ Received(page, 3) = 100 * digit(1) + 10 * digit(2) + digit(3)
    <3>1. 0 # 1 /\ 0 # 2 /\ 0 # 3 /\ 1 # 2 /\ 1 # 3 /\ 2 # 3 OBVIOUS
    <3> QED BY <3>1, Zenon DEF Received
  <2> HIDE DEF size
  <2>5. /\ j = 1 => pos + 1 = size - 3 /\ (pos + 1) - (size - 3) = 0
        /\ j = 2 => /\ pos + 1 = size - 2 /\ pos + 1 = (size - 3) + 1
                    /\ (pos + 1) - (size - 3) = 1 /\ pos - (size - 3) = 0
        /\ j = 3 => /\ pos + 1 = size - 1 /\ pos + 1 = (size - 3) + 2
                    /\ (pos + 1) - (size - 3) = 2 /\ pos - (size - 3) = 1
        /\ j = 4 => /\ pos + 1 = size /\ pos + 1 = (size - 3) + 3
                    /\ (pos + 1) - (size - 3) = 3 /\ pos - (size - 3) = 2
        /\ j # 1 => pos >= size - 3
        /\ ~(pos + 1 <= size - 5) /\ pos + 1 >= size - 4
    BY <1>1, <1>2, <1>13
  <2> HIDE DEF u, b, sum, r, k, r2, k2, code, digit, j
  <2>6. b # CHAR_BAR
    <3>1. j = 1 => b = END_OF_FRAME BY <1>1, <1>2, <2>5
    <3>2. j \in {2, 3, 4} => b \in 48 .. 57 BY <1>1, <1>2, <2>5
    <3> QED BY <1>3, <2>2, <3>1, <3>2
  <2>7. r = FrameSum(page) BY <1>8, <1>13
  <2>8. r2 = r /\ k2 = Received(page, (pos + 1) - (size - 3))
    <3>1. CASE j = 1
      <4>1. b = END_OF_FRAME BY <1>1, <1>2, <2>5, <3>1
      <4>2. r2 = r /\ k2 = 0 BY <1>7, <2>3, <3>1, <4>1
      <4> QED BY <2>4, <2>5, <3>1, <4>2
    <3>2. CASE j = 2
      <4>1. t.state > 1 /\ t.state = 2 BY <2>3, <3>2
      <4>2. r2 = r /\ k2 = k + (b - 48) * 100 BY <1>7, <2>2, <2>3, <2>6, <3>2, <4>1
      <4>3. k = 0 BY <1>8, <2>4, <2>5, <3>2
      <4>4. b - 48 = digit(1) BY <1>1, <2>5, <3>2 DEF digit
      <4>5. b \in Int BY <1>4 DEF Ascii
      <4>6. k2 = 100 * (b - 48) BY <4>2, <4>3, <4>5
      <4> QED BY <2>4, <2>5, <3>2, <4>2, <4>4, <4>6
    <3>3. CASE j = 3
      <4>1. t.state > 1 /\ t.state = 3 BY <2>3, <3>3
      <4>2. r2 = r /\ k2 = k + (b - 48) * 10 BY <1>7, <2>2, <2>3, <2>6, <3>3, <4>1
      <4>3. k = 100 * digit(1) BY <1>8, <2>4, <2>5, <3>3
      <4>4. b - 48 = digit(2) BY <1>1, <2>5, <3>3 DEF digit
      <4>5. b \in Int BY <1>4 DEF Ascii
      <4>6. (b - 48) * 10 = 10 * (b - 48) BY <4>5
      <4> QED BY <2>4, <2>5, <3>3, <4>2, <4>3, <4>4, <4>6
    <3>4. CASE j = 4
      <4>1. t.state > 1 /\ t.state # 2 /\ t.state # 3 BY <2>3, <3>4
      <4>2. r2 = r /\ k2 = k + (b - 48) * 1 BY <1>7, <2>2, <2>3, <2>6, <3>4, <4>1
      <4>3. k = 100 * digit(1) + 10 * digit(2) BY <1>8, <2>4, <2>5, <3>4
      <4>4. b - 48 = digit(3) BY <1>1, <2>5, <3>4 DEF digit
      <4>5. b \in Int BY <1>4 DEF Ascii
      <4>6. (b - 48) * 1 = b - 48 BY <4>5
      <4> QED BY <2>4, <2>5, <3>4, <4>2, <4>3, <4>4, <4>6
    <3> QED BY <2>2, <3>1, <3>2, <3>3, <3>4
  <2> QED BY <1>1, <1>6, <2>5, <2>7, <2>8, Zenon
<1>14. pos <= size - 5 \/ pos >= size - 4
  <2> HIDE DEF size
  <2> QED BY <1>1, <1>2
<1> HIDE DEF Goal
<1> QED BY <1>12, <1>13, <1>14

\* What is left tells the place.
LEMMA HereIs ==
    ASSUME PInv, NEW pos \in 0 .. Size(host), NEW m \in Nat, FollowsAt(pos, m)
    PROVE  here = pos
<1> DEFINE s == Transmission[host]
           n == Len(s)
           r == From(s, pos)
<1>1. s \in Seq(Byte) /\ Size(host) = n BY RestType, Zenon DEF PInv, Size
<1>2. rest = r BY Zenon DEF FollowsAt
<1>3. pos \in 0 .. n BY <1>1
<1> HIDE DEF s
<1>4. Len(r) = n - pos /\ n \in Nat BY <1>1, <1>3 DEF From
<1> HIDE DEF n, r
<1>5. n - (n - pos) = pos BY <1>3, <1>4
<1> QED BY <1>1, <1>2, <1>4, <1>5 DEF here

\* The steps that leave the decoder, the page and what comes of it as they are.
LEMMA SumPaces ==
    ASSUME SumInv, UNCHANGED <<buffer, to_client, tele, host>>,
           pc = "exited" => pc' = "exited"
    PROVE  SumInv'
<1>1. rest' = rest BY DEF rest
<1>2. here' = here BY <1>1 DEF here
<1> QED BY <1>2 DEF SumInv, ChecksAgree

\* A read keeps the sum and forgets the end of the frame before.
LEMMA SumRead ==
    ASSUME PInv, SumInv, ReadSocket
    PROVE  SumInv'
<1>1. /\ pc = "socket" /\ tele' = TeleStart(tele) /\ host' = host
  BY Zenon DEF ReadSocket, outside, download, download_file
<1>2. PICK n \in 1 .. Len(to_client) :
         /\ buffer' = SubSeq(to_client, 1, n)
         /\ to_client' = SubSeq(to_client, n + 1, Len(to_client))
  BY DEF ReadSocket
<1>3. buffer = << >> BY <1>1 DEF PInv, PatientInv
<1>4. to_client \in Seq(Byte) /\ tele \in TeleStates BY Zenon DEF PInv, IInv, TypeOK
<1>5. rest' = rest
  <2>1. rest = to_client BY <1>3, <1>4, NothingMore DEF rest
  <2>2. rest' = to_client BY <1>2, <1>4, SplitOnce, Zenon DEF rest
  <2> QED BY <2>1, <2>2
<1>6. here' = here BY <1>1, <1>5 DEF here
<1>7. /\ ~tele'.end_of_frame /\ tele'.state = tele.state
      /\ tele'.frame_number = tele.frame_number /\ ~tele'.check.parity_error
      /\ tele'.check.running_checksum = tele.check.running_checksum
      /\ tele'.check.checksum = tele.check.checksum
  BY <1>1, <1>4 DEF TeleStart, TeleStates, Checks
<1>8. \A pos : SumAt(tele, host, pos) => SumAt(tele', host, pos) BY <1>7 DEF SumAt
<1> QED BY <1>1, <1>6, <1>7, <1>8 DEF SumInv, ChecksAgree

\* vt_tele_reset() forgets it all.
LEMMA SumReset ==
    ASSUME tele' = TeleReset
    PROVE  SumInv'
<1>1. tele'.frame_number = 0 /\ ~tele'.check.parity_error BY DEF TeleReset
<1> QED BY <1>1 DEF SumInv, ChecksAgree

\* A page that has been asked for begins when the page before it has been read.
LEMMA SumAnswered ==
    ASSUME PInv, SumInv, HostAnswers
    PROVE  SumInv'
<1>1. to_host # << >> /\ UNCHANGED <<pc, buffer, tele, typed>> BY DEF HostAnswers, program
<1>2. CASE Head(to_host) = LOGOFF
  <2>1. UNCHANGED <<host, to_client>> BY <1>2 DEF HostAnswers
  <2> QED BY <1>1, <2>1, SumPaces
<1>3. CASE Head(to_host) # LOGOFF
  <2>1. to_client' = to_client \o Transmission[host'] BY <1>3 DEF HostAnswers
  <2>2. ASSUME pc # "exited", tele.frame_number # 0 PROVE here' = 0
    <3>1. Follows BY <2>2, Zenon DEF PInv, PatientInv, Leaves, LeavesAt
    <3>2. rest = << >> BY <1>1, <3>1, Zenon DEF Follows, FollowsAt, KeysAt
    <3>3. /\ buffer \in Seq(Byte) /\ to_client \in Seq(Byte) /\ to_host \in Seq(Ascii)
          /\ host \in TelePages
      BY RestType, Zenon DEF PInv, IInv, TypeOK
    <3>4. buffer = << >> /\ to_client = << >>
      <4>1. Len(buffer \o to_client) = Len(buffer) + Len(to_client)
            /\ Len(buffer) \in Nat /\ Len(to_client) \in Nat
        BY <3>3
      <4>2. Len(buffer \o to_client) = 0 BY <3>2 DEF rest
      <4>3. Len(buffer) = 0 /\ Len(to_client) = 0 BY <4>1, <4>2
      <4> QED BY <3>3, <4>3
    <3>5. PInv' BY PatientNextInv, Zenon DEF PatientNext
    <3> DEFINE s == Transmission[host']
    <3>6. s \in Seq(Byte)
      <4>1. host' \in Pages BY <3>5, Zenon DEF PInv, IInv, TypeOK
      <4>2. host' \in TelePages BY <4>1, HostAssumption, Zenon
      <4> QED BY <4>2, RestType, Zenon DEF PInv
    <3> HIDE DEF s
    <3>7. rest' = s
      <4>1. to_client' = << >> \o s BY <2>1, <3>4 DEF s
      <4>2. to_client' = s BY <3>6, <4>1, NothingMore, Zenon
      <4>3. rest' = << >> \o s BY <1>1, <3>4, <4>2 DEF rest
      <4> QED BY <3>6, <4>3, NothingMore, Zenon
    <3>8. Len(s) \in Nat BY <3>6
    <3> DEFINE n == Len(s)
    <3> HIDE DEF n
    <3>9. n - n = 0 BY <3>8 DEF n
    <3>10. here' = n - n BY <3>7 DEF here, Size, s, n
    <3> QED BY <3>9, <3>10
  <2> QED BY <1>1, <2>2 DEF SumInv, ChecksAgree
<1> QED BY <1>2, <1>3

\* Every byte of a frame is sent with even parity.
LEMMA SentEven ==
    ASSUME NEW page \in TelePages, page # TextPage, NEW pos \in 1 .. Size(page),
           NEW byte, byte = Transmission[page][pos]
    PROVE  Parity(byte) = byte \div 128
<1> DEFINE w == <<12>> \o Frame(page.frame, [i \in 1 .. Size(page) - 14 |-> Code(page, 9 + i)])
<1>1. w[pos] \in Ascii /\ byte = w[pos] + 128 * Parity(w[pos]) BY FrameData, Zenon
<1> HIDE DEF w
<1> QED BY <1>1, EvenParity, Zenon

\* Such a byte, or one outside a frame, sets no parity error.
LEMMA NoError ==
    ASSUME NEW t \in TeleStates, Waits(t), NEW byte \in Byte, ~t.check.parity_error,
           t.in_frame => Parity(byte) = byte \div 128
    PROVE  ~TeleByte(t, byte).check.parity_error
<1> DEFINE c == ParityChecked(t, byte)
           b == byte % 128
<1>1. TeleByte(t, byte).check = Summed(t, c, b) /\ c \in Checks /\ ~c.parity_error
  BY CheckIs, Zenon
<1>2. b \in Ascii BY ModuloRange DEF Byte
<1> HIDE DEF c, b
<1>3. Summed(t, c, b).parity_error = c.parity_error BY <1>1, <1>2, SummedIs, Zenon
<1> QED BY <1>1, <1>3 DEF b

\* A byte of the page that the host shows has even parity and is summed.
LEMMA SumFollows ==
    ASSUME PInv, SumInv, DecodeByte, Follows
    PROVE  SumInv'
<1> DEFINE byte == Head(buffer)
           bytes == Transmission[host]
           size == Size(host)
           u == TeleByte(tele, byte)
<1>1. /\ pc = "decode" /\ pc' = pc /\ buffer # << >> /\ buffer' = Tail(buffer)
      /\ tele' = u /\ to_client' = to_client /\ host' = host
  BY Zenon DEF DecodeByte, wire, outside, download, download_file
<1>2. PICK pos \in 0 .. size, m \in Nat : FollowsAt(pos, m) BY DEF Follows
<1>3. /\ bytes \in Seq(Byte) /\ host \in TelePages /\ size \in Nat /\ size = Len(bytes)
      /\ tele \in TeleStates /\ Waits(tele)
      /\ buffer \in Seq(Byte) /\ to_client \in Seq(Byte)
  BY RestType, Zenon DEF PInv, IInv, TypeOK, Size
<1>4. here = pos BY <1>2, HereIs, Zenon
<1>5. rest # << >> /\ Head(rest) = byte /\ rest' = Tail(rest)
  BY <1>1, <1>3, TailOfBoth, Zenon DEF rest
<1>6. rest = From(bytes, pos) BY <1>2, Zenon DEF FollowsAt
<1>7. pos \in 0 .. Len(bytes) - 1 /\ pos \in Nat /\ pos < Size(host)
  <2>1. From(bytes, Len(bytes)) = << >> BY <1>3, FromEnds, Zenon
  <2> HIDE DEF size, bytes
  <2>2. pos # size BY <1>3, <1>5, <1>6, <2>1
  <2>3. pos \in Nat /\ pos < size BY <1>3, <2>2
  <2> QED BY <1>3, <2>3 DEF size
<1>8. byte = bytes[pos + 1] /\ rest' = From(bytes, pos + 1)
  BY <1>3, <1>5, <1>6, <1>7, FromStep, Zenon
<1>9. byte \in Byte
  <2> HIDE DEF bytes
  <2> QED BY <1>3, <1>7, <1>8
<1>10. here' = pos + 1
  <2> DEFINE n == Len(bytes)
             r == From(bytes, pos + 1)
  <2>1. Len(r) = n - (pos + 1)
    <3> HIDE DEF bytes
    <3> QED BY <1>3, <1>7 DEF From
  <2>2. here' = n - Len(r) BY <1>1, <1>8 DEF here, Size
  <2>3. n \in Nat BY <1>3
  <2> HIDE DEF n, r
  <2> QED BY <1>7, <2>1, <2>2, <2>3
<1>11. TeleAt(tele, host, pos, m) BY <1>2, Zenon DEF FollowsAt

<1>12. PICK m2 \in Nat :
          /\ TeleAt(u, host, pos + 1, m2)
          /\ host = TextPage => Kept(tele, u)
          /\ host # TextPage => Moved(tele, u, host, pos)
  BY <1>3, <1>7, <1>8, <1>9, <1>11, TeleStep, Zenon
<1>13. pc = "decode" /\ tele.end_of_frame =>
           IF host = TextPage THEN tele.frame_number = 0 ELSE pos = Size(host)
  BY <1>2, Zenon DEF FollowsAt
<1>14. ~u.check.parity_error
  <2>1. ~tele.check.parity_error BY DEF SumInv
  <2>2. CASE host = TextPage
    <3>1. ~tele.in_frame BY <1>11, <2>2, Zenon DEF TeleAt, TextAt
    <3> QED BY <1>3, <1>9, <2>1, <3>1, NoError, Zenon
  <2>3. CASE host # TextPage
    <3>1. pos + 1 \in 1 .. Size(host) BY <1>3, <1>7
    <3>2. Parity(byte) = byte \div 128 BY <1>3, <1>8, <2>3, <3>1, SentEven, Zenon
    <3> QED BY <1>3, <1>9, <2>1, <3>2, NoError, Zenon
  <2> QED BY <2>2, <2>3
<1>15. ASSUME host # TextPage, pos + 1 >= 3 PROVE SumAt(u, host, pos + 1)
  <2>1. byte % 128 = Code(host, pos + 1) BY <1>8, Zenon DEF Code
  <2>2. Comes(tele, host, pos, byte)
    BY <1>3, <1>7, <1>9, <1>15, <2>1, Zenon DEF Comes
  <2>3. /\ Counted(tele, host, pos) /\ PartAt(tele, host, pos, m)
    BY <1>11, <1>15, Zenon DEF TeleAt, FrameAt
  <2>4. CASE pos = 2
    <3>1. HeadAt(tele, 2)
      <4>1. size >= 14 BY <1>3, <1>15, FrameBytes, Zenon
      <4>2. ~(host.frame > 1 /\ PieceAt(tele, host, pos, m))
        <5>1. ASSUME host.frame > 1, PieceAt(tele, host, pos, m)
              PROVE  pos \in 9 .. 9 + BodySize(host)
          BY <1>3, <1>7, <1>15, <5>1, PieceSpan, Zenon
        <5>2. 2 \notin 9 .. 9 + BodySize(host) OBVIOUS
        <5> QED BY <2>4, <5>1, <5>2
      <4>3. ~(pos \in size - 6 .. size - 5) /\ ~(pos >= size - 4) /\ ~(pos \in 9 .. 14)
        <5> HIDE DEF size
        <5> QED BY <1>3, <2>4, <4>1
      <4> QED BY <2>3, <2>4, <4>2, <4>3 DEF PartAt
    <3> QED BY <2>2, <2>4, <3>1, SumStart
  <2>5. CASE pos >= 3
    <3>1. tele.frame_number # 0
      <4>1. tele.frame_number \in Nat BY <1>3, FieldRanges, Zenon
      <4> HIDE DEF size
      <4>2. ~(LastPage(host) /\ pos = Size(host)) BY <1>3, <1>7
      <4> QED BY <2>3, <2>5, <4>1, <4>2 DEF Counted
    <3>2. pc # "exited" /\ here >= 3 BY <1>1, <1>4, <2>5
    <3>3. SumAt(tele, host, pos) BY <1>4, <1>15, <3>1, <3>2, Zenon DEF SumInv
    <3> QED BY <2>2, <2>3, <2>5, <3>3, SumStep, Zenon
  <2>6. pos = 2 \/ pos >= 3 BY <1>7, <1>15
  <2> QED BY <2>4, <2>5, <2>6
<1> HIDE DEF byte, u
<1>16. ChecksAgree'
  <2> SUFFICES ASSUME u.end_of_frame, u.frame_number # 0
               PROVE  u.check.checksum = u.check.running_checksum /\ ~u.check.parity_error
    BY <1>1, Zenon DEF ChecksAgree
  <2>1. host # TextPage
    <3>1. host = TextPage =>
              u.end_of_frame = tele.end_of_frame /\ u.frame_number = tele.frame_number
      BY <1>12, Zenon DEF Kept
    <3> QED BY <1>1, <1>13, <3>1
  <2>2. pos = size - 1
    <3>1. tele.end_of_frame \/ pos = size - 1 BY <1>12, <2>1, Zenon DEF Moved
    <3> HIDE DEF size
    <3>2. ~tele.end_of_frame BY <1>1, <1>7, <1>13, <2>1
    <3> QED BY <3>1, <3>2
  <2>3. size >= 14 BY <1>3, <2>1, FrameBytes, Zenon
  <2> HIDE DEF size
  <2>4. pos + 1 = size /\ pos + 1 >= 3 /\ size >= size - 4 /\ size >= size - 3
        /\ size - (size - 3) = 3
    BY <1>3, <2>2, <2>3
  <2>5. SumAt(u, host, size) BY <1>15, <2>1, <2>4
  <2>6. u.check.running_checksum = FrameSum(host) /\ u.check.checksum = Received(host, 3)
    BY <2>4, <2>5 DEF SumAt, size
  <2>7. Received(host, 3) = FrameSum(host) BY <1>3, <2>1, FrameSumIs, Zenon
  <2> QED BY <1>14, <2>6, <2>7
<1> QED BY <1>1, <1>10, <1>14, <1>15, <1>16 DEF SumInv

\* The rest of a frame that has been left is not summed.
LEMMA SumLeaves ==
    ASSUME PInv, SumInv, DecodeByte, Leaves
    PROVE  SumInv'
<1> DEFINE byte == Head(buffer)
           u == TeleByte(tele, byte)
<1>1. pc = "decode" /\ pc' = pc /\ buffer # << >> /\ tele' = u /\ host' = host
  BY Zenon DEF DecodeByte, outside
<1>2. buffer \in Seq(Byte) /\ tele \in TeleStates /\ Waits(tele)
  BY Zenon DEF PInv, IInv, TypeOK
<1>3. byte \in Byte BY <1>1, <1>2
<1>4. ~tele.in_frame /\ tele.frame_number = 0 BY Zenon DEF Leaves, LeavesAt
<1>5. ~tele.check.parity_error BY DEF SumInv
<1>6. ~u.check.parity_error BY <1>2, <1>3, <1>4, <1>5, NoError, Zenon
<1>7. u.frame_number = 0 BY <1>1, DecodeLeaves
<1> QED BY <1>1, <1>6, <1>7 DEF SumInv, ChecksAgree

\* Every step of a session with a patient user keeps the sum.
LEMMA SumNextInv == PInv /\ SumInv /\ [PatientNext]_vars => SumInv'
<1> SUFFICES ASSUME PInv, SumInv, [PatientNext]_vars PROVE SumInv' OBVIOUS
<1>1. CASE ReadSocket BY <1>1, SumRead, Zenon
<1>2. CASE DecodeByte
  <2>1. pc # "exited" BY <1>2, Zenon DEF DecodeByte
  <2>2. Follows \/ Leaves BY <2>1, Zenon DEF PInv, PatientInv
  <2> QED BY <1>2, <2>2, SumFollows, SumLeaves, Zenon
<1>3. CASE FileEnds
  <2>1. tele' = TeleReset BY <1>3, Zenon DEF FileEnds
  <2> QED BY <2>1, SumReset, Zenon
<1>4. CASE HostAnswers BY <1>4, SumAnswered, Zenon
<1>5. CASE Test \/ Poll \/ SkipSocket \/ SkipKey \/ ServeTimer \/ HeaderLookedFor
  BY <1>5, SumPaces
     DEF Test, Poll, SkipSocket, SkipKey, ServeTimer, HeaderLookedFor, Decoded, wire, outside
<1>6. CASE CloseFails \/ KeepKey \/ FrameContinues \/ StartDownload \/ OpenFails \/ SendKey
  BY <1>6, SumPaces
     DEF CloseFails, KeepKey, FrameContinues, StartDownload, OpenFails, SendKey, Decoded,
         KeyReady, wire, outside
<1>7. CASE Cleanup BY <1>7, SumPaces DEF Cleanup, outside
<1>8. CASE \E key \in Keys : Patient(key) /\ TypeKey(key)
  BY <1>8, SumPaces DEF TypeKey, program, wire
<1>9. CASE TimerExpires \/ Signal \/ HostCloses \/ UNCHANGED vars
  BY <1>9, SumPaces DEF TimerExpires, Signal, HostCloses, vars, program, flags, wire, outside
<1> QED
  BY <1>1, <1>2, <1>3, <1>4, <1>5, <1>6, <1>7, <1>8, <1>9, Zenon DEF PatientNext, Program

-----------------------------------------------------------------------------
(* A user who types at any moment.                                         *)

\* Two decoders that take a byte the same way, and what it may change in them.
InStep(t, s) ==
    t.state = s.state /\ (t.state >= 2 => t.control_code = s.control_code)
Turned(t, u, s, v) ==
    /\ \/ u.shift_offset = t.shift_offset /\ v.shift_offset = s.shift_offset
       \/ u.shift_offset = v.shift_offset
    /\ \/ u.in_frame = t.in_frame /\ v.in_frame = s.in_frame
       \/ ~u.in_frame /\ ~v.in_frame
       \/ u.in_frame /\ v.in_frame /\ v.frame_number # s.frame_number
    /\ u.frame_number = t.frame_number \/ v.frame_number # s.frame_number
    /\ (s.ignore => t.ignore) /\ s.frame_number # 1 => (v.ignore => u.ignore)

\* They stay in step.
LEMMA StayInStep ==
    ASSUME NEW t \in TeleStates, NEW s \in TeleStates, Waits(t), Waits(s), InStep(t, s),
           NEW byte \in Byte
    PROVE  LET u == TeleByte(t, byte)  v == TeleByte(s, byte)
           IN  InStep(u, v) /\ Turned(t, u, s, v)
<1> DEFINE u == TeleByte(t, byte)
           v == TeleByte(s, byte)
           b == byte % 128
           Goal == InStep(u, v) /\ Turned(t, u, s, v)
<1> SUFFICES Goal OBVIOUS
<1>1. /\ t.state = s.state /\ t.state \in 0 .. 4
      /\ t.in_frame \in BOOLEAN /\ s.in_frame \in BOOLEAN
      /\ t.ignore \in BOOLEAN /\ s.ignore \in BOOLEAN
      /\ t.frame_number \in Nat /\ s.frame_number \in Nat
      /\ t.state >= 2 => t.control_code = s.control_code
  BY FieldRanges DEF InStep
<1>2. ASSUME Kept(t, u), Kept(s, v), NEW state, NEW code,
             Stands(u, state, code, t.ignore, t.in_frame),
             Stands(v, state, code, s.ignore, s.in_frame)
      PROVE  Goal
  <2> HIDE DEF u, v, b
  <2> QED BY <1>1, <1>2 DEF Goal, InStep, Turned, Kept, Stands
<1>3. CASE b = CHAR_BAR
  <2>1. Kept(t, u) /\ Stands(u, 1, t.control_code, t.ignore, t.in_frame)
    BY <1>3, BarStep, Zenon
  <2>2. Kept(s, v) /\ Stands(v, 1, s.control_code, s.ignore, s.in_frame)
    BY <1>3, BarStep, Zenon
  <2> HIDE DEF u, v, b
  <2> QED BY <1>1, <2>1, <2>2 DEF Goal, InStep, Turned, Kept, Stands
<1>4. ASSUME NEW r \in TeleStates, Waits(r), b # CHAR_BAR, r.state = 0
      PROVE  LET w == TeleByte(r, byte)
             IN  /\ Stands(w, 0, r.control_code, r.ignore, r.in_frame)
                 /\ w.shift_offset = r.shift_offset /\ w.frame_number = r.frame_number
  <2> DEFINE w == TeleByte(r, byte)
  <2>1. r.in_frame \in BOOLEAN BY FieldRanges
  <2>2. CASE ~r.in_frame
    <3>1. Kept(r, w) /\ Stands(w, 0, r.control_code, r.ignore, FALSE)
      BY <1>4, <2>2, IdleStep, Zenon
    <3> HIDE DEF w
    <3>2. r.in_frame = FALSE BY <2>1, <2>2
    <3> QED BY <3>1, <3>2 DEF Kept, w
  <2>3. CASE r.in_frame /\ ~IsName(r)
    <3>1. Kept(r, w) /\ Stands(w, 0, r.control_code, r.ignore, TRUE)
      BY <1>4, <2>3, DataStep, Zenon
    <3> HIDE DEF w
    <3>2. r.in_frame = TRUE BY <2>1, <2>3
    <3> QED BY <3>1, <3>2 DEF Kept, w
  <2>4. CASE r.in_frame /\ IsName(r)
    <3>1. /\ Stands(w, 0, r.control_code, r.ignore, TRUE)
          /\ w.frame_number = r.frame_number /\ w.shift_offset = r.shift_offset
      BY <1>4, <2>4, NameStep, Zenon
    <3> HIDE DEF w
    <3>2. r.in_frame = TRUE BY <2>1, <2>4
    <3> QED BY <3>1, <3>2 DEF w
  <2> QED BY <2>2, <2>3, <2>4
<1>5. CASE b # CHAR_BAR /\ t.state = 0
  <2>1. /\ Stands(u, 0, t.control_code, t.ignore, t.in_frame)
        /\ u.shift_offset = t.shift_offset /\ u.frame_number = t.frame_number
    BY <1>4, <1>5
  <2>2. /\ Stands(v, 0, s.control_code, s.ignore, s.in_frame)
        /\ v.shift_offset = s.shift_offset /\ v.frame_number = s.frame_number
    BY <1>1, <1>4, <1>5
  <2> HIDE DEF u, v, b
  <2> QED BY <1>1, <2>1, <2>2 DEF Goal, InStep, Turned, Stands
<1>6. CASE b # CHAR_BAR /\ t.state = 1
  <2>1. t.state = 1 /\ s.state = 1 BY <1>1, <1>6
  <2>2. CASE b = TERMINATOR
    <3>1. Kept(t, u) /\ Stands(u, 0, b, FALSE, t.in_frame)
      BY <1>6, <2>1, <2>2, CodeStep, Zenon
    <3>2. Kept(s, v) /\ Stands(v, 0, b, FALSE, s.in_frame)
      BY <1>6, <2>1, <2>2, CodeStep, Zenon
    <3> HIDE DEF u, v, b
    <3> QED BY <1>1, <3>1, <3>2 DEF Goal, InStep, Turned, Kept, Stands
  <2>3. CASE b = END_OF_LINE
    <3> DEFINE x == t.ignore \/ t.frame_number = 1
               y == s.ignore \/ s.frame_number = 1
    <3>1. Kept(t, u) /\ Stands(u, 0, b, x, t.in_frame)
      BY <1>6, <2>1, <2>3, CodeStep, Zenon
    <3>2. Kept(s, v) /\ Stands(v, 0, b, y, s.in_frame)
      BY <1>6, <2>1, <2>3, CodeStep, Zenon
    <3>3. (s.ignore => t.ignore) /\ s.frame_number # 1 => (y => x) OBVIOUS
    <3> HIDE DEF u, v, b, x, y
    <3> QED BY <1>1, <3>1, <3>2, <3>3 DEF Goal, InStep, Turned, Kept, Stands
  <2>4. CASE b \in {BAR, CHAR_THREE_QUARTERS}
    <3>1. Kept(t, u) /\ Stands(u, 0, b, t.ignore, t.in_frame)
      BY <1>6, <2>1, <2>4, CodeStep, Zenon
    <3>2. Kept(s, v) /\ Stands(v, 0, b, s.ignore, s.in_frame)
      BY <1>6, <2>1, <2>4, CodeStep, Zenon
    <3> QED BY <1>2, <3>1, <3>2
  <2>5. CASE b = FRAME_LETTER
    <3>1. Kept(t, u) /\ Stands(u, 2, b, t.ignore, t.in_frame)
      BY <1>6, <2>1, <2>5, CodeStep, Zenon
    <3>2. Kept(s, v) /\ Stands(v, 2, b, s.ignore, s.in_frame)
      BY <1>6, <2>1, <2>5, CodeStep, Zenon
    <3> QED BY <1>2, <3>1, <3>2
  <2>6. CASE b = END_OF_FRAME
    <3>1. Kept(t, u) /\ Stands(u, 2, b, t.ignore, FALSE)
      BY <1>6, <2>1, <2>6, CodeStep, Zenon
    <3>2. Kept(s, v) /\ Stands(v, 2, b, s.ignore, FALSE)
      BY <1>6, <2>1, <2>6, CodeStep, Zenon
    <3> HIDE DEF u, v, b
    <3> QED BY <1>1, <3>1, <3>2 DEF Goal, InStep, Turned, Kept, Stands
  <2>7. CASE b \in SHIFTS
    <3> DEFINE x == ShiftOffset(b)
    <3>1. /\ Stands(u, 0, b, t.ignore, t.in_frame)
          /\ Counts(u, t.frame_number, x, t.filename, t.end_of_file, t.end_of_frame)
      BY <1>6, <2>1, <2>7, CodeStep, Zenon
    <3>2. /\ Stands(v, 0, b, s.ignore, s.in_frame)
          /\ Counts(v, s.frame_number, x, s.filename, s.end_of_file, s.end_of_frame)
      BY <1>6, <2>1, <2>7, CodeStep, Zenon
    <3> HIDE DEF u, v, b, x
    <3> QED BY <1>1, <3>1, <3>2 DEF Goal, InStep, Turned, Counts, Stands
  <2>8. CASE b = START_FRAME
    <3>1. /\ Stands(u, 0, b, t.ignore, TRUE)
          /\ Counts(u, t.frame_number + 1, t.shift_offset, t.filename,
                    t.end_of_file, t.end_of_frame)
      BY <1>6, <2>1, <2>8, CodeStep, Zenon
    <3>2. /\ Stands(v, 0, b, s.ignore, TRUE)
          /\ Counts(v, s.frame_number + 1, s.shift_offset, s.filename,
                    s.end_of_file, s.end_of_frame)
      BY <1>6, <2>1, <2>8, CodeStep, Zenon
    <3> HIDE DEF u, v, b
    <3> QED BY <1>1, <3>1, <3>2 DEF Goal, InStep, Turned, Counts, Stands
  <2>9. CASE b = END_OF_FILE
    <3>1. /\ Stands(u, 0, b, t.ignore, FALSE)
          /\ Counts(u, t.frame_number, t.shift_offset, t.filename, TRUE, t.end_of_frame)
      BY <1>6, <2>1, <2>9, CodeStep, Zenon
    <3>2. /\ Stands(v, 0, b, s.ignore, FALSE)
          /\ Counts(v, s.frame_number, s.shift_offset, s.filename, TRUE, s.end_of_frame)
      BY <1>6, <2>1, <2>9, CodeStep, Zenon
    <3> HIDE DEF u, v, b
    <3> QED BY <1>1, <3>1, <3>2 DEF Goal, InStep, Turned, Counts, Stands
  <2>10. CASE b \notin {CHAR_BAR, TERMINATOR, END_OF_LINE, BAR, CHAR_THREE_QUARTERS,
                        FRAME_LETTER, END_OF_FRAME, START_FRAME, END_OF_FILE} \cup SHIFTS
    <3> DEFINE z == b \notin {START_DATA, START_HEADER}
               x == t.ignore \/ z
               y == s.ignore \/ z
    <3>1. Kept(t, u) /\ Stands(u, 0, b, x, t.in_frame)
      BY <2>1, <2>10, OtherCode, Zenon
    <3>2. Kept(s, v) /\ Stands(v, 0, b, y, s.in_frame)
      BY <2>1, <2>10, OtherCode, Zenon
    <3> HIDE DEF z
    <3>3. (s.ignore => t.ignore) => (y => x) OBVIOUS
    <3> HIDE DEF u, v, b, x, y
    <3> QED BY <1>1, <3>1, <3>2, <3>3 DEF Goal, InStep, Turned, Kept, Stands
  <2> QED BY <1>6, <2>2, <2>3, <2>4, <2>5, <2>6, <2>7, <2>8, <2>9, <2>10
<1>7. CASE b # CHAR_BAR /\ t.state >= 2
  <2> DEFINE state == IF t.state = 4 THEN 0 ELSE t.state + 1
             code == t.control_code
  <2>1. s.state >= 2 /\ s.control_code = code /\ (IF s.state = 4 THEN 0 ELSE s.state + 1) = state
    BY <1>1, <1>7
  <2>2. CASE code = FRAME_LETTER
    <3>1. Kept(t, u) /\ Stands(u, 0, code, TRUE, t.in_frame)
      BY <1>7, <2>2, WaitStep, Zenon
    <3>2. Kept(s, v) /\ Stands(v, 0, s.control_code, TRUE, s.in_frame)
      BY <1>7, <2>1, <2>2, WaitStep, Zenon
    <3> HIDE DEF u, v, b
    <3> QED BY <1>1, <3>1, <3>2 DEF Goal, InStep, Turned, Kept, Stands
  <2>3. CASE code = END_OF_FRAME
    <3>1. /\ Stands(u, state, code, t.ignore, t.in_frame)
          /\ Counts(u, t.frame_number, t.shift_offset, t.filename, t.end_of_file,
                    t.state = 4 \/ t.end_of_frame)
      BY <1>7, <2>3, WaitStep, Zenon
    <3>2. /\ Stands(v, IF s.state = 4 THEN 0 ELSE s.state + 1, s.control_code,
                    s.ignore, s.in_frame)
          /\ Counts(v, s.frame_number, s.shift_offset, s.filename, s.end_of_file,
                    s.state = 4 \/ s.end_of_frame)
      BY <1>7, <2>1, <2>3, WaitStep, Zenon
    <3> HIDE DEF u, v, b, state
    <3>3. Stands(v, state, code, s.ignore, s.in_frame) BY <2>1, <3>2, Zenon
    <3> QED BY <1>1, <3>1, <3>2, <3>3 DEF Goal, InStep, Turned, Counts, Stands
  <2> QED BY <1>7, <2>2, <2>3 DEF Waits
<1> QED BY <1>1, <1>3, <1>5, <1>6, <1>7

\* The two decoders are alike, but for what they ignore and how many frames they
\* have counted.
Alike(t, s) ==
    /\ InStep(t, s) /\ t.in_frame = s.in_frame /\ t.shift_offset = s.shift_offset
    /\ s.ignore => t.ignore

\* The first has been reset within the frame that the other has taken pos bytes of.
Strays(t, s, pos) ==
    /\ pos >= 2 /\ t.frame_number = 0 /\ ~t.in_frame
    /\ \/ t.state = 0 /\ t.shift_offset = 0
       \/ pos # 2 /\ InStep(t, s) /\ t.shift_offset \in {0, s.shift_offset}

\* Alike decoders stay alike, and the one writes nothing or what the other does.
LEMMA AlikeStep ==
    ASSUME NEW t \in TeleStates, NEW s \in TeleStates, Waits(t), Waits(s), Alike(t, s),
           s.frame_number # 1, NEW byte \in Byte
    PROVE  /\ Alike(TeleByte(t, byte), TeleByte(s, byte))
           /\ TeleOutput(t, byte) \in {<< >>, TeleOutput(s, byte)}
<1> DEFINE u == TeleByte(t, byte)
           v == TeleByte(s, byte)
           b == byte % 128
<1>1. Alike(u, v)
  <2>1. InStep(u, v) /\ Turned(t, u, s, v) BY StayInStep, Zenon DEF Alike
  <2>2. u \in TeleStates /\ v \in TeleStates BY ByteType, Zenon
  <2> HIDE DEF u, v
  <2>3. u.in_frame \in BOOLEAN /\ v.in_frame \in BOOLEAN BY <2>2, FieldRanges
  <2> QED BY <2>1, <2>3 DEF Alike, Turned
<1>2. TeleOutput(t, byte) \in {<< >>, TeleOutput(s, byte)}
  <2>1. /\ t.state = s.state /\ t.in_frame = s.in_frame /\ t.shift_offset = s.shift_offset
        /\ s.ignore => t.ignore
    BY DEF Alike, InStep
  <2>2. CASE b = CHAR_BAR BY <2>2, Zenon DEF TeleOutput
  <2>3. CASE b # CHAR_BAR /\ InData(t)
    <3>1. InData(s) BY <2>1, <2>3, Zenon DEF InData
    <3>2. TeleOutput(t, byte) = IF t.ignore \/ t.frame_number = 1 THEN << >>
                                ELSE <<Char(DataChar(b) + t.shift_offset)>>
      BY <2>3, Zenon DEF TeleOutput
    <3>3. TeleOutput(s, byte) = IF s.ignore \/ s.frame_number = 1 THEN << >>
                                ELSE <<Char(DataChar(b) + s.shift_offset)>>
      BY <2>3, <3>1, Zenon DEF TeleOutput
    <3>4. ~t.ignore => TeleOutput(s, byte) = <<Char(DataChar(b) + t.shift_offset)>>
      BY <2>1, <3>3, Zenon
    <3> QED BY <3>2, <3>4, Zenon
  <2>4. CASE b # CHAR_BAR /\ ~InData(t) /\ t.state # 1 BY <2>4, Zenon DEF TeleOutput
  <2>5. CASE b # CHAR_BAR /\ t.state = 1
    <3> DEFINE x == <<Char(CHAR_THREE_QUARTERS + t.shift_offset)>>
               y == <<Char(CHAR_BAR + t.shift_offset)>>
    <3>1. TeleOutput(t, byte) =
              IF b = CHAR_THREE_QUARTERS THEN x
              ELSE IF b = BAR THEN y
              ELSE IF b = END_OF_LINE /\ t.frame_number # 1 THEN <<CR>> ELSE << >>
      BY <2>5, CodeOutput, Zenon
    <3>2. TeleOutput(s, byte) =
              IF b = CHAR_THREE_QUARTERS THEN x
              ELSE IF b = BAR THEN y
              ELSE IF b = END_OF_LINE /\ s.frame_number # 1 THEN <<CR>> ELSE << >>
      BY <2>1, <2>5, CodeOutput, Zenon
    <3> HIDE DEF x, y
    <3> QED BY <3>1, <3>2, Zenon
  <2> QED BY <2>2, <2>3, <2>4, <2>5
<1> QED BY <1>1, <1>2

\* After a reset nothing of the frame is data: the next |A is that of a next frame.
LEMMA StrayStep ==
    ASSUME NEW t \in TeleStates, NEW s \in TeleStates, Waits(t), Waits(s),
           NEW pos \in Nat, Strays(t, s, pos), NEW byte \in Byte,
           pos # 2 => TeleByte(s, byte).frame_number = s.frame_number
    PROVE  Strays(TeleByte(t, byte), TeleByte(s, byte), pos + 1)
<1> DEFINE u == TeleByte(t, byte)
           v == TeleByte(s, byte)
           b == byte % 128
<1> SUFFICES Strays(u, v, pos + 1) OBVIOUS
<1>1. pos >= 2 /\ t.frame_number = 0 /\ ~t.in_frame BY DEF Strays
<1>2. pos + 1 >= 2 /\ pos + 1 # 2 BY <1>1
<1>3. CASE t.state = 0 /\ t.shift_offset = 0 /\ b = CHAR_BAR
  <2>1. Kept(t, u) /\ Stands(u, 1, t.control_code, t.ignore, t.in_frame)
    BY <1>3, BarStep, Zenon
  <2>2. Stands(v, 1, s.control_code, s.ignore, s.in_frame) BY <1>3, BarStep, Zenon
  <2> HIDE DEF u, v, b
  <2> QED BY <1>1, <1>2, <1>3, <2>1, <2>2 DEF Strays, InStep, Kept, Stands
<1>4. CASE t.state = 0 /\ t.shift_offset = 0 /\ b # CHAR_BAR
  <2>1. Kept(t, u) /\ Stands(u, 0, t.control_code, t.ignore, FALSE)
    BY <1>1, <1>4, IdleStep, Zenon
  <2> HIDE DEF u, v, b
  <2> QED BY <1>1, <1>2, <1>4, <2>1 DEF Strays, Kept, Stands
<1>5. CASE pos # 2 /\ InStep(t, s) /\ t.shift_offset \in {0, s.shift_offset}
  <2>1. InStep(u, v) /\ Turned(t, u, s, v) BY <1>5, StayInStep, Zenon
  <2>2. v.frame_number = s.frame_number BY <1>5
  <2> HIDE DEF u, v, b
  <2> QED BY <1>1, <1>2, <1>5, <2>1, <2>2 DEF Strays, Turned
<1> QED BY <1>3, <1>4, <1>5 DEF Strays

-----------------------------------------------------------------------------
(* What the bytes of a frame write.                                        *)

\* The elements of short sequences.
LEMMA OneWritten == ToSet(<< >>) = {} /\ \A c : ToSet(<<c>>) = {c}
BY DEF ToSet

\* Characters of data are what they are, but for three quarters.
LEMMA DataKept ==
    ASSUME NEW c \in Ascii
    PROVE  /\ Char(DataChar(c) + 0) = DataChar(c)
           /\ c # CHAR_THREE_QUARTERS => DataChar(c) = c
BY DEF Char, DataChar, Ascii, CHAR_SPACE

\* The data of a header that is decoded as a data frame.
LEMMA HeaderWrites ==
    ASSUME NEW t, NEW page, NEW pos, NEW byte, Comes(t, page, pos, byte),
           page.frame = 1, NEW j \in 0 .. 4, pos = 9 + j, HeaderAt(t, page, j),
           t.frame_number # 1
    PROVE  ToSet(TeleOutput(t, byte)) \subseteq HeaderCharacters(page.program)
<1> DEFINE b == byte % 128
           p == page.program
           last == 48 + Len(Ends[p])
           out == TeleOutput(t, byte)
<1>1. /\ t \in TeleStates /\ Waits(t) /\ byte \in Byte
      /\ page \in TelePages /\ page # TextPage
  BY DEF Comes
<1>2. /\ j = 0 => b = p
      /\ j = 1 => b = CHAR_BAR
      /\ j = 2 => b = END_OF_LINE
      /\ j = 3 => b = 48
      /\ j = 4 => b = last /\ b \in 48 .. 57
  BY <1>1, HeaderBytes DEF Comes
<1>3. p \in Ascii
  <2>1. p \in Programs BY <1>1, PageFrame
  <2> HIDE DEF p
  <2> QED BY <2>1, HostAssumption
<1>4. t.state = (IF j = 2 THEN 1 ELSE 0) /\ t.in_frame /\ t.shift_offset = 0
  BY DEF HeaderAt
<1>5. HeaderCharacters(p) = {DataChar(p), CR, 48, last} BY DEF HeaderCharacters
<1> HIDE DEF b, p, last, out
<1>6. CASE j = 1
  <2>1. out = << >> BY <1>1, <1>2, <1>6, BarStep, Zenon DEF b, out
  <2> QED BY <2>1, OneWritten, Zenon DEF out
<1>7. CASE j = 2
  <2>1. b # CHAR_BAR /\ b = END_OF_LINE /\ t.state = 1
        /\ b # CHAR_THREE_QUARTERS /\ b # BAR
    BY <1>2, <1>4, <1>7 DEF CHAR_BAR, END_OF_LINE, CHAR_THREE_QUARTERS, BAR
  <2>2. out = <<CR>> BY <2>1, CodeOutput, Zenon DEF b, out
  <2>3. ToSet(out) = {CR} BY <2>2, OneWritten
  <2> QED BY <1>5, <2>3 DEF out, p
<1>8. CASE j \in {0, 3, 4}
  <2>1. b \in Ascii /\ (j # 0 => b # CHAR_THREE_QUARTERS /\ b # CHAR_BAR)
    BY <1>2, <1>3, <1>8 DEF Ascii, CHAR_THREE_QUARTERS, CHAR_BAR
  <2>2. CASE b = CHAR_BAR
    <3>1. out = << >> BY <1>1, <2>2, BarStep, Zenon DEF b, out
    <3> QED BY <3>1, OneWritten, Zenon DEF out
  <2>3. CASE b # CHAR_BAR
    <3>1. t.state = 0 /\ ~IsName(t) BY <1>4, <1>8 DEF IsName
    <3>2. out = IF t.ignore \/ t.frame_number = 1 THEN << >>
                ELSE <<Char(DataChar(b) + t.shift_offset)>>
      BY <1>1, <1>4, <2>3, <3>1, DataStep, Zenon DEF b, out
    <3>3. out \in {<< >>, <<DataChar(b)>>} BY <1>4, <2>1, <3>2, DataKept
    <3>4. DataChar(b) \in HeaderCharacters(p)
      BY <1>2, <1>5, <1>8, <2>1, DataKept
    <3>5. ToSet(out) \in {{}, {DataChar(b)}} BY <3>3, OneWritten
    <3> QED BY <3>4, <3>5 DEF out, p
  <2> QED BY <2>2, <2>3
<1> QED BY <1>6, <1>7, <1>8

\* Any byte of a frame that is not the first.
LEMMA FrameWrites ==
    ASSUME NEW s, NEW page, NEW pos, NEW byte, Comes(s, page, pos, byte),
           NEW m \in Nat, PartAt(s, page, pos, m), s.frame_number >= 2
    PROVE  LET v == TeleByte(s, byte)
           IN  /\ \E m2 \in Nat : PartAt(v, page, pos + 1, m2)
               /\ v.frame_number >= 2
               /\ pos # 2 => v.frame_number = s.frame_number
               /\ ToSet(TeleOutput(s, byte)) \subseteq FrameCharacters
<1> DEFINE v == TeleByte(s, byte)
           out == TeleOutput(s, byte)
           p == page.program
<1>1. /\ s \in TeleStates /\ Waits(s) /\ byte \in Byte /\ s.frame_number \in Nat
      /\ page \in TelePages /\ page # TextPage /\ pos \in Nat /\ pos < Size(page)
  BY FieldRanges DEF Comes
<1>2. s.frame_number # 1 BY <1>1
<1>3. Named(s, page, pos) BY <1>2, Zenon DEF Named
<1>4. PICK m2 \in Nat : /\ PartAt(v, page, pos + 1, m2) /\ Moved(s, v, page, pos)
                        /\ Written(page, m, m2, out)
  BY <1>2, <1>3, PartStep, Zenon
<1>5. v.frame_number = s.frame_number + (IF pos = 2 THEN 1 ELSE 0)
  BY <1>4, Zenon DEF Moved
<1>6. v.frame_number >= 2 /\ (pos # 2 => v.frame_number = s.frame_number)
  <2> HIDE DEF v
  <2> QED BY <1>1, <1>5
<1>7. p \in Programs /\ page.frame \in 1 .. 10
  BY <1>1, PageFrame, FrameRange, Zenon
<1>8. ToSet(Content[p]) \subseteq FrameCharacters /\ HeaderCharacters(p) \subseteq FrameCharacters
  <2> DEFINE part(q) == ToSet(Content[q]) \cup HeaderCharacters(q)
             parts == {part(q) : q \in Programs}
  <2>1. part(p) \in parts BY <1>7
  <2>2. FrameCharacters = UNION parts BY Zenon DEF FrameCharacters
  <2> HIDE DEF parts
  <2>3. \A c \in part(p) : c \in FrameCharacters BY <2>1, <2>2, Zenon
  <2> QED BY <2>3
<1>9. ASSUME page.frame > 1 PROVE ToSet(out) \subseteq FrameCharacters
  <2> DEFINE all == Content[p]
             before == UpTo(p, page.frame - 2)
             piece == PieceOf(page)
  <2>1. /\ all \in Seq(Byte) /\ before \in Nat /\ Len(piece) \in Nat
        /\ before + Len(piece) <= Len(all)
        /\ \A i \in 1 .. Len(piece) : piece[i] = all[before + i]
    BY <1>1, <1>9, PieceIs, Zenon
  <2>2. /\ m2 <= Len(piece)
        /\ \/ m2 = m /\ out = << >>
           \/ m2 = m + 1 /\ out = <<piece[m + 1]>>
    BY <1>4, <1>9, Zenon DEF Written
  <2> HIDE DEF all, before, piece, out, p
  <2>3. CASE out = << >> BY <2>3, OneWritten
  <2>4. CASE m2 = m + 1 /\ out = <<piece[m + 1]>>
    <3>1. m + 1 \in 1 .. Len(piece) /\ before + (m + 1) \in 1 .. Len(all)
      BY <2>1, <2>2, <2>4
    <3>2. piece[m + 1] = all[before + (m + 1)] BY <2>1, <3>1
    <3>3. all[before + (m + 1)] \in ToSet(all) BY <2>1, <3>1 DEF ToSet
    <3>4. ToSet(out) = {piece[m + 1]} BY <2>4, OneWritten
    <3> QED BY <1>8, <3>2, <3>3, <3>4, Zenon DEF all
  <2> QED BY <2>2, <2>3, <2>4
<1>10. ASSUME page.frame = 1 PROVE ToSet(out) \subseteq FrameCharacters
  <2>1. Size(page) = 19 /\ ~LastPage(page) /\ ~(page.frame > 1)
    BY <1>1, <1>10, HeaderBytes DEF LastPage
  <2>2. CASE pos <= 8 /\ HeadAt(s, pos)
    <3>1. out = << >> BY <2>2, HeadStep, Zenon
    <3> QED BY <3>1, OneWritten, Zenon
  <2>3. CASE pos \in 9 .. 13 /\ HeaderAt(s, page, pos - 9)
    <3> DEFINE j == pos - 9
    <3>1. j \in 0 .. 4 /\ pos = 9 + j BY <2>3
    <3>2. HeaderAt(s, page, j) BY <2>3
    <3> HIDE DEF j
    <3>3. ToSet(out) \subseteq HeaderCharacters(p)
      BY <1>2, <1>10, <3>1, <3>2, HeaderWrites, Zenon
    <3> QED BY <1>8, <3>3, Zenon
  <2>4. CASE \/ pos = 14 /\ HeaderAt(s, page, 5)
             \/ pos >= Size(page) - 4 /\ TrailerAt(s, page, pos - (Size(page) - 5))
    <3>1. out = << >> BY <1>10, <2>4, EndStep, Zenon
    <3> QED BY <3>1, OneWritten, Zenon
  <2>5. \/ pos <= 8 /\ HeadAt(s, pos)
        \/ pos \in 9 .. 14 /\ HeaderAt(s, page, pos - 9)
        \/ pos >= Size(page) - 4 /\ TrailerAt(s, page, pos - (Size(page) - 5))
    BY <2>1, Zenon DEF PartAt
  <2>6. ASSUME pos \in 9 .. 14, HeaderAt(s, page, pos - 9)
        PROVE  \/ pos \in 9 .. 13 /\ HeaderAt(s, page, pos - 9)
               \/ pos = 14 /\ HeaderAt(s, page, 5)
    BY <2>6
  <2> QED BY <2>2, <2>3, <2>4, <2>5, <2>6, Zenon
<1>11. ToSet(out) \subseteq FrameCharacters
  <2> HIDE DEF out
  <2> QED BY <1>7, <1>9, <1>10
<1> QED BY <1>4, <1>6, <1>11, Zenon

-----------------------------------------------------------------------------
(* The place in a page, for any user.                                      *)

\* Within a frame the decoder is alike one that has counted frames before and has
\* taken the same bytes, or it has been reset and nothing is being downloaded.
WithinAt(t, page, pos, loading) ==
    \E s \in TeleStates, m \in Nat :
       /\ Waits(s) /\ s.frame_number >= 2 /\ PartAt(s, page, pos, m)
       /\ Alike(t, s) \/ (~loading /\ Strays(t, s, pos))
PlaceAt(t, page, pos, loading) ==
    IF pos = 0 THEN Quiet(t)
    ELSE IF page = TextPage THEN TextAt(t, pos) ELSE WithinAt(t, page, pos, loading)

\* At the start of a frame there is such a decoder.
LEMMA ShadowExists ==
    ASSUME NEW t \in TeleStates, Quiet(t), NEW page, NEW pos \in {0, 1}, NEW loading
    PROVE  WithinAt(t, page, pos, loading)
<1> DEFINE s == [t EXCEPT !.frame_number = 2]
<1>1. s \in TeleStates BY FieldTypes
<1>2. /\ s.frame_number = 2 /\ s.state = t.state /\ s.in_frame = t.in_frame
      /\ s.shift_offset = t.shift_offset /\ s.ignore = t.ignore
  BY SMT DEF TeleStates
<1> HIDE DEF s
<1>3. Waits(s) /\ Alike(t, s) BY <1>2 DEF Waits, Alike, InStep, Quiet
<1>4. HeadAt(s, pos) BY <1>2 DEF HeadAt, Quiet
<1>5. PartAt(s, page, pos, 0) BY <1>4 DEF PartAt
<1>6. 0 \in Nat /\ s.frame_number >= 2 BY <1>2
<1> QED BY <1>1, <1>3, <1>5, <1>6, Zenon DEF WithinAt

\* A byte leads to the next place, and during a download writes what frames carry.
LEMMA PlaceStep ==
    ASSUME NEW t \in TeleStates, Waits(t), NEW page \in TelePages,
           NEW pos \in Nat, pos < Size(page), NEW loading, PlaceAt(t, page, pos, loading),
           NEW byte \in Byte, byte = Transmission[page][pos + 1]
    PROVE  LET u == TeleByte(t, byte)
           IN  /\ pos + 1 < Size(page) => PlaceAt(u, page, pos + 1, loading)
               /\ pos + 1 = Size(page) => Quiet(u)
               /\ loading => ToSet(TeleOutput(t, byte)) \subseteq FileCharacters
<1> DEFINE u == TeleByte(t, byte)
           out == TeleOutput(t, byte)
           size == Size(page)
<1>1. byte % 128 = Code(page, pos + 1) BY DEF Code
<1>2. CASE page = TextPage
  <2>1. TextAt(t, pos)
    <3>1. CASE pos = 0
      <4>1. Quiet(t) BY <3>1, Zenon DEF PlaceAt
      <4> QED BY <3>1, <4>1, TextEnds, Zenon
    <3>2. CASE pos # 0 BY <1>2, <3>2, Zenon DEF PlaceAt
    <3> QED BY <3>1, <3>2
  <2>2. pos < Size(TextPage) /\ byte = Transmission[TextPage][pos + 1] BY <1>2
  <2> HIDE DEF u, out, size
  <2>3. TextAt(u, pos + 1) /\ OfCode(out) BY <2>1, <2>2, TextStep, Zenon DEF u, out
  <2>4. PlaceAt(u, page, pos + 1, loading)
    <3>1. pos + 1 # 0 OBVIOUS
    <3> QED BY <1>2, <2>3, <3>1, Zenon DEF PlaceAt
  <2>5. ASSUME pos + 1 = Size(page) PROVE Quiet(u)
    <3>1. TextAt(u, Size(TextPage)) BY <1>2, <2>3, <2>5
    <3> QED BY <3>1, TextEnds, Zenon
  <2>6. ToSet(out) \subseteq FileCharacters
    <3>1. CASE out = << >> BY <3>1, OneWritten, Zenon
    <3>2. ASSUME NEW c \in CodeCharacters, out = <<c>> PROVE ToSet(out) \subseteq FileCharacters
      <4>1. ToSet(out) = {c} BY <3>2, OneWritten
      <4> QED BY <4>1 DEF FileCharacters
    <3> QED BY <2>3, <3>1, <3>2, Zenon DEF OfCode
  <2> QED BY <2>4, <2>5, <2>6, Zenon DEF u, out
<1>3. CASE page # TextPage
  <2>1. size \in Nat BY <1>3, FrameBytes, Zenon
  <2>2. WithinAt(t, page, pos, loading)
    <3>1. CASE pos = 0
      <4>1. Quiet(t) BY <3>1, Zenon DEF PlaceAt
      <4> QED BY <3>1, <4>1, ShadowExists
    <3>2. CASE pos # 0 BY <1>3, <3>2, Zenon DEF PlaceAt
    <3> QED BY <3>1, <3>2
  <2>3. PICK s \in TeleStates, m \in Nat :
           /\ Waits(s) /\ s.frame_number >= 2 /\ PartAt(s, page, pos, m)
           /\ Alike(t, s) \/ (~loading /\ Strays(t, s, pos))
    BY <2>2, Zenon DEF WithinAt
  <2> DEFINE v == TeleByte(s, byte)
             outs == TeleOutput(s, byte)
  <2>4. v \in TeleStates /\ Waits(v) BY <2>3, ByteType, Zenon
  <2>5. Comes(s, page, pos, byte) BY <1>1, <1>3, <2>3, Zenon DEF Comes
  <2>6. /\ \E m2 \in Nat : PartAt(v, page, pos + 1, m2)
        /\ v.frame_number >= 2
        /\ pos # 2 => v.frame_number = s.frame_number
        /\ ToSet(outs) \subseteq FileCharacters
    <3>1. s.frame_number >= 2 /\ PartAt(s, page, pos, m) BY <2>3
    <3>2. FrameCharacters \subseteq FileCharacters BY DEF FileCharacters
    <3>3. /\ \E m2 \in Nat : PartAt(v, page, pos + 1, m2)
          /\ v.frame_number >= 2
          /\ pos # 2 => v.frame_number = s.frame_number
          /\ ToSet(outs) \subseteq FrameCharacters
      BY <2>5, <3>1, FrameWrites
    <3> HIDE DEF v, outs
    <3>4. ToSet(outs) \subseteq FileCharacters BY <3>2, <3>3
    <3> QED BY <3>3, <3>4
  <2>7. PICK m2 \in Nat : PartAt(v, page, pos + 1, m2) BY <2>6
  <2>8. s.frame_number # 1
    <3>1. s.frame_number \in Nat BY FieldRanges
    <3> QED BY <2>3, <3>1
  <2>9. ASSUME Alike(t, s)
        PROVE  Alike(u, v) /\ ToSet(out) \subseteq FileCharacters
    <3>1. Alike(u, v) /\ out \in {<< >>, outs} BY <2>3, <2>8, <2>9, AlikeStep, Zenon
    <3>2. ToSet(<< >>) \subseteq FileCharacters BY OneWritten, Zenon
    <3> HIDE DEF out, outs
    <3> QED BY <2>6, <3>1, <3>2
  <2>10. ASSUME Strays(t, s, pos) PROVE Strays(u, v, pos + 1)
    BY <2>3, <2>6, <2>10, StrayStep, Zenon
  <2>11. Alike(u, v) \/ (~loading /\ Strays(u, v, pos + 1)) BY <2>3, <2>9, <2>10, Zenon
  <2>12. ASSUME pos + 1 < size PROVE PlaceAt(u, page, pos + 1, loading)
    <3>1. WithinAt(u, page, pos + 1, loading)
      BY <2>4, <2>6, <2>7, <2>11, Zenon DEF WithinAt
    <3>2. pos + 1 # 0 OBVIOUS
    <3> QED BY <1>3, <3>1, <3>2, Zenon DEF PlaceAt
  <2>13. ASSUME pos + 1 = size PROVE Quiet(u)
    <3>1. pos + 1 \in 0 .. Size(page) BY <2>1, <2>13
    <3>2. Quiet(v) BY <1>3, <2>7, <2>13, <3>1, PartEnds, Zenon
    <3> HIDE DEF u, v
    <3> QED BY <2>11, <3>2 DEF Quiet, Alike, InStep, Strays
  <2>14. loading => ToSet(out) \subseteq FileCharacters BY <2>3, <2>9, Zenon
  <2> QED BY <2>12, <2>13, <2>14, Zenon
<1> QED BY <1>2, <1>3

\* A new read leaves the decoder in its place.
LEMMA PlaceStays ==
    ASSUME NEW t \in TeleStates, NEW page, NEW pos, NEW loading,
           PlaceAt(t, page, pos, loading)
    PROVE  PlaceAt(TeleStart(t), page, pos, loading)
<1> DEFINE u == TeleStart(t)
<1>1. /\ Stands(u, t.state, t.control_code, t.ignore, t.in_frame)
      /\ Counts(u, t.frame_number, t.shift_offset, t.filename, t.end_of_file,
                u.end_of_frame)
  BY StartKeeps, Zenon
<1> HIDE DEF u
<1>2. (Quiet(t) => Quiet(u)) /\ (TextAt(t, pos) => TextAt(u, pos))
  BY <1>1 DEF Quiet, TextAt, Stands, Counts
<1>3. \A s : Alike(t, s) => Alike(u, s) BY <1>1 DEF Alike, InStep, Stands, Counts
<1>4. \A s : Strays(t, s, pos) => Strays(u, s, pos)
  BY <1>1 DEF Strays, InStep, Stands, Counts
<1>5. PlaceAt(u, page, pos, loading) BY <1>2, <1>3, <1>4, Zenon DEF PlaceAt, WithinAt
<1> QED BY <1>5 DEF u

\* vt_tele_reset() between frames, or within one.
LEMMA PlaceReset ==
    ASSUME NEW t, NEW page, NEW pos \in Nat, NEW loading, PlaceAt(t, page, pos, loading)
    PROVE  PlaceAt(TeleReset, page, pos, FALSE) /\ Quiet(TeleReset)
<1>1. TeleReset \in TeleStates BY ResetType
<1>2. Quiet(TeleReset) BY DEF Quiet, TeleReset
<1>3. CASE page = TextPage \/ pos = 0
  <2>1. TextAt(TeleReset, pos) BY DEF TextAt, TeleReset
  <2> QED BY <1>2, <1>3, <2>1, Zenon DEF PlaceAt
<1>4. CASE page # TextPage /\ pos = 1
  <2>1. WithinAt(TeleReset, page, pos, FALSE) BY <1>1, <1>2, <1>4, ShadowExists
  <2> QED BY <1>2, <1>4, <2>1 DEF PlaceAt
<1>5. CASE page # TextPage /\ pos >= 2
  <2>1. PICK s \in TeleStates, m \in Nat :
           Waits(s) /\ s.frame_number >= 2 /\ PartAt(s, page, pos, m)
    BY <1>5 DEF PlaceAt, WithinAt
  <2>2. Strays(TeleReset, s, pos) BY <1>5 DEF Strays, TeleReset
  <2>3. WithinAt(TeleReset, page, pos, FALSE) BY <2>1, <2>2, Zenon DEF WithinAt
  <2> QED BY <1>2, <1>5, <2>3 DEF PlaceAt
<1>6. page # TextPage /\ pos # 0 => pos = 1 \/ pos >= 2 OBVIOUS
<1> QED BY <1>2, <1>3, <1>4, <1>5, <1>6, Zenon

\* A decoder that has counted a frame has not been reset within this one.
LEMMA PlaceCounted ==
    ASSUME NEW t, t.frame_number # 0, NEW page, NEW pos, NEW loading, NEW other,
           PlaceAt(t, page, pos, loading)
    PROVE  PlaceAt(t, page, pos, other)
<1>1. \A s : ~Strays(t, s, pos) BY DEF Strays
<1> QED BY <1>1, Zenon DEF PlaceAt, WithinAt

-----------------------------------------------------------------------------
(* The pages on their way.                                                 *)

\* Bytes are those of pages, one page after the other: of which page each is, and how
\* many of its bytes come before.
Stream(bytes, pages, places) ==
    /\ pages \in Seq(TelePages) /\ places \in Seq(Nat)
    /\ Len(pages) = Len(bytes) /\ Len(places) = Len(bytes)
    /\ \A i \in 1 .. Len(bytes) :
          /\ places[i] < Size(pages[i])
          /\ bytes[i] = Transmission[pages[i]][places[i] + 1]
          /\ IF places[i] + 1 < Size(pages[i])
             THEN /\ i < Len(bytes)
                  /\ pages[i + 1] = pages[i] /\ places[i + 1] = places[i] + 1
             ELSE i < Len(bytes) => places[i + 1] = 0

\* The first byte of a stream is gone.
LEMMA StreamStep ==
    ASSUME NEW bytes \in Seq(Byte), bytes # << >>, NEW pages, NEW places,
           Stream(bytes, pages, places)
    PROVE  /\ Stream(Tail(bytes), Tail(pages), Tail(places))
           /\ pages[1] \in TelePages /\ places[1] \in Nat /\ places[1] < Size(pages[1])
           /\ Head(bytes) = Transmission[pages[1]][places[1] + 1]
           /\ IF places[1] + 1 < Size(pages[1])
              THEN /\ Tail(bytes) # << >>
                   /\ Tail(pages)[1] = pages[1] /\ Tail(places)[1] = places[1] + 1
              ELSE Tail(bytes) # << >> => Tail(places)[1] = 0
<1> DEFINE n == Len(bytes)
           Label(i) ==
              /\ places[i] < Size(pages[i])
              /\ bytes[i] = Transmission[pages[i]][places[i] + 1]
              /\ IF places[i] + 1 < Size(pages[i])
                 THEN i < n /\ pages[i + 1] = pages[i] /\ places[i + 1] = places[i] + 1
                 ELSE i < n => places[i + 1] = 0
<1>1. n \in Nat /\ n > 0 OBVIOUS
<1>2. /\ pages \in Seq(TelePages) /\ places \in Seq(Nat)
      /\ Len(pages) = n /\ Len(places) = n
      /\ \A i \in 1 .. n : Label(i)
  BY Zenon DEF Stream
<1> HIDE DEF n, Label
<1>3. /\ Tail(bytes) \in Seq(Byte) /\ Len(Tail(bytes)) = n - 1
      /\ \A i \in 1 .. n - 1 : Tail(bytes)[i] = bytes[i + 1]
  BY <1>1 DEF n
<1>4. /\ Tail(pages) \in Seq(TelePages) /\ Len(Tail(pages)) = n - 1
      /\ \A i \in 1 .. n - 1 : Tail(pages)[i] = pages[i + 1]
  BY <1>1, <1>2
<1>5. /\ Tail(places) \in Seq(Nat) /\ Len(Tail(places)) = n - 1
      /\ \A i \in 1 .. n - 1 : Tail(places)[i] = places[i + 1]
  BY <1>1, <1>2
<1>6. 1 \in 1 .. n /\ Label(1) BY <1>1, <1>2
<1>7. Tail(bytes) # << >> <=> 1 < n
  <2> DEFINE r == Tail(bytes)
  <2>1. r \in Seq(Byte) /\ Len(r) = n - 1 BY <1>3
  <2> HIDE DEF r
  <2>2. r # << >> <=> 1 < n BY <1>1, <2>1
  <2> QED BY <2>2 DEF r
<1>8. 1 < n => /\ Tail(pages)[1] = pages[2] /\ Tail(places)[1] = places[2]
  BY <1>1, <1>4, <1>5
<1>9. pages[1] \in TelePages /\ places[1] \in Nat BY <1>1, <1>2
<1>10. Head(bytes) = bytes[1] BY <1>1 DEF n
<1> DEFINE B == Tail(bytes)
           P == Tail(pages)
           Q == Tail(places)
<1>11. ASSUME NEW i \in 1 .. n - 1
       PROVE  /\ Q[i] < Size(P[i])
              /\ B[i] = Transmission[P[i]][Q[i] + 1]
              /\ IF Q[i] + 1 < Size(P[i])
                 THEN i < n - 1 /\ P[i + 1] = P[i] /\ Q[i + 1] = Q[i] + 1
                 ELSE i < n - 1 => Q[i + 1] = 0
  <2>1. i + 1 \in 1 .. n /\ Label(i + 1) BY <1>1, <1>2
  <2>2. B[i] = bytes[i + 1] /\ P[i] = pages[i + 1] /\ Q[i] = places[i + 1]
    BY <1>3, <1>4, <1>5
  <2>3. i < n - 1 => P[i + 1] = pages[(i + 1) + 1] /\ Q[i + 1] = places[(i + 1) + 1]
    BY <1>1, <1>4, <1>5
  <2>4. i < n - 1 <=> i + 1 < n BY <1>1
  <2> HIDE DEF B, P, Q
  <2> QED BY <2>1, <2>2, <2>3, <2>4, Zenon DEF Label
<1>12. Stream(B, P, Q)
  <2>1. B \in Seq(Byte) /\ Len(B) = n - 1 /\ P \in Seq(TelePages) /\ Len(P) = n - 1
        /\ Q \in Seq(Nat) /\ Len(Q) = n - 1
    BY <1>3, <1>4, <1>5
  <2> HIDE DEF B, P, Q
  <2> QED BY <1>11, <2>1, Zenon DEF Stream
<1>13. 1 + 1 = 2 OBVIOUS
<1>14. /\ places[1] < Size(pages[1])
       /\ bytes[1] = Transmission[pages[1]][places[1] + 1]
       /\ IF places[1] + 1 < Size(pages[1])
          THEN 1 < n /\ pages[2] = pages[1] /\ places[2] = places[1] + 1
          ELSE 1 < n => places[2] = 0
  BY <1>6, <1>13 DEF Label
<1>15. IF places[1] + 1 < Size(pages[1])
       THEN /\ Tail(bytes) # << >>
            /\ Tail(pages)[1] = pages[1] /\ Tail(places)[1] = places[1] + 1
       ELSE Tail(bytes) # << >> => Tail(places)[1] = 0
  BY <1>7, <1>8, <1>14
<1> QED BY <1>9, <1>10, <1>12, <1>14, <1>15, Zenon

\* A page is added to a stream.
LEMMA StreamMore ==
    ASSUME NEW bytes \in Seq(Byte), NEW pages, NEW places, Stream(bytes, pages, places),
           NEW page \in TelePages, Transmission[page] \in Seq(Byte)
    PROVE  \E P \in Seq(TelePages), Q \in Seq(Nat) :
              /\ Stream(bytes \o Transmission[page], P, Q)
              /\ bytes # << >> => P[1] = pages[1] /\ Q[1] = places[1]
              /\ bytes = << >> /\ Transmission[page] # << >> => Q[1] = 0
<1> DEFINE more == Transmission[page]
           size == Size(page)
           n == Len(bytes)
           B == bytes \o more
           p2 == [i \in 1 .. size |-> page]
           q2 == [i \in 1 .. size |-> i - 1]
           P == pages \o p2
           Q == places \o q2
           Label(b, p, q, i, last) ==
              /\ q[i] < Size(p[i])
              /\ b[i] = Transmission[p[i]][q[i] + 1]
              /\ IF q[i] + 1 < Size(p[i])
                 THEN i < last /\ p[i + 1] = p[i] /\ q[i + 1] = q[i] + 1
                 ELSE i < last => q[i + 1] = 0
<1>1. n \in Nat /\ size \in Nat /\ Len(more) = size BY DEF Size
<1>2. /\ pages \in Seq(TelePages) /\ places \in Seq(Nat)
      /\ Len(pages) = n /\ Len(places) = n
      /\ \A i \in 1 .. n : Label(bytes, pages, places, i, n)
  BY Zenon DEF Stream
<1>3. /\ p2 \in Seq(TelePages) /\ Len(p2) = size /\ \A i \in 1 .. size : p2[i] = page
      /\ q2 \in Seq(Nat) /\ Len(q2) = size /\ \A i \in 1 .. size : q2[i] = i - 1
  <2> HIDE DEF size
  <2> QED BY <1>1
<1>4. \A i \in 1 .. size : more[i] = Transmission[page][i] OBVIOUS
<1> HIDE DEF p2, q2, n, size, more
<1>5. Joins(Byte, B, bytes, n, more, size)
  BY <1>1, Concatenated DEF Has, n, more
<1>6. Joins(TelePages, P, pages, n, p2, size) BY <1>1, <1>2, <1>3, Concatenated DEF Has
<1>7. Joins(Nat, Q, places, n, q2, size) BY <1>1, <1>2, <1>3, Concatenated DEF Has
<1> HIDE DEF B, P, Q, Label
<1>8. /\ B \in Seq(Byte) /\ P \in Seq(TelePages) /\ Q \in Seq(Nat)
      /\ Len(B) = n + size /\ Len(P) = n + size /\ Len(Q) = n + size
  BY <1>5, <1>6, <1>7 DEF Joins
<1>9. \A i \in 1 .. n : B[i] = bytes[i] /\ P[i] = pages[i] /\ Q[i] = places[i]
  BY <1>5, <1>6, <1>7 DEF Joins
<1>10. \A i \in 1 .. size : B[n + i] = more[i] /\ P[n + i] = page /\ Q[n + i] = i - 1
  BY <1>3, <1>5, <1>6, <1>7 DEF Joins
<1>11. ASSUME NEW i \in 1 .. n PROVE Label(B, P, Q, i, n + size)
  <2>1. Label(bytes, pages, places, i, n) BY <1>2
  <2>2. B[i] = bytes[i] /\ P[i] = pages[i] /\ Q[i] = places[i] BY <1>9
  <2>3. CASE i < n
    <3>1. i + 1 \in 1 .. n /\ i < n + size BY <1>1, <2>3
    <3>2. P[i + 1] = pages[i + 1] /\ Q[i + 1] = places[i + 1] BY <1>9, <3>1
    <3> QED BY <2>1, <2>2, <2>3, <3>1, <3>2, Zenon DEF Label
  <2>4. CASE ~(i < n)
    <3>1. i = n BY <1>1, <2>4
    <3>2. ~(places[i] + 1 < Size(pages[i])) BY <2>1, <2>4, Zenon DEF Label
    <3>3. i < n + size => Q[i + 1] = 0
      <4> SUFFICES ASSUME i < n + size PROVE Q[i + 1] = 0 OBVIOUS
      <4>1. 1 \in 1 .. size BY <1>1, <3>1
      <4>2. Q[n + 1] = 1 - 1 BY <1>10, <4>1
      <4> QED BY <3>1, <4>2
    <3> QED BY <2>1, <2>2, <3>2, <3>3, Zenon DEF Label
  <2> QED BY <2>3, <2>4
<1>12. ASSUME NEW i \in 1 .. size PROVE Label(B, P, Q, n + i, n + size)
  <2>1. B[n + i] = more[i] /\ P[n + i] = page /\ Q[n + i] = i - 1 BY <1>10
  <2>2. (i - 1) + 1 = i /\ i - 1 < size /\ (n + i < n + size <=> i < size) BY <1>1
  <2>3. i < size => P[(n + i) + 1] = page /\ Q[(n + i) + 1] = i
    <3> SUFFICES ASSUME i < size PROVE P[(n + i) + 1] = page /\ Q[(n + i) + 1] = i OBVIOUS
    <3>1. i + 1 \in 1 .. size /\ (n + i) + 1 = n + (i + 1) /\ (i + 1) - 1 = i BY <1>1
    <3> QED BY <1>10, <3>1
  <2>4. Size(page) = size BY DEF size
  <2>5. more[i] = Transmission[page][i] BY DEF more
  <2> QED BY <2>1, <2>2, <2>3, <2>4, <2>5, Zenon DEF Label
<1>13. \A i \in 1 .. n + size : i \in 1 .. n \/ (i - n \in 1 .. size /\ i = n + (i - n))
  BY <1>1
<1>14. \A i \in 1 .. n + size : Label(B, P, Q, i, n + size) BY <1>11, <1>12, <1>13
<1>15. Stream(B, P, Q) BY <1>8, <1>14, Zenon DEF Stream, Label
<1>16. bytes # << >> => P[1] = pages[1] /\ Q[1] = places[1]
  <2>1. bytes # << >> => n > 0 BY DEF n
  <2>2. n > 0 => 1 \in 1 .. n BY <1>1
  <2> QED BY <1>9, <2>1, <2>2
<1>17. bytes = << >> /\ more # << >> => Q[1] = 0
  <2> SUFFICES ASSUME bytes = << >>, more # << >> PROVE Q[1] = 0 OBVIOUS
  <2>1. n = 0 BY DEF n
  <2>2. size > 0 BY <1>1 DEF more
  <2>3. 1 \in 1 .. size /\ n + 1 = 1 BY <1>1, <2>1, <2>2
  <2> QED BY <1>10, <2>3
<1> QED BY <1>8, <1>15, <1>16, <1>17, Zenon DEF B, more

\* The decoder is in its place in the page whose bytes come next, or between pages.
Reads(t, bytes, pages, places, loading) ==
    IF bytes = << >> THEN Quiet(t) ELSE PlaceAt(t, pages[1], places[1], loading)
OnWay(t, bytes, loading) ==
    \E pages \in Seq(TelePages), places \in Seq(Nat) :
       Stream(bytes, pages, places) /\ Reads(t, bytes, pages, places, loading)

\* The next byte is decoded.
LEMMA OnWayStep ==
    ASSUME NEW t \in TeleStates, Waits(t), NEW bytes \in Seq(Byte), bytes # << >>,
           NEW loading, OnWay(t, bytes, loading)
    PROVE  /\ OnWay(TeleByte(t, Head(bytes)), Tail(bytes), loading)
           /\ loading => ToSet(TeleOutput(t, Head(bytes))) \subseteq FileCharacters
<1>1. PICK pages \in Seq(TelePages), places \in Seq(Nat) :
         Stream(bytes, pages, places) /\ Reads(t, bytes, pages, places, loading)
  BY Zenon DEF OnWay
<1> DEFINE byte == Head(bytes)
           u == TeleByte(t, byte)
           out == TeleOutput(t, byte)
           page == pages[1]
           pos == places[1]
           B == Tail(bytes)
           P == Tail(pages)
           Q == Tail(places)
<1>2. /\ Stream(B, P, Q)
      /\ page \in TelePages /\ pos \in Nat /\ pos < Size(page)
      /\ byte = Transmission[page][pos + 1]
      /\ IF pos + 1 < Size(page)
         THEN B # << >> /\ P[1] = page /\ Q[1] = pos + 1
         ELSE B # << >> => Q[1] = 0
  BY <1>1, StreamStep, Zenon
<1>3. PlaceAt(t, page, pos, loading) BY <1>1, Zenon DEF Reads
<1>4. byte \in Byte OBVIOUS
<1>5. /\ pos + 1 < Size(page) => PlaceAt(u, page, pos + 1, loading)
      /\ pos + 1 = Size(page) => Quiet(u)
      /\ loading => ToSet(out) \subseteq FileCharacters
  <2>1. page \in TelePages /\ pos \in Nat /\ pos < Size(page)
        /\ byte = Transmission[page][pos + 1]
    BY <1>2, Zenon
  <2> HIDE DEF byte, page, pos
  <2> QED BY <1>3, <1>4, <2>1, PlaceStep
<1>6. pos + 1 < Size(page) \/ pos + 1 = Size(page)
  <2>1. Size(page) \in Nat
    <3>1. \A q \in TelePages : Size(q) \in Nat
      <4> TAKE q \in TelePages
      <4>1. IsTransmission(Transmission[q], q) BY HostAssumption, Zenon
      <4>2. Transmission[q] \in Seq(Byte) BY <4>1, Zenon DEF IsTransmission
      <4> QED BY <4>2 DEF Size
    <3> QED BY <1>2, <3>1, Zenon
  <2> DEFINE n == Size(page)
  <2>2. n \in Nat /\ pos \in Nat /\ pos < n BY <1>2, <2>1, Zenon
  <2> HIDE DEF n, pos
  <2>3. pos + 1 < n \/ pos + 1 = n BY <2>2
  <2> QED BY <2>3 DEF n
<1> HIDE DEF byte, u, out, page, pos, B, P, Q
<1>7. Reads(u, B, P, Q, loading)
  <2>1. CASE pos + 1 < Size(page)
    <3>1. B # << >> /\ P[1] = page /\ Q[1] = pos + 1 BY <1>2, <2>1, Zenon
    <3>2. PlaceAt(u, P[1], Q[1], loading) BY <1>5, <2>1, <3>1, Zenon
    <3> QED BY <3>1, <3>2, Zenon DEF Reads
  <2>2. CASE ~(pos + 1 < Size(page))
    <3>1. Quiet(u) BY <1>5, <1>6, <2>2, Zenon
    <3>2. B # << >> => Q[1] = 0 BY <1>2, <2>2, Zenon
    <3> QED BY <3>1, <3>2, Zenon DEF Reads, PlaceAt
  <2> QED BY <2>1, <2>2, Zenon
<1>8. OnWay(u, B, loading)
  <2>1. P \in Seq(TelePages) /\ Q \in Seq(Nat) BY <1>2, Zenon DEF Stream
  <2> QED BY <1>2, <1>7, <2>1, Zenon DEF OnWay
<1> QED BY <1>5, <1>8, Zenon DEF u, B, byte, out

\* A page is sent.
LEMMA OnWayMore ==
    ASSUME NEW t, NEW bytes \in Seq(Byte), NEW loading, OnWay(t, bytes, loading),
           NEW page \in TelePages, Transmission[page] \in Seq(Byte)
    PROVE  OnWay(t, bytes \o Transmission[page], loading)
<1> DEFINE more == Transmission[page]
           B == bytes \o more
<1>1. PICK pages \in Seq(TelePages), places \in Seq(Nat) :
         Stream(bytes, pages, places) /\ Reads(t, bytes, pages, places, loading)
  BY Zenon DEF OnWay
<1>2. PICK P \in Seq(TelePages), Q \in Seq(Nat) :
         /\ Stream(B, P, Q)
         /\ bytes # << >> => P[1] = pages[1] /\ Q[1] = places[1]
         /\ bytes = << >> /\ more # << >> => Q[1] = 0
  <2>1. Stream(bytes, pages, places) /\ more \in Seq(Byte) BY <1>1
  <2> QED BY <2>1, StreamMore
<1>3. /\ bytes # << >> => B # << >>
      /\ bytes = << >> => B = more
  <2>1. bytes # << >> => B # << >> BY TailOfBoth, Zenon
  <2>2. bytes = << >> => B = more BY NothingMore, Zenon
  <2> QED BY <2>1, <2>2
<1> HIDE DEF more, B
<1>4. Reads(t, B, P, Q, loading)
  <2>1. CASE bytes # << >>
    <3>1. PlaceAt(t, pages[1], places[1], loading) BY <1>1, <2>1, Zenon DEF Reads
    <3>2. PlaceAt(t, P[1], Q[1], loading) BY <1>2, <2>1, <3>1, Zenon
    <3> QED BY <1>3, <2>1, <3>2, Zenon DEF Reads
  <2>2. CASE bytes = << >>
    <3>1. Quiet(t) BY <1>1, <2>2, Zenon DEF Reads
    <3>2. B # << >> => Q[1] = 0 BY <1>2, <1>3, <2>2, Zenon
    <3> QED BY <3>1, <3>2, Zenon DEF Reads, PlaceAt
  <2> QED BY <2>1, <2>2, Zenon
<1> QED BY <1>2, <1>4, Zenon DEF OnWay, B, more

\* A new read.
LEMMA OnWayStays ==
    ASSUME NEW t \in TeleStates, NEW bytes, NEW loading, OnWay(t, bytes, loading)
    PROVE  OnWay(TeleStart(t), bytes, loading)
<1> DEFINE u == TeleStart(t)
<1>1. Quiet(t) => Quiet(u)
  <2> SUFFICES ASSUME Quiet(t) PROVE Quiet(u) OBVIOUS
  <2>1. PICK page : page = TextPage OBVIOUS
  <2>2. PlaceAt(t, page, 0, loading) BY <2>1, Zenon DEF PlaceAt
  <2>3. PlaceAt(u, page, 0, loading) BY <2>2, PlaceStays, Zenon
  <2> QED BY <2>1, <2>3, Zenon DEF PlaceAt
<1>2. \A page, pos : PlaceAt(t, page, pos, loading) => PlaceAt(u, page, pos, loading)
  BY PlaceStays, Zenon
<1> HIDE DEF u
<1>3. \A pages, places : Reads(t, bytes, pages, places, loading)
                            => Reads(u, bytes, pages, places, loading)
  BY <1>1, <1>2, Zenon DEF Reads
<1> QED BY <1>3, Zenon DEF OnWay, u

\* vt_tele_reset().
LEMMA OnWayReset ==
    ASSUME NEW t, NEW bytes \in Seq(Byte), NEW loading, OnWay(t, bytes, loading)
    PROVE  OnWay(TeleReset, bytes, FALSE)
<1>1. PICK pages \in Seq(TelePages), places \in Seq(Nat) :
         Stream(bytes, pages, places) /\ Reads(t, bytes, pages, places, loading)
  BY Zenon DEF OnWay
<1>2. Quiet(TeleReset) BY DEF Quiet, TeleReset
<1>3. CASE bytes = << >>
  <2>1. Reads(TeleReset, bytes, pages, places, FALSE) BY <1>2, <1>3, Zenon DEF Reads
  <2> QED BY <1>1, <2>1, Zenon DEF OnWay
<1>4. CASE bytes # << >>
  <2>1. places[1] \in Nat BY <1>1, <1>4, StreamStep, Zenon
  <2>2. PlaceAt(t, pages[1], places[1], loading) BY <1>1, <1>4, Zenon DEF Reads
  <2>3. PlaceAt(TeleReset, pages[1], places[1], FALSE)
    <3> DEFINE page == pages[1]
               pos == places[1]
    <3> HIDE DEF page, pos
    <3>1. pos \in Nat /\ PlaceAt(t, page, pos, loading) BY <2>1, <2>2 DEF page, pos
    <3>2. PlaceAt(TeleReset, page, pos, FALSE) BY <3>1, PlaceReset
    <3> QED BY <3>2, Zenon DEF page, pos
  <2>4. Reads(TeleReset, bytes, pages, places, FALSE) BY <1>4, <2>3, Zenon DEF Reads
  <2> QED BY <1>1, <2>4, Zenon DEF OnWay
<1> QED BY <1>3, <1>4, Zenon

\* A decoder that has counted a frame is fit for a download.
LEMMA OnWayCounted ==
    ASSUME NEW t, t.frame_number # 0, NEW bytes, NEW loading, NEW other,
           OnWay(t, bytes, loading)
    PROVE  OnWay(t, bytes, other)
<1>1. \A page, pos : PlaceAt(t, page, pos, loading) => PlaceAt(t, page, pos, other)
  BY PlaceCounted, Zenon
<1>2. \A pages, places : Reads(t, bytes, pages, places, loading)
                            => Reads(t, bytes, pages, places, other)
  BY <1>1, Zenon DEF Reads
<1> QED BY <1>2, Zenon DEF OnWay

\* Nothing is on its way.
LEMMA OnWayNothing ==
    ASSUME NEW t, Quiet(t), NEW loading
    PROVE  OnWay(t, << >>, loading)
<1>1. Stream(<< >>, << >>, << >>) BY DEF Stream
<1>2. << >> \in Seq(TelePages) /\ << >> \in Seq(Nat) OBVIOUS
<1>3. Reads(t, << >>, << >>, << >>, loading) BY Zenon DEF Reads
<1> QED BY <1>1, <1>2, <1>3, Zenon DEF OnWay

\* Sequences can be put together in any order of time.
LEMMA InOrder ==
    ASSUME NEW S, NEW a \in Seq(S), NEW b \in Seq(S), NEW c \in Seq(S)
    PROVE  (a \o b) \o c = a \o (b \o c)
<1> DEFINE l == Len(a)
           m == Len(b)
           n == Len(c)
           ab == a \o b
           bc == b \o c
           left == ab \o c
           right == a \o bc
<1>1. Has(S, a, l) /\ Has(S, b, m) /\ Has(S, c, n) BY DEF Has
<1>2. Joins(S, ab, a, l, b, m) BY <1>1, Concatenated
<1>3. Joins(S, bc, b, m, c, n) BY <1>1, Concatenated
<1> HIDE DEF l, m, n, ab, bc
<1>4. Has(S, ab, l + m) /\ Has(S, bc, m + n) BY <1>1, <1>2, <1>3 DEF Has, Joins
<1>5. Joins(S, left, ab, l + m, c, n) BY <1>1, <1>4, Concatenated
<1>6. Joins(S, right, a, l, bc, m + n) BY <1>1, <1>4, Concatenated
<1> HIDE DEF left, right
<1>7. l \in Nat /\ m \in Nat /\ n \in Nat BY <1>1 DEF Has
<1>8. left \in Seq(S) /\ right \in Seq(S) /\ Len(left) = (l + m) + n
      /\ Len(right) = (l + m) + n
  BY <1>5, <1>6, <1>7 DEF Joins
<1>9. ASSUME NEW i \in 1 .. (l + m) + n PROVE left[i] = right[i]
  <2>1. CASE i <= l
    <3>1. i \in 1 .. l /\ i \in 1 .. l + m BY <1>7, <2>1
    <3> QED BY <1>2, <1>5, <1>6, <3>1 DEF Joins
  <2>2. CASE l < i /\ i <= l + m
    <3>1. PICK j \in 1 .. m : i = l + j
      <4>1. i - l \in 1 .. m /\ i = l + (i - l) BY <1>7, <2>2
      <4> QED BY <4>1
    <3>2. l + j \in 1 .. l + m /\ j \in 1 .. m + n BY <1>7, <3>1
    <3>3. left[l + j] = ab[l + j] /\ ab[l + j] = b[j] BY <1>2, <1>5, <3>2 DEF Joins
    <3>4. right[l + j] = bc[j] /\ bc[j] = b[j] BY <1>3, <1>6, <3>2 DEF Joins
    <3> QED BY <3>1, <3>3, <3>4
  <2>3. CASE l + m < i
    <3>1. PICK j \in 1 .. n : i = (l + m) + j
      <4>1. i - (l + m) \in 1 .. n /\ i = (l + m) + (i - (l + m)) BY <1>7, <2>3
      <4> QED BY <4>1
    <3>2. m + j \in 1 .. m + n /\ (l + m) + j = l + (m + j) BY <1>7
    <3>3. left[(l + m) + j] = c[j] BY <1>5 DEF Joins
    <3>4. right[l + (m + j)] = bc[m + j] /\ bc[m + j] = c[j] BY <1>3, <1>6, <3>2 DEF Joins
    <3> QED BY <3>1, <3>2, <3>3, <3>4
  <2>4. i <= l \/ (l < i /\ i <= l + m) \/ l + m < i BY <1>7
  <2> QED BY <2>1, <2>2, <2>3, <2>4
<1>10. left = right BY <1>8, <1>9, SameSequence
<1> QED BY <1>10 DEF left, right, ab, bc

\* A sequence has no more elements than its parts.
LEMMA PartsOf ==
    ASSUME NEW S, NEW a \in Seq(S), NEW b \in Seq(S), NEW C,
           ToSet(a) \subseteq C, ToSet(b) \subseteq C
    PROVE  ToSet(a \o b) \subseteq C
<1> DEFINE l == Len(a)
           m == Len(b)
           ab == a \o b
<1>1. Has(S, a, l) /\ Has(S, b, m) BY DEF Has
<1>2. Joins(S, ab, a, l, b, m) BY <1>1, Concatenated
<1>3. (\A i \in 1 .. l : a[i] \in C) /\ \A i \in 1 .. m : b[i] \in C
  BY DEF ToSet
<1> HIDE DEF l, m, ab
<1>4. ASSUME NEW i \in 1 .. l + m PROVE ab[i] \in C
  <2>1. l \in Nat /\ m \in Nat BY <1>1 DEF Has
  <2>2. i \in 1 .. l \/ (i - l \in 1 .. m /\ i = l + (i - l)) BY <2>1
  <2> QED BY <1>2, <1>3, <2>2 DEF Joins
<1>5. ab \in Seq(S) /\ Len(ab) = l + m BY <1>2 DEF Joins
<1>6. ToSet(ab) \subseteq C BY <1>4, <1>5 DEF ToSet
<1> QED BY <1>6 DEF ab

-----------------------------------------------------------------------------
(* The steps of the session with any user.                                 *)

\* What the bytes on their way say about the decoder.
HastyInv ==
    /\ buffer # << >> => pc = "decode"
    /\ OfferInv
    /\ OnWay(tele, rest, is_downloading)
    /\ TextStaysOut
HInv == IInv /\ HastyInv

\* The steps that leave the decoder and the files alone, and what is on its way.
LEMMA HastyPaces ==
    ASSUME HInv, UNCHANGED <<buffer, to_client, tele, is_downloading, disk>>,
           buffer # << >> => pc' = "decode", OfferInv'
    PROVE  HastyInv'
<1>1. rest' = rest BY DEF rest
<1>2. OnWay(tele, rest, is_downloading)' BY <1>1 DEF HInv, HastyInv
<1>3. TextStaysOut' BY DEF HInv, HastyInv, TextStaysOut
<1>4. (buffer # << >> => pc = "decode")' OBVIOUS
<1> QED BY <1>2, <1>3, <1>4, Zenon DEF HastyInv

\* Most of them only move on.
LEMMA HastySteps ==
    ASSUME HInv,
           \/ Test \/ Poll \/ SkipSocket \/ SkipKey \/ KeepKey \/ SendKey \/ ServeTimer
           \/ HeaderLookedFor \/ FrameContinues \/ CloseFails \/ Cleanup
           \/ HostCloses \/ TimerExpires \/ Signal \/ UNCHANGED vars
           \/ \E key \in Keys : TypeKey(key)
    PROVE  HastyInv'
<1>1. (buffer # << >> => pc = "decode") /\ OfferInv BY Zenon DEF HInv, HastyInv
<1>2. CASE \/ Test \/ Poll \/ SkipSocket \/ SkipKey \/ KeepKey \/ SendKey \/ ServeTimer
           \/ Cleanup
  <2>1. /\ UNCHANGED <<buffer, to_client, tele, is_downloading, disk, can_download>>
        /\ pc \in {"test", "poll", "socket", "stdin", "timer", "cleanup"}
    BY <1>2, Zenon DEF Test, Poll, SkipSocket, SkipKey, KeepKey, SendKey, ServeTimer, Cleanup,
       KeyReady, wire, download
  <2>2. buffer = << >> /\ pc # "decode" BY <1>1, <2>1
  <2>3. OfferInv' BY <1>1, <2>1, <2>2 DEF OfferInv
  <2> QED BY <2>1, <2>2, <2>3, HastyPaces
<1>3. CASE HeaderLookedFor
  <2>1. /\ buffer = << >> /\ can_download' = HeaderDecoded(tele)
        /\ UNCHANGED <<buffer, to_client, tele, is_downloading, disk>>
    BY <1>3, Zenon DEF HeaderLookedFor, Decoded, wire
  <2>2. OfferInv' BY <2>1 DEF OfferInv, HeaderDecoded
  <2> QED BY <2>1, <2>2, HastyPaces
<1>4. CASE FrameContinues \/ CloseFails
  <2>1. /\ buffer = << >> /\ is_downloading
        /\ UNCHANGED <<buffer, to_client, tele, is_downloading, disk>>
    BY <1>4, Zenon DEF FrameContinues, CloseFails, Decoded, wire, download
  <2>2. OfferInv' BY <2>1, Zenon DEF OfferInv
  <2> QED BY <2>1, <2>2, HastyPaces
<1>5. CASE \/ HostCloses \/ TimerExpires \/ Signal \/ UNCHANGED vars
           \/ \E key \in Keys : TypeKey(key)
  <2>1. /\ UNCHANGED <<buffer, to_client, tele, is_downloading, disk, can_download>>
        /\ pc' = pc \/ (pc = "poll" /\ pc' = "test")
    BY <1>5 DEF HostCloses, TimerExpires, Signal, TypeKey, vars, program, wire, download
  <2>2. buffer # << >> => pc' = "decode" BY <1>1, <2>1
  <2>3. OfferInv' BY <1>1, <2>1 DEF OfferInv
  <2> QED BY <2>1, <2>2, <2>3, HastyPaces
<1> QED BY <1>2, <1>3, <1>4, <1>5, Zenon

\* A read.
LEMMA HastyRead ==
    ASSUME HInv, ReadSocket
    PROVE  HastyInv'
<1>1. /\ pc = "socket" /\ pc' = "decode" /\ to_client # << >> /\ tele' = TeleStart(tele)
      /\ is_downloading' = is_downloading /\ disk' = disk
  BY Zenon DEF ReadSocket, download
<1>2. PICK n \in 1 .. Len(to_client) :
         /\ buffer' = SubSeq(to_client, 1, n)
         /\ to_client' = SubSeq(to_client, n + 1, Len(to_client))
  BY DEF ReadSocket
<1>3. buffer = << >> BY <1>1 DEF HInv, HastyInv
<1>4. to_client \in Seq(Byte) /\ tele \in TeleStates BY Zenon DEF HInv, IInv, TypeOK
<1>5. rest' = rest
  <2>1. rest = to_client BY <1>3, <1>4, NothingMore DEF rest
  <2>2. rest' = to_client BY <1>2, <1>4, SplitOnce, Zenon DEF rest
  <2> QED BY <2>1, <2>2
<1>6. OnWay(tele', rest', is_downloading')
  <2>1. OnWay(tele, rest, is_downloading) BY Zenon DEF HInv, HastyInv
  <2>2. OnWay(TeleStart(tele), rest, is_downloading) BY <1>4, <2>1, OnWayStays, Zenon
  <2> QED BY <1>1, <1>5, <2>2, Zenon
<1>7. TextStaysOut' BY <1>1 DEF HInv, HastyInv, TextStaysOut
<1>8. OfferInv' BY <1>1 DEF OfferInv
<1> QED BY <1>1, <1>6, <1>7, <1>8, Zenon DEF HastyInv

\* A byte is decoded, and what it writes is of a frame.
LEMMA HastyDecode ==
    ASSUME HInv, DecodeByte
    PROVE  HastyInv'
<1> DEFINE byte == Head(buffer)
           out == TeleOutput(tele, byte)
           file == disk[download_file]
<1>1. /\ pc = "decode" /\ pc' = pc /\ buffer # << >> /\ buffer' = Tail(buffer)
      /\ tele' = TeleByte(tele, byte) /\ is_downloading' = is_downloading
      /\ to_client' = to_client
      /\ disk' = IF ~is_downloading THEN disk ELSE [disk EXCEPT ![download_file] = file \o out]
  BY Zenon DEF DecodeByte, wire, download
<1>2. /\ rest \in Seq(Byte) /\ tele \in TeleStates /\ Waits(tele)
      /\ buffer \in Seq(Byte) /\ to_client \in Seq(Byte)
  BY RestType, Zenon DEF HInv, IInv, TypeOK
<1>3. rest # << >> /\ Head(rest) = byte /\ rest' = Tail(rest)
  BY <1>1, <1>2, TailOfBoth, Zenon DEF rest
<1>4. OnWay(tele, rest, is_downloading) BY Zenon DEF HInv, HastyInv
<1>5. /\ OnWay(tele', rest', is_downloading')
      /\ is_downloading => ToSet(out) \subseteq FileCharacters
  <2>1. /\ OnWay(TeleByte(tele, Head(rest)), Tail(rest), is_downloading)
        /\ is_downloading => ToSet(TeleOutput(tele, Head(rest))) \subseteq FileCharacters
    BY <1>2, <1>3, <1>4, OnWayStep, Zenon
  <2> QED BY <1>1, <1>3, <2>1, Zenon
<1>6. TextStaysOut BY Zenon DEF HInv, HastyInv
<1>7. TextStaysOut'
  <2>1. CASE ~is_downloading BY <1>1, <1>6, <2>1 DEF TextStaysOut
  <2>2. CASE is_downloading
    <3>1. download_file \in DOMAIN disk
      BY <1>1, <2>2 DEF HInv, IInv, DecodesIntoOpenFile, download_file
    <3>2. byte \in Byte BY <1>1, <1>2
    <3>3. file \in Seq(Byte) BY <3>1, Zenon DEF HInv, IInv, TypeOK
    <3>4. out \in Seq(Byte) BY <1>2, <3>2, OutputType, Zenon
    <3>5. ToSet(file) \subseteq FileCharacters /\ ToSet(out) \subseteq FileCharacters
      BY <1>5, <1>6, <2>2, <3>1, Zenon DEF TextStaysOut
    <3> DEFINE grown == file \o out
    <3>6. ToSet(grown) \subseteq FileCharacters BY <3>3, <3>4, <3>5, PartsOf, Zenon
    <3>7. disk' = [disk EXCEPT ![download_file] = grown] BY <1>1, <2>2, Zenon
    <3> HIDE DEF grown
    <3>8. DOMAIN disk' = DOMAIN disk BY <3>7
    <3>9. \A name \in DOMAIN disk :
             disk'[name] = IF name = download_file THEN grown ELSE disk[name]
      BY <3>1, <3>7
    <3> QED BY <1>6, <3>6, <3>8, <3>9, Zenon DEF TextStaysOut
  <2> QED BY <2>1, <2>2
<1>8. OfferInv' BY <1>1 DEF OfferInv
<1> QED BY <1>1, <1>5, <1>7, <1>8, Zenon DEF HastyInv

\* The end of a file, perhaps within a frame: the decoder is reset.
LEMMA HastyEnds ==
    ASSUME HInv, FileEnds
    PROVE  HastyInv'
<1>1. /\ buffer = << >> /\ is_downloading' = FALSE /\ ~can_download' /\ tele' = TeleReset
      /\ UNCHANGED <<buffer, to_client, disk>>
  BY DEF FileEnds, Decoded
<1>2. rest' = rest /\ rest \in Seq(Byte)
  <2>1. rest' = rest BY <1>1 DEF rest
  <2> QED BY <2>1, RestType, Zenon DEF HInv
<1>3. OnWay(tele', rest', is_downloading')
  <2>1. OnWay(tele, rest, is_downloading) BY Zenon DEF HInv, HastyInv
  <2>2. OnWay(TeleReset, rest, FALSE) BY <1>2, <2>1, OnWayReset, Zenon
  <2> QED BY <1>1, <1>2, <2>2, Zenon
<1>4. TextStaysOut' BY <1>1 DEF HInv, HastyInv, TextStaysOut
<1>5. OfferInv' BY <1>1 DEF OfferInv
<1> QED BY <1>1, <1>3, <1>4, <1>5, Zenon DEF HastyInv

\* CTRL-g: what is on its way goes into an empty file.
LEMMA HastyStart ==
    ASSUME HInv, StartDownload \/ OpenFails
    PROVE  HastyInv'
<1>1. /\ pc = "stdin" /\ can_download /\ is_downloading' = TRUE
      /\ UNCHANGED <<buffer, tele, to_client>>
      /\ \/ disk' = disk
         \/ disk' = [name \in DOMAIN disk \cup {tele.filename} |->
                        IF name = tele.filename THEN << >> ELSE disk[name]]
  BY DEF StartDownload, OpenFails, KeyReady, wire
<1>2. buffer = << >> /\ OfferInv /\ rest' = rest
  <2>1. buffer = << >> /\ OfferInv BY <1>1 DEF HInv, HastyInv
  <2>2. rest' = rest BY <1>1 DEF rest
  <2> QED BY <2>1, <2>2
<1>3. OnWay(tele', rest', TRUE)
  <2>1. OnWay(tele, rest, is_downloading) /\ is_downloading \in BOOLEAN
    BY Zenon DEF HInv, HastyInv, IInv, TypeOK
  <2>2. OnWay(tele, rest, TRUE)
    <3>1. CASE is_downloading
      <4>1. is_downloading = TRUE BY <2>1, <3>1, Zenon
      <4> QED BY <2>1, <4>1, Zenon
    <3>2. CASE ~is_downloading
      <4>1. pc # "decode" /\ can_download BY <1>1
      <4>2. tele.frame_number = 1 BY <1>2, <3>2, <4>1, Zenon DEF OfferInv
      <4>3. tele.frame_number # 0 BY <4>2
      <4> QED BY <2>1, <4>3, OnWayCounted, Zenon
    <3> QED BY <3>1, <3>2
  <2> QED BY <1>1, <1>2, <2>2, Zenon
<1>4. TextStaysOut'
  <2>1. TextStaysOut BY Zenon DEF HInv, HastyInv
  <2>2. ToSet(<< >>) \subseteq FileCharacters BY OneWritten, Zenon
  <2>3. \A name \in DOMAIN disk' :
           disk'[name] = << >> \/ (name \in DOMAIN disk /\ disk'[name] = disk[name])
    BY <1>1
  <2> QED BY <2>1, <2>2, <2>3, Zenon DEF TextStaysOut
<1>5. OfferInv' BY <1>1 DEF OfferInv
<1>6. buffer' = << >> BY <1>1, <1>2
<1> QED BY <1>1, <1>3, <1>4, <1>5, <1>6, Zenon DEF HastyInv

\* The host sends a page.
LEMMA HastyAnswer ==
    ASSUME HInv, HostAnswers, IInv'
    PROVE  HastyInv'
<1>1. UNCHANGED <<pc, buffer, tele, can_download, is_downloading, disk>>
  BY DEF HostAnswers, program, download
<1>2. (buffer # << >> => pc = "decode") /\ OfferInv BY Zenon DEF HInv, HastyInv
<1>3. OfferInv' BY <1>1, <1>2 DEF OfferInv
<1>4. CASE Head(to_host) = LOGOFF
  <2>1. to_client' = to_client BY <1>4, Zenon DEF HostAnswers
  <2> QED BY <1>1, <1>2, <1>3, <2>1, HastyPaces
<1>5. CASE Head(to_host) # LOGOFF
  <2>1. to_client' = to_client \o Transmission[host'] BY <1>5, Zenon DEF HostAnswers
  <2>2. PICK page \in TelePages : page = host' /\ Transmission[page] \in Seq(Byte)
    <3>1. host' \in Pages BY Zenon DEF IInv, TypeOK
    <3>2. host' \in TelePages BY <3>1, HostAssumption, Zenon
    <3>3. Transmission[host'] \in Seq(Byte) BY <3>1, SessionAssumption
    <3> QED BY <3>2, <3>3
  <2>3. rest \in Seq(Byte) /\ buffer \in Seq(Byte) /\ to_client \in Seq(Byte)
    BY RestType, Zenon DEF HInv, IInv, TypeOK
  <2>4. rest' = rest \o Transmission[page]
    <3> DEFINE more == Transmission[page]
    <3>1. rest' = buffer \o (to_client \o more) BY <1>1, <2>1, <2>2, Zenon DEF rest
    <3>2. more \in Seq(Byte) BY <2>2
    <3> HIDE DEF more
    <3>3. (buffer \o to_client) \o more = buffer \o (to_client \o more)
      BY <2>3, <3>2, InOrder
    <3> QED BY <3>1, <3>3, Zenon DEF rest, more
  <2>5. OnWay(tele, rest, is_downloading) BY Zenon DEF HInv, HastyInv
  <2>6. OnWay(tele, rest \o Transmission[page], is_downloading)
    BY <2>2, <2>3, <2>5, OnWayMore, Zenon
  <2>7. OnWay(tele, rest, is_downloading)' BY <1>1, <2>4, <2>6
  <2>8. TextStaysOut' BY <1>1 DEF HInv, HastyInv, TextStaysOut
  <2>9. (buffer # << >> => pc = "decode")' BY <1>1, <1>2
  <2> QED BY <1>3, <2>7, <2>8, <2>9, Zenon DEF HastyInv
<1> QED BY <1>4, <1>5

\* Every step of a session keeps the invariant.
LEMMA HastyNextInv == HInv /\ [Next]_vars => HInv'
<1> SUFFICES ASSUME HInv, [Next]_vars PROVE HInv' OBVIOUS
<1>1. IInv' BY NextInv, Zenon DEF HInv
<1>2. HastyInv'
  <2>1. CASE \/ Test \/ Poll \/ SkipSocket \/ SkipKey \/ KeepKey \/ SendKey \/ ServeTimer
             \/ HeaderLookedFor \/ FrameContinues \/ CloseFails \/ Cleanup
             \/ HostCloses \/ TimerExpires \/ Signal \/ UNCHANGED vars
             \/ \E key \in Keys : TypeKey(key)
    BY <2>1, HastySteps, Zenon
  <2>2. CASE ReadSocket BY <2>2, HastyRead, Zenon
  <2>3. CASE DecodeByte BY <2>3, HastyDecode, Zenon
  <2>4. CASE FileEnds BY <2>4, HastyEnds, Zenon
  <2>5. CASE StartDownload \/ OpenFails BY <2>5, HastyStart, Zenon
  <2>6. CASE HostAnswers BY <1>1, <2>6, HastyAnswer, Zenon
  <2> QED BY <2>1, <2>2, <2>3, <2>4, <2>5, <2>6, Zenon DEF Next, Program
<1> QED BY <1>1, <1>2, Zenon DEF HInv

\* At first the page of text is on its way.
LEMMA InitHasty == Init => HInv
<1> SUFFICES ASSUME Init PROVE HInv OBVIOUS
<1>1. IInv BY InitInv, Zenon
<1>2. /\ buffer = << >> /\ tele = TeleReset /\ can_download = FALSE
      /\ disk = << >> /\ to_client = Transmission[HomePage]
  BY DEF Init
<1>3. PICK page \in TelePages : page = HomePage /\ Transmission[page] \in Seq(Byte)
  <2>1. HomePage \in TelePages BY SessionAssumption, HostAssumption, Zenon
  <2>2. Transmission[HomePage] \in Seq(Byte) BY SessionAssumption
  <2> QED BY <2>1, <2>2
<1>4. rest = << >> \o Transmission[page] BY <1>2, <1>3, Zenon DEF rest
<1>5. OnWay(tele, rest, is_downloading)
  <2>1. Quiet(tele) BY <1>2 DEF Quiet, TeleReset
  <2>2. OnWay(tele, << >>, is_downloading) BY <2>1, OnWayNothing, Zenon
  <2>3. << >> \in Seq(Byte) OBVIOUS
  <2>4. OnWay(tele, << >> \o Transmission[page], is_downloading)
    BY <1>3, <2>2, <2>3, OnWayMore, Zenon
  <2> QED BY <1>4, <2>4, Zenon
<1>6. TextStaysOut
  <2>1. DOMAIN disk = {} BY <1>2
  <2> QED BY <2>1, Zenon DEF TextStaysOut
<1>7. OfferInv BY <1>2 DEF OfferInv
<1> QED BY <1>1, <1>2, <1>5, <1>6, <1>7, Zenon DEF HInv, HastyInv

-----------------------------------------------------------------------------
(* Theorems, for any host in the format of ViewdataHost and all contents,  *)
(* frames, encodings and sizes of a read.                                  *)

\* The place in a page and what has been made of it by then: the inductive invariant.
THEOREM PlaceIsKnown == PatientSpec => []PInv
<1>1. Init => PInv BY InitPatient
<1>2. PInv /\ [PatientNext]_vars => PInv' BY PatientNextInv
<1> QED BY <1>1, <1>2, PTL DEF PatientSpec

\* vt_tele_decode(): a file has the name and the content that the host gave it,
\* complete when its download has ended.
THEOREM FilesFaithful == PatientSpec => []FilesAreFaithful
<1>1. PInv => FilesAreFaithful BY DEF PInv, PatientInv
<1> QED BY <1>1, PlaceIsKnown, PTL

\* The loop of main(): a download asks for one frame at a time, when all of the
\* frame before it has been decoded.
THEOREM FramesAskedInTurn == PatientSpec => []AsksBetweenFrames
<1>1. PInv => AsksBetweenFrames BY KeysBetween
<1> QED BY <1>1, PlaceIsKnown, PTL

\* vt_tele_decode(): a frame that arrives as it was sent passes its parity and its
\* checksum, wherever the reads cut it.
THEOREM FramesPassTheirChecks == PatientSpec => []ChecksAgree
<1>1. Init => SumInv
  <2> SUFFICES ASSUME Init PROVE SumInv OBVIOUS
  <2>1. tele.frame_number = 0 /\ ~tele.check.parity_error BY DEF Init, TeleReset
  <2> QED BY <2>1 DEF SumInv, ChecksAgree
<1>2. PInv /\ SumInv /\ [PatientNext]_vars => SumInv' BY SumNextInv
<1>3. SumInv => ChecksAgree BY DEF SumInv
<1> QED BY <1>1, <1>2, <1>3, PlaceIsKnown, PTL DEF PatientSpec

\* The loop of main() with vt_tele_decode(): whatever the user types, however the
\* frames are split over reads and whenever CTRL-g is typed, what is written to the
\* files are characters that telesoftware frames carry and what the codes of a page
\* of text write, if none of these starts a frame or shifts what follows.
THEOREM TextKeptOut == Spec => []TextStaysOut
<1>1. HInv => TextStaysOut BY Zenon DEF HInv, HastyInv
<1> QED BY <1>1, InitHasty, HastyNextInv, PTL DEF Spec
=============================================================================
