----------------------------- MODULE RowProofs -----------------------------
(***************************************************************************)
(* RowsMatchReference for every screen and font: the flags that the        *)
(* decoder keeps from byte to byte, the rows that it ignores and the cells *)
(* that it has drawn are what the definition of SerialAttributes, which    *)
(* looks back over all codes of a row, makes of the frame so far.          *)
(***************************************************************************)
EXTENDS SerialAttributes, CursorProofs, WellFoundedInduction

-----------------------------------------------------------------------------
(* The rules that the program follows: those of SerialAttributes but for   *)
(* what resets the held mosaic, what is held at all, and the last row on   *)
(* which double height may start.                                          *)

HeldByCode(s, p) ==
    LET mosaic == Max({0} \cup {i \in 1 .. p - 1 : s[i] >= 32 /\ ~IsAlpha(s, i)})
        reset  == LastIn(s, p, {12})
        change == \E i \in mosaic + 1 .. p - 1 : IsAlpha(s, i) # IsAlpha(s, i + 1)
    IN  IF mosaic = 0 \/ reset > mosaic \/ change THEN Space ELSE CharAt(s, mosaic)

CharByCode(s, p) ==
    IF s[p] >= 32 THEN CharAt(s, p)
    ELSE IF IsHeld(s, p) THEN HeldByCode(s, p) ELSE Space

\* The lower rows when double height may start on the rows below limit.
LowerBelow(frame, limit)  ==
    LET lower[r \in -1 .. MAX_ROWS - 1] ==
            r > 0 /\ Tall(frame, r - 1) /\ r - 1 < limit /\ ~lower[r - 1]
    IN  lower
LowerByCode(frame) == LowerBelow(frame, MAX_ROWS - 2)

CellByCode(frame, r, p) ==
    LET lower == LowerByCode(frame)
        s == CodesOf(frame, r)
        above == CodesOf(frame, r - 1)
        Tallest(row, t) == row < MAX_ROWS - 2 /\ ~lower[row] /\ IsTall(t, p)
    IN  IF lower[r]
        THEN IF p \in DOMAIN above /\ Tallest(r - 1, above)
             THEN [character |-> CharByCode(above, p).lower, attr |-> AttrAt(above, p)]
             ELSE BlankCell
        ELSE IF p \in DOMAIN s
             THEN [character |-> IF Tallest(r, s) THEN CharByCode(s, p).upper
                                                  ELSE CharByCode(s, p).single,
                   attr |-> AttrAt(s, p)]
             ELSE BlankCell

-----------------------------------------------------------------------------
(* Least and greatest numbers, and induction over sets.                    *)

\* A set of natural numbers has a least element.
LEMMA LeastOf ==
    ASSUME NEW T \in SUBSET Nat, T # {}
    PROVE  \E x \in T : \A y \in T : x <= y
<1> DEFINE R == OpToRel(<, Nat)
<1>1. IsWellFoundedOn(R, Nat) BY NatLessThanWellFounded, Zenon
<1>2. \A x, y \in Nat : <<y, x>> \in R <=> y < x BY DEF OpToRel
<1> HIDE DEF R
<1>3. PICK x \in T : \A y \in T : ~(<<y, x>> \in R) BY <1>1, WFMin
<1>4. ASSUME NEW y \in T PROVE x <= y
  <2>1. x \in Nat /\ y \in Nat OBVIOUS
  <2>2. ~(y < x) BY <1>2, <1>3, <2>1
  <2> QED BY <2>1, <2>2
<1> QED BY <1>4

\* What holds of 0 and of the number after each holds of all.
LEMMA Induction ==
    ASSUME NEW S, 0 \in S, \A n \in Nat : n \in S => n + 1 \in S
    PROVE  \A n \in Nat : n \in S
<1> SUFFICES ASSUME Nat \ S # {} PROVE FALSE OBVIOUS
<1>1. PICK x \in Nat \ S : \A y \in Nat \ S : x <= y BY LeastOf
<1>2. x - 1 \in Nat /\ x - 1 < x /\ (x - 1) + 1 = x BY <1>1
<1>3. x - 1 \in S BY <1>1, <1>2
<1> QED BY <1>2, <1>3

\* A set of numbers up to n has a greatest element, which Max() gives.
LEMMA GreatestOf ==
    ASSUME NEW n \in Nat, NEW T \in SUBSET (0 .. n), T # {}
    PROVE  Max(T) \in T /\ \A y \in T : y <= Max(T)
<1> DEFINE U == {k \in Nat : \A y \in T : y <= k}
<1>1. n \in U /\ U \in SUBSET Nat OBVIOUS
<1>2. PICK m \in U : \A k \in U : m <= k BY <1>1, LeastOf
<1>3. m \in T
  <2> SUFFICES ASSUME m \notin T PROVE FALSE OBVIOUS
  <2>1. PICK y \in T : TRUE OBVIOUS
  <2>2. m - 1 \in Nat BY <1>2, <2>1
  <2>3. \A z \in T : z <= m - 1 BY <1>2
  <2>4. m <= m - 1 BY <1>2, <2>2, <2>3
  <2> QED BY <1>2, <2>4
<1>4. Max(T) \in T /\ \A y \in T : Max(T) >= y
  <2>1. \A y \in T : m >= y BY <1>2
  <2> QED BY <1>3, <2>1, Zenon DEF Max
<1> QED BY <1>4

-----------------------------------------------------------------------------
(* The last code of some kind.                                             *)

\* LastIn() gives the greatest position up to p with one of codes, or 0.
LEMMA LastInIs ==
    ASSUME NEW s, NEW p \in Nat, NEW codes
    PROVE  /\ LastIn(s, p, codes) \in 0 .. p
           /\ LastIn(s, p, codes) > 0 => s[LastIn(s, p, codes)] \in codes
           /\ \A i \in 1 .. p : s[i] \in codes => i <= LastIn(s, p, codes)
<1> DEFINE T == {0} \cup {i \in 1 .. p : s[i] \in codes}
<1>1. T \in SUBSET (0 .. p) /\ T # {} OBVIOUS
<1>2. Max(T) \in T /\ \A y \in T : y <= Max(T) BY <1>1, GreatestOf
<1> QED BY <1>2 DEF LastIn

\* It is the position of the last code, if that is one of them.
LEMMA LastInStep ==
    ASSUME NEW s, NEW p \in Nat \ {0}, NEW codes
    PROVE  LastIn(s, p, codes) = IF s[p] \in codes THEN p ELSE LastIn(s, p - 1, codes)
<1> DEFINE m == LastIn(s, p, codes)
           n == LastIn(s, p - 1, codes)
<1>1. p - 1 \in Nat OBVIOUS
<1>2. m \in 0 .. p /\ (m > 0 => s[m] \in codes) /\ \A i \in 1 .. p : s[i] \in codes => i <= m
  BY LastInIs
<1>3. /\ n \in 0 .. p - 1 /\ (n > 0 => s[n] \in codes)
      /\ \A i \in 1 .. p - 1 : s[i] \in codes => i <= n
  BY <1>1, LastInIs
<1> HIDE DEF m, n
<1>4. CASE s[p] \in codes BY <1>2, <1>4 DEF m
<1>5. CASE s[p] \notin codes
  <2>1. m # p BY <1>2, <1>5
  <2>2. m > 0 => m <= n BY <1>2, <1>3, <2>1
  <2>3. n > 0 => n <= m BY <1>2, <1>3
  <2>4. m = n BY <1>2, <1>3, <2>2, <2>3
  <2> QED BY <1>5, <2>4 DEF m, n
<1> QED BY <1>4, <1>5

\* Before the first code there is none.
LEMMA LastInNone == ASSUME NEW s, NEW codes PROVE LastIn(s, 0, codes) = 0
BY LastInIs

\* An attribute that is switched on by one code and off by others, one code later,
\* whether the one or the others count at their own position.
LEMMA BetweenStep ==
    ASSUME NEW s, NEW p \in Nat \ {0}, NEW setCode, NEW resets, setCode \notin resets
    PROVE  /\ Between(s, p, setCode, p - 1, resets)
                  <=> Between(s, p - 1, setCode, p - 1, resets) \/ s[p] = setCode
           /\ Between(s, p - 1, setCode, p, resets)
                  <=> Between(s, p - 1, setCode, p - 1, resets) /\ s[p] \notin resets
           /\ Between(s, p, setCode, p, resets)
                  <=> \/ Between(s, p - 1, setCode, p - 1, resets) /\ s[p] \notin resets
                      \/ s[p] = setCode
<1> DEFINE m == LastIn(s, p, resets)
           n == LastIn(s, p - 1, resets)
<1>1. p - 1 \in Nat /\ p \in Nat OBVIOUS
<1>2. m = IF s[p] \in resets THEN p ELSE n BY LastInStep
<1>3. n \in 0 .. p - 1 BY <1>1, LastInIs
<1>4. Between(s, p, setCode, p - 1, resets) <=> \E i \in 1 .. p : s[i] = setCode /\ n < i
  BY DEF Between
<1>5. Between(s, p - 1, setCode, p, resets) <=> \E i \in 1 .. p - 1 : s[i] = setCode /\ m < i
  BY DEF Between
<1>6. Between(s, p, setCode, p, resets) <=> \E i \in 1 .. p : s[i] = setCode /\ m < i
  BY DEF Between
<1>7. Between(s, p - 1, setCode, p - 1, resets)
          <=> \E i \in 1 .. p - 1 : s[i] = setCode /\ n < i
  BY DEF Between
<1> HIDE DEF m, n
<1>8. \A i \in 1 .. p : i \in 1 .. p - 1 \/ i = p OBVIOUS
<1>9. \A i \in 1 .. p - 1 : i \in 1 .. p /\ ~(p < i) OBVIOUS
<1>10. n < p /\ p \in 1 .. p BY <1>3
<1> QED BY <1>2, <1>4, <1>5, <1>6, <1>7, <1>8, <1>9, <1>10, Zenon

\* No attribute is on before the first code.
LEMMA BetweenNone ==
    ASSUME NEW s, NEW setCode, NEW off, NEW resets
    PROVE  ~Between(s, 0, setCode, off, resets)
BY DEF Between

-----------------------------------------------------------------------------
(* What a position shows depends on the codes at and before it.            *)

Agree(s, t, p) == \A i \in 1 .. p : s[i] = t[i]

\* The reference definition looks at no code after the position.
LEMMA LastInSerial ==
    ASSUME NEW s, NEW t, NEW p \in Nat, Agree(s, t, p), NEW q \in 0 .. p, NEW codes
    PROVE  LastIn(s, q, codes) = LastIn(t, q, codes)
<1>1. {i \in 1 .. q : s[i] \in codes} = {i \in 1 .. q : t[i] \in codes} BY DEF Agree
<1> QED BY <1>1, Zenon DEF LastIn

\* Nor do attributes that it counts between two codes.
LEMMA BetweenSerial ==
    ASSUME NEW s, NEW t, NEW p \in Nat, Agree(s, t, p), NEW on \in 0 .. p,
           NEW off \in 0 .. p, NEW setCode, NEW resets
    PROVE  Between(s, on, setCode, off, resets) <=> Between(t, on, setCode, off, resets)
<1>1. LastIn(s, off, resets) = LastIn(t, off, resets) BY LastInSerial
<1>2. \A i \in 1 .. on : s[i] = t[i] BY DEF Agree
<1> QED BY <1>1, <1>2, Zenon DEF Between

\* The mode and the colours.
LEMMA ColorsSerial ==
    ASSUME NEW s, NEW t, NEW p \in Nat, Agree(s, t, p)
    PROVE  /\ \A q \in 1 .. p + 1 : IsAlpha(s, q) = IsAlpha(t, q)
           /\ \A q \in 1 .. p + 1 : Foreground(s, q) = Foreground(t, q)
           /\ \A q \in 0 .. p : Background(s, q) = Background(t, q)
<1>1. ASSUME NEW q \in 0 .. p, NEW codes
      PROVE  /\ LastIn(s, q, codes) = LastIn(t, q, codes)
             /\ LastIn(t, q, codes) \in 0 .. q
             /\ LastIn(t, q, codes) # 0 =>
                    s[LastIn(t, q, codes)] = t[LastIn(t, q, codes)]
  <2>1. LastIn(s, q, codes) = LastIn(t, q, codes) BY LastInSerial
  <2>2. LastIn(t, q, codes) \in 0 .. q BY LastInIs
  <2> QED BY <2>1, <2>2 DEF Agree
<1>2. \A q \in 1 .. p + 1 : q - 1 \in 0 .. p OBVIOUS
<1>3. \A q \in 1 .. p + 1 : IsAlpha(s, q) = IsAlpha(t, q)
  BY <1>1, <1>2, Zenon DEF IsAlpha
<1>4. ASSUME NEW q \in 1 .. p + 1 PROVE Foreground(s, q) = Foreground(t, q)
  <2> DEFINE codes == IF IsAlpha(t, q) THEN AlphaColors ELSE MosaicColors
             i == LastIn(t, q - 1, codes)
  <2>1. IsAlpha(s, q) = IsAlpha(t, q) BY <1>3
  <2>2. Foreground(t, q) = IF i = 0 THEN WHITE ELSE t[i] % 16 BY Zenon DEF Foreground
  <2>3. Foreground(s, q) = LET j == LastIn(s, q - 1, codes)
                           IN  IF j = 0 THEN WHITE ELSE s[j] % 16
    BY <2>1, Zenon DEF Foreground
  <2>4. LastIn(s, q - 1, codes) = i /\ (i # 0 => s[i] = t[i]) BY <1>1, <1>2, Zenon
  <2> HIDE DEF i, codes
  <2> QED BY <2>2, <2>3, <2>4
<1>5. ASSUME NEW q \in 0 .. p PROVE Background(s, q) = Background(t, q)
  <2> DEFINE i == LastIn(t, q, {28, 29})
  <2>1. LastIn(s, q, {28, 29}) = i /\ i \in 0 .. q /\ (i # 0 => s[i] = t[i]) BY <1>1
  <2> HIDE DEF i
  <2>2. i # 0 => i \in 1 .. p + 1 BY <2>1
  <2>3. i # 0 => Foreground(s, i) = Foreground(t, i) BY <1>4, <2>2
  <2>4. Background(s, q) = IF i = 0 \/ s[i] = 28 THEN BLACK ELSE Foreground(s, i)
    BY <2>1, Zenon DEF Background
  <2>5. Background(t, q) = IF i = 0 \/ t[i] = 28 THEN BLACK ELSE Foreground(t, i)
    BY Zenon DEF Background, i
  <2> QED BY <2>1, <2>3, <2>4, <2>5
<1> QED BY <1>3, <1>4, <1>5

\* The last mosaic up to position q.
LastMosaic(s, q) == Max({0} \cup {i \in 1 .. q : s[i] >= 32 /\ ~IsAlpha(s, i)})

\* It is a position with a mosaic, or 0, and no mosaic comes after it.
LEMMA LastMosaicIs ==
    ASSUME NEW s, NEW q \in Nat
    PROVE  /\ LastMosaic(s, q) \in 0 .. q
           /\ LastMosaic(s, q) > 0 =>
                  s[LastMosaic(s, q)] >= 32 /\ ~IsAlpha(s, LastMosaic(s, q))
           /\ \A i \in 1 .. q : s[i] >= 32 /\ ~IsAlpha(s, i) => i <= LastMosaic(s, q)
<1> DEFINE T == {0} \cup {i \in 1 .. q : s[i] >= 32 /\ ~IsAlpha(s, i)}
<1>1. T \in SUBSET (0 .. q) /\ T # {} OBVIOUS
<1>2. Max(T) \in T /\ \A y \in T : y <= Max(T) BY <1>1, GreatestOf
<1> QED BY <1>2 DEF LastMosaic

\* The mosaic held after position q: HeldByCode() before the reset at the next position.
HeldAfter(s, q) ==
    LET mosaic == LastMosaic(s, q)
        change == \E i \in mosaic + 1 .. q : IsAlpha(s, i) # IsAlpha(s, i + 1)
    IN  IF mosaic = 0 \/ LastIn(s, q, {12}) > mosaic \/ change
        THEN Space ELSE CharAt(s, mosaic)

\* What HeldByCode() adds to it is the reset by normal height.
LEMMA HeldAtIs ==
    ASSUME NEW s, NEW p \in Nat \ {0}
    PROVE  HeldByCode(s, p) = IF s[p] = 12 THEN Space ELSE HeldAfter(s, p - 1)
<1> DEFINE m == LastMosaic(s, p - 1)
           change == \E i \in m + 1 .. p - 1 : IsAlpha(s, i) # IsAlpha(s, i + 1)
<1>1. m \in 0 .. p - 1 BY LastMosaicIs
<1>2. LastIn(s, p, {12}) = IF s[p] = 12 THEN p ELSE LastIn(s, p - 1, {12})
  BY LastInStep
<1>3. HeldByCode(s, p) = IF m = 0 \/ LastIn(s, p, {12}) > m \/ change
                     THEN Space ELSE CharAt(s, m)
  BY Zenon DEF HeldByCode, LastMosaic
<1>4. HeldAfter(s, p - 1) = IF m = 0 \/ LastIn(s, p - 1, {12}) > m \/ change
                            THEN Space ELSE CharAt(s, m)
  BY Zenon DEF HeldAfter
<1> HIDE DEF m, change
<1>5. p > m BY <1>1
<1> QED BY <1>2, <1>3, <1>4, <1>5, Zenon

\* The characters, and what goes with them.
LEMMA CellsSerial ==
    ASSUME NEW s, NEW t, NEW p \in Nat, Agree(s, t, p), NEW q \in 1 .. p
    PROVE  CharByCode(s, q) = CharByCode(t, q) /\ AttrAt(s, q) = AttrAt(t, q) /\ IsTall(s, q) = IsTall(t, q)
<1>1. /\ \A i \in 1 .. p + 1 : IsAlpha(s, i) = IsAlpha(t, i)
      /\ \A i \in 1 .. p + 1 : Foreground(s, i) = Foreground(t, i)
      /\ \A i \in 0 .. p : Background(s, i) = Background(t, i)
  BY ColorsSerial
<1>2. \A on, off \in 0 .. p : \A c, resets :
          Between(s, on, c, off, resets) = Between(t, on, c, off, resets)
  <2> SUFFICES ASSUME NEW on \in 0 .. p, NEW off \in 0 .. p, NEW c, NEW resets
               PROVE  Between(s, on, c, off, resets) = Between(t, on, c, off, resets)
    OBVIOUS
  <2>1. Between(s, on, c, off, resets) <=> Between(t, on, c, off, resets) BY BetweenSerial
  <2> QED BY <2>1, Zenon DEF Between
<1>3. q - 1 \in 0 .. p /\ q \in 0 .. p /\ q \in 1 .. p + 1 /\ p \in Int OBVIOUS
<1>4. ASSUME NEW i \in 1 .. p
      PROVE  CharAt(s, i) = CharAt(t, i)
  <2>1. LastIn(s, i, {25, 26}) = LastIn(t, i, {25, 26}) /\ LastIn(t, i, {25, 26}) \in 0 .. i
    BY LastInSerial, LastInIs
  <2>2. LastIn(t, i, {25, 26}) # 0 => s[LastIn(t, i, {25, 26})] = t[LastIn(t, i, {25, 26})]
    BY <2>1 DEF Agree
  <2>3. IsContiguous(s, i) = IsContiguous(t, i) BY <2>1, <2>2, Zenon DEF IsContiguous
  <2>4. s[i] = t[i] /\ i \in 1 .. p + 1 BY DEF Agree
  <2> QED BY <1>1, <2>3, <2>4, Zenon DEF CharAt
<1>5. HeldAfter(s, q - 1) = HeldAfter(t, q - 1)
  <2>1. {i \in 1 .. q - 1 : s[i] >= 32 /\ ~IsAlpha(s, i)}
            = {i \in 1 .. q - 1 : t[i] >= 32 /\ ~IsAlpha(t, i)}
    BY <1>1 DEF Agree
  <2>2. LastMosaic(s, q - 1) = LastMosaic(t, q - 1) BY <2>1, Zenon DEF LastMosaic
  <2> DEFINE m == LastMosaic(t, q - 1)
  <2>3. m \in 0 .. q - 1 BY LastMosaicIs
  <2>4. LastIn(s, q - 1, {12}) = LastIn(t, q - 1, {12}) BY <1>3, LastInSerial
  <2> HIDE DEF m
  <2>5. \A i \in m + 1 .. q - 1 : i \in 1 .. p + 1 /\ i + 1 \in 1 .. p + 1 BY <2>3
  <2>6. m # 0 => CharAt(s, m) = CharAt(t, m) BY <1>4, <2>3
  <2>7. (\E i \in m + 1 .. q - 1 : IsAlpha(s, i) # IsAlpha(s, i + 1))
            <=> (\E i \in m + 1 .. q - 1 : IsAlpha(t, i) # IsAlpha(t, i + 1))
    BY <1>1, <2>5, Zenon
  <2> QED BY <2>2, <2>4, <2>6, <2>7, Zenon DEF HeldAfter, m
<1>6. HeldByCode(s, q) = HeldByCode(t, q)
  <2>1. s[q] = t[q] BY DEF Agree
  <2> QED BY <1>5, <2>1, HeldAtIs
<1>7. CharByCode(s, q) = CharByCode(t, q)
  <2>1. s[q] = t[q] BY DEF Agree
  <2>2. Between(s, q, 30, q - 1, {31}) = Between(t, q, 30, q - 1, {31}) BY <1>2, <1>3
  <2>3. IsHeld(s, q) = IsHeld(t, q) BY <2>2 DEF IsHeld
  <2> QED BY <1>4, <1>6, <2>1, <2>3 DEF CharByCode
<1>8. AttrAt(s, q) = AttrAt(t, q)
  <2>1. /\ Between(s, q - 1, 8, q, {9}) = Between(t, q - 1, 8, q, {9})
        /\ Between(s, q, 24, q - 1, AllColors) = Between(t, q, 24, q - 1, AllColors)
    BY <1>2, <1>3
  <2>2. Foreground(s, q) = Foreground(t, q) /\ Background(s, q) = Background(t, q)
    BY <1>1, <1>3
  <2> QED BY <2>1, <2>2 DEF AttrAt, IsFlashing, IsConcealed
<1>9. IsTall(s, q) = IsTall(t, q)
  <2>1. Between(s, q - 1, 13, q, {12}) = Between(t, q - 1, 13, q, {12}) BY <1>2, <1>3
  <2> QED BY <2>1 DEF IsTall
<1> QED BY <1>7, <1>8, <1>9

-----------------------------------------------------------------------------
(* The flags are what the definition makes of the codes so far.            *)

\* The colour that the last of codes selects among the first q.
ColorAfter(s, q, codes) ==
    LET i == LastIn(s, q, codes) IN IF i = 0 THEN WHITE ELSE s[i] % 16

\* Between two codes: the flags after the first q codes of a row, which may be of
\* double height if tall.
FlagsAt(f, s, q, tall) ==
    /\ f.is_alpha = IsAlpha(s, q + 1)
    /\ f.alpha_fg_color = ColorAfter(s, q, AlphaColors)
    /\ f.mosaic_fg_color = ColorAfter(s, q, MosaicColors)
    /\ f.bg_color = Background(s, q)
    /\ f.is_flashing = Between(s, q, 8, q, {9})
    /\ f.is_concealed = Between(s, q, 24, q, AllColors)
    /\ f.is_mosaic_held = Between(s, q, 30, q, {31})
    /\ f.is_contiguous = IsContiguous(s, q)
    /\ f.is_double_height = (tall /\ Between(s, q, 13, q, {12}))
    /\ f.held_mosaic = HeldAfter(s, q)

\* While code p is drawn: the attributes that take effect at their own position
\* count already, the others do not yet.
FlagsOn(f, s, p, tall, held) ==
    /\ f.is_alpha = IsAlpha(s, p)
    /\ f.alpha_fg_color = ColorAfter(s, p - 1, AlphaColors)
    /\ f.mosaic_fg_color = ColorAfter(s, p - 1, MosaicColors)
    /\ f.bg_color = Background(s, p)
    /\ f.is_flashing = IsFlashing(s, p)
    /\ f.is_concealed = IsConcealed(s, p)
    /\ f.is_mosaic_held = IsHeld(s, p)
    /\ f.is_contiguous = IsContiguous(s, p)
    /\ f.is_double_height = (tall /\ IsTall(s, p))
    /\ f.held_mosaic = held

\* The foreground is the colour of the mode.
LEMMA ForegroundIs ==
    ASSUME NEW s, NEW p
    PROVE  Foreground(s, p) = IF IsAlpha(s, p) THEN ColorAfter(s, p - 1, AlphaColors)
                                               ELSE ColorAfter(s, p - 1, MosaicColors)
BY DEF Foreground, ColorAfter

\* One code later: the colour of a mode, ...
LEMMA ColorStep ==
    ASSUME NEW s, NEW p \in Nat \ {0}, NEW codes
    PROVE  ColorAfter(s, p, codes) = IF s[p] \in codes THEN s[p] % 16
                                     ELSE ColorAfter(s, p - 1, codes)
<1>1. LastIn(s, p, codes) = IF s[p] \in codes THEN p ELSE LastIn(s, p - 1, codes)
  BY LastInStep
<1>2. p # 0 OBVIOUS
<1> QED BY <1>1, <1>2, Zenon DEF ColorAfter

\* ... the background, ...
LEMMA BackgroundStep ==
    ASSUME NEW s, NEW p \in Nat \ {0}
    PROVE  Background(s, p) = IF s[p] = 28 THEN BLACK
                              ELSE IF s[p] = 29 THEN Foreground(s, p)
                              ELSE Background(s, p - 1)
<1>1. LastIn(s, p, {28, 29}) = IF s[p] \in {28, 29} THEN p ELSE LastIn(s, p - 1, {28, 29})
  BY LastInStep
<1>2. p # 0 /\ 28 # 29 OBVIOUS
<1> HIDE DEF BLACK
<1>3. Background(s, p) = LET i == LastIn(s, p, {28, 29})
                         IN  IF i = 0 \/ s[i] = 28 THEN BLACK ELSE Foreground(s, i)
  BY Zenon DEF Background
<1>4. Background(s, p - 1) = LET i == LastIn(s, p - 1, {28, 29})
                             IN  IF i = 0 \/ s[i] = 28 THEN BLACK ELSE Foreground(s, i)
  BY Zenon DEF Background
<1>5. CASE s[p] \in {28, 29}
  <2>1. LastIn(s, p, {28, 29}) = p BY <1>1, <1>5
  <2> QED BY <1>2, <1>3, <1>5, <2>1
<1>6. CASE s[p] \notin {28, 29}
  <2>1. LastIn(s, p, {28, 29}) = LastIn(s, p - 1, {28, 29}) BY <1>1, <1>6
  <2> QED BY <1>3, <1>4, <1>6, <2>1
<1> QED BY <1>5, <1>6

\* ... the mode, ...
LEMMA AlphaStep ==
    ASSUME NEW s, NEW p \in Nat \ {0}
    PROVE  IsAlpha(s, p + 1) <=> s[p] \in AlphaColors \/ (s[p] \notin MosaicColors /\ IsAlpha(s, p))
<1>1. LastIn(s, p, AllColors) = IF s[p] \in AllColors THEN p ELSE LastIn(s, p - 1, AllColors)
  BY LastInStep
<1>2. p # 0 /\ (p + 1) - 1 = p /\ \A c \in AlphaColors : c \notin MosaicColors
  BY DEF AlphaColors, MosaicColors
<1>3. IsAlpha(s, p + 1) <=> LET i == LastIn(s, p, AllColors) IN i = 0 \/ s[i] \in AlphaColors
  BY <1>2 DEF IsAlpha
<1>4. IsAlpha(s, p) <=> LET i == LastIn(s, p - 1, AllColors) IN i = 0 \/ s[i] \in AlphaColors
  BY DEF IsAlpha
<1>5. s[p] \in AllColors <=> s[p] \in AlphaColors \/ s[p] \in MosaicColors BY DEF AllColors
<1> HIDE DEF AlphaColors, MosaicColors, AllColors
<1> QED BY <1>1, <1>2, <1>3, <1>4, <1>5

\* ... and contiguous or separated mosaics.
LEMMA ContiguousStep ==
    ASSUME NEW s, NEW p \in Nat \ {0}
    PROVE  IsContiguous(s, p) <=> s[p] = 25 \/ (s[p] # 26 /\ IsContiguous(s, p - 1))
<1>1. LastIn(s, p, {25, 26}) = IF s[p] \in {25, 26} THEN p ELSE LastIn(s, p - 1, {25, 26})
  BY LastInStep
<1>2. p # 0 OBVIOUS
<1>3. IsContiguous(s, p) <=> LET i == LastIn(s, p, {25, 26}) IN i = 0 \/ s[i] = 25
  BY DEF IsContiguous
<1>4. IsContiguous(s, p - 1) <=> LET i == LastIn(s, p - 1, {25, 26}) IN i = 0 \/ s[i] = 25
  BY DEF IsContiguous
<1> QED BY <1>1, <1>2, <1>3, <1>4

\* The held mosaic: a mosaic is held from its own position on, normal height and a
\* change of mode end it.
LEMMA HeldStep ==
    ASSUME NEW s, NEW p \in Nat \ {0}
    PROVE  HeldAfter(s, p) = IF s[p] >= 32 /\ ~IsAlpha(s, p) THEN CharAt(s, p)
                             ELSE IF s[p] = 12 \/ IsAlpha(s, p) # IsAlpha(s, p + 1) THEN Space
                             ELSE HeldAfter(s, p - 1)
<1> DEFINE m == LastMosaic(s, p)
           n == LastMosaic(s, p - 1)
           Change(k, q) == \E i \in k + 1 .. q : IsAlpha(s, i) # IsAlpha(s, i + 1)
<1>0. p - 1 \in Nat /\ p \in Nat OBVIOUS
<1>1. /\ m \in 0 .. p /\ (m > 0 => s[m] >= 32 /\ ~IsAlpha(s, m))
      /\ \A i \in 1 .. p : s[i] >= 32 /\ ~IsAlpha(s, i) => i <= m
  BY <1>0, LastMosaicIs
<1>2. /\ n \in 0 .. p - 1 /\ (n > 0 => s[n] >= 32 /\ ~IsAlpha(s, n))
      /\ \A i \in 1 .. p - 1 : s[i] >= 32 /\ ~IsAlpha(s, i) => i <= n
  BY <1>0, LastMosaicIs
<1>3. LastIn(s, p, {12}) = IF s[p] \in {12} THEN p ELSE LastIn(s, p - 1, {12})
  BY LastInStep
<1>4. LastIn(s, p - 1, {12}) \in 0 .. p - 1 BY <1>0, LastInIs
<1>5. HeldAfter(s, p) = IF m = 0 \/ LastIn(s, p, {12}) > m \/ Change(m, p)
                        THEN Space ELSE CharAt(s, m)
  BY Zenon DEF HeldAfter
<1>6. HeldAfter(s, p - 1) = IF n = 0 \/ LastIn(s, p - 1, {12}) > n \/ Change(n, p - 1)
                            THEN Space ELSE CharAt(s, n)
  BY Zenon DEF HeldAfter
<1> HIDE DEF m, n
<1>7. CASE s[p] >= 32 /\ ~IsAlpha(s, p)
  <2>1. m = p BY <1>1, <1>7
  <2>2. ~Change(m, p) BY <2>1
  <2>3. m # 0 /\ ~(LastIn(s, p, {12}) > m) BY <1>3, <1>4, <2>1
  <2> HIDE DEF Change
  <2>4. HeldAfter(s, p) = CharAt(s, m) BY <1>5, <2>2, <2>3, Zenon
  <2> QED BY <1>7, <2>1, <2>4
<1>8. CASE ~(s[p] >= 32 /\ ~IsAlpha(s, p))
  <2>1. m = n
    <3>1. m # p BY <1>1, <1>8
    <3>2. m > 0 => m <= n BY <1>1, <1>2, <3>1
    <3>3. n > 0 => n <= m BY <1>1, <1>2
    <3> QED BY <1>1, <1>2, <3>2, <3>3
  <2>2. Change(n, p) <=> Change(n, p - 1) \/ IsAlpha(s, p) # IsAlpha(s, p + 1)
    <3>1. \A i : i \in n + 1 .. p <=> i \in n + 1 .. p - 1 \/ i = p BY <1>2
    <3> QED BY <3>1, Zenon
  <2> HIDE DEF Change
  <2>3. CASE s[p] = 12
    <3>1. LastIn(s, p, {12}) > n BY <1>2, <1>3, <2>3
    <3> QED BY <1>5, <1>8, <2>1, <2>3, <3>1
  <2>4. CASE s[p] # 12
    <3>1. LastIn(s, p, {12}) = LastIn(s, p - 1, {12}) BY <1>3, <2>4
    <3> QED BY <1>5, <1>6, <1>8, <2>1, <2>2, <2>4, <3>1, Zenon
  <2> QED BY <2>3, <2>4
<1> QED BY <1>7, <1>8

\* A colour that is given to a mode.
LEMMA ColorFlagSet ==
    ASSUME NEW d \in DecoderStates, NEW x
    PROVE  /\ [d EXCEPT !.flags.alpha_fg_color = x].flags = [d.flags EXCEPT !.alpha_fg_color = x]
           /\ [d EXCEPT !.flags.mosaic_fg_color = x].flags
                  = [d.flags EXCEPT !.mosaic_fg_color = x]
BY SMT DEF DecoderStates

\* What SetAt() does to each flag.
SetAtOf(f, g, code, fg) ==
    /\ g.is_alpha = f.is_alpha
    /\ g.alpha_fg_color = f.alpha_fg_color
    /\ g.mosaic_fg_color = f.mosaic_fg_color
    /\ g.is_escaped = f.is_escaped
    /\ code = 28 => g.bg_color = BLACK
    /\ code = 29 => g.bg_color = fg
    /\ code \notin {28, 29} => g.bg_color = f.bg_color
    /\ code = 9 => g.is_flashing = FALSE
    /\ code # 9 => g.is_flashing = f.is_flashing
    /\ code = 24 => g.is_concealed = TRUE
    /\ code # 24 => g.is_concealed = f.is_concealed
    /\ code = 30 => g.is_mosaic_held = TRUE
    /\ code # 30 => g.is_mosaic_held = f.is_mosaic_held
    /\ code = 25 => g.is_contiguous = TRUE
    /\ code = 26 => g.is_contiguous = FALSE
    /\ code \notin {25, 26} => g.is_contiguous = f.is_contiguous
    /\ code = 12 => g.is_double_height = FALSE /\ g.held_mosaic = Space
    /\ code # 12 => /\ g.is_double_height = f.is_double_height
                    /\ g.held_mosaic = f.held_mosaic

\* The flags before and after it.
LEMMA SetAtFields ==
    ASSUME NEW d \in DecoderStates, NEW code \in 0 .. 127
    PROVE  SetAtOf(d.flags, SetAt(d, code).flags, code, DrawingColor(d))
<1>1. CASE code = 9
  BY SMT, <1>1 DEF SetAt, DecoderStates, Flags, SetAtOf
<1>2. CASE code = 12
  <2> DEFINE f == d.flags
             g == SetAt(d, code).flags
  <2>1. g = [f EXCEPT !.is_double_height = FALSE, !.held_mosaic = Space]
    <3>1. SetAt(d, code) = [d EXCEPT !.flags.is_double_height = FALSE,
                                     !.flags.held_mosaic = Space]
      BY SMT, <1>2 DEF SetAt
    <3> QED
      BY SMT, <3>1 DEF DecoderStates
  <2>2. f \in Flags
    BY SMT DEF DecoderStates
  <2> HIDE DEF f, g
  <2>3. /\ g.is_alpha = f.is_alpha /\ g.alpha_fg_color = f.alpha_fg_color
        /\ g.mosaic_fg_color = f.mosaic_fg_color /\ g.is_escaped = f.is_escaped
        /\ g.bg_color = f.bg_color /\ g.is_flashing = f.is_flashing
        /\ g.is_concealed = f.is_concealed /\ g.is_mosaic_held = f.is_mosaic_held
        /\ g.is_contiguous = f.is_contiguous /\ g.is_double_height = FALSE
        /\ g.held_mosaic = Space
    BY SMT, <2>1, <2>2 DEF Flags
  <2> QED
    BY <1>2, <2>3 DEF f, g, SetAtOf
<1>3. CASE code = 24
  BY SMT, <1>3 DEF SetAt, DecoderStates, Flags, SetAtOf
<1>4. CASE code = 25
  BY SMT, <1>4 DEF SetAt, DecoderStates, Flags, SetAtOf
<1>5. CASE code = 26
  BY SMT, <1>5 DEF SetAt, DecoderStates, Flags, SetAtOf
<1>6. CASE code = 28
  BY SMT, <1>6 DEF SetAt, DecoderStates, Flags, SetAtOf
<1>7. CASE code = 29
  BY SMT, <1>7 DEF SetAt, DecoderStates, Flags, DrawingColor, SetAtOf
<1>8. CASE code = 30
  BY SMT, <1>8 DEF SetAt, DecoderStates, Flags, SetAtOf
<1>9. CASE code \notin {9, 12, 24, 25, 26, 28, 29, 30}
  <2>1. SetAt(d, code) = d
    BY SMT, <1>9 DEF SetAt
  <2> QED
    BY <1>9, <2>1 DEF SetAtOf
<1> QED
  BY <1>1, <1>2, <1>3, <1>4, <1>5, <1>6, <1>7, <1>8, <1>9

\* What SetAfter() does to each flag.
SetAfterOf(f, g, code, canDouble) ==
    /\ g.bg_color = f.bg_color
    /\ g.is_contiguous = f.is_contiguous
    /\ g.is_escaped = f.is_escaped
    /\ code \in AlphaColors =>
           /\ g.is_alpha = TRUE /\ g.alpha_fg_color = code
           /\ g.mosaic_fg_color = f.mosaic_fg_color
    /\ code \in MosaicColors =>
           /\ g.is_alpha = FALSE /\ g.mosaic_fg_color = code - 16
           /\ g.alpha_fg_color = f.alpha_fg_color
    /\ code \in AllColors =>
           /\ g.is_concealed = FALSE
           /\ g.held_mosaic = IF f.is_alpha # g.is_alpha THEN Space
                                                        ELSE f.held_mosaic
    /\ code \notin AllColors =>
           /\ g.is_alpha = f.is_alpha
           /\ g.alpha_fg_color = f.alpha_fg_color
           /\ g.mosaic_fg_color = f.mosaic_fg_color
           /\ g.is_concealed = f.is_concealed
           /\ g.held_mosaic = f.held_mosaic
    /\ code = 8 => g.is_flashing = TRUE
    /\ code # 8 => g.is_flashing = f.is_flashing
    /\ code = 31 => g.is_mosaic_held = FALSE
    /\ code # 31 => g.is_mosaic_held = f.is_mosaic_held
    /\ code = 13 /\ canDouble => g.is_double_height = TRUE
    /\ ~(code = 13 /\ canDouble) => g.is_double_height = f.is_double_height

\* The flags before and after it.
LEMMA SetAfterFields ==
    ASSUME NEW d \in DecoderStates, NEW code \in 0 .. 127
    PROVE  SetAfterOf(d.flags, SetAfter(d, code).flags, code, CanDoubleHeight(d))
<1> DEFINE f == d.flags
<1>0. /\ code \in AlphaColors => code \notin MosaicColors /\ code \in 1 .. 7
      /\ code \in MosaicColors => code \notin AlphaColors /\ code \in 17 .. 23
      /\ code \in AllColors <=> code \in AlphaColors \/ code \in MosaicColors
  BY DEF AlphaColors, MosaicColors, AllColors
<1>1. f \in Flags
  BY SMT DEF DecoderStates
<1>2. CASE code \in AlphaColors
  <2>1. SetAfter(d, code) = [Select(d, TRUE) EXCEPT !.flags.alpha_fg_color = code]
    BY SMT, <1>2 DEF SetAfter, AlphaColors, MosaicColors
  <2> DEFINE g == SelectFlags(f, TRUE)
             v == Select(d, TRUE)
  <2>2. v \in DecoderStates /\ v.flags = g
    <3>1. v \in DecoderStates
      BY SelectType
    <3>2. v = [d EXCEPT !.flags = g]
      BY SelectOfFlags
    <3> HIDE DEF g, v
    <3>3. [d EXCEPT !.flags = g].flags = g
      BY FlagsFrame
    <3> QED
      BY <3>1, <3>2, <3>3
  <2> HIDE DEF v
  <2>3. SetAfter(d, code).flags = [g EXCEPT !.alpha_fg_color = code]
    <3>1. SetAfter(d, code) = [v EXCEPT !.flags.alpha_fg_color = code]
      BY <2>1 DEF v
    <3> HIDE DEF g
    <3> QED
      BY <2>2, <3>1, ColorFlagSet
  <2>4. g \in Flags
    BY <1>1, SelectFrame
  <2>5. g = [f EXCEPT !.is_alpha = TRUE, !.is_concealed = FALSE,
                      !.held_mosaic = IF f.is_alpha # TRUE THEN Space ELSE f.held_mosaic]
    BY DEF SelectFlags
  <2> DEFINE held == IF f.is_alpha # TRUE THEN Space ELSE f.held_mosaic
  <2> HIDE DEF g, held
  <2>6. /\ g.is_alpha = TRUE /\ g.is_concealed = FALSE /\ g.held_mosaic = held
        /\ g.alpha_fg_color = f.alpha_fg_color /\ g.mosaic_fg_color = f.mosaic_fg_color
        /\ g.bg_color = f.bg_color /\ g.is_contiguous = f.is_contiguous
        /\ g.is_escaped = f.is_escaped /\ g.is_flashing = f.is_flashing
        /\ g.is_mosaic_held = f.is_mosaic_held /\ g.is_double_height = f.is_double_height
    BY SMT, <1>1, <2>5 DEF Flags, held
  <2> DEFINE h == SetAfter(d, code).flags
  <2>7. h = [g EXCEPT !.alpha_fg_color = code]
    BY <2>3
  <2> HIDE DEF h
  <2>8. /\ h.alpha_fg_color = code /\ h.mosaic_fg_color = g.mosaic_fg_color
        /\ h.is_alpha = g.is_alpha /\ h.is_concealed = g.is_concealed
        /\ h.held_mosaic = g.held_mosaic /\ h.bg_color = g.bg_color
        /\ h.is_contiguous = g.is_contiguous /\ h.is_escaped = g.is_escaped
        /\ h.is_flashing = g.is_flashing /\ h.is_mosaic_held = g.is_mosaic_held
        /\ h.is_double_height = g.is_double_height
    BY SMT, <2>4, <2>7 DEF Flags
  <2>9. code \notin {8, 13, 31}
    BY <1>0, <1>2
  <2>10. g.is_alpha = h.is_alpha /\ h.held_mosaic = IF f.is_alpha # h.is_alpha THEN Space
                                                    ELSE f.held_mosaic
    BY <2>6, <2>8 DEF held
  <2>11. SetAfterOf(f, h, code, CanDoubleHeight(d))
    BY <1>0, <1>2, <2>6, <2>8, <2>9, <2>10 DEF SetAfterOf
  <2> QED
    BY <2>11 DEF h
<1>3. CASE code \in MosaicColors
  <2>1. SetAfter(d, code) = [Select(d, FALSE) EXCEPT !.flags.mosaic_fg_color = code - 16]
    BY SMT, <1>3 DEF SetAfter, AlphaColors, MosaicColors
  <2> DEFINE g == SelectFlags(f, FALSE)
             v == Select(d, FALSE)
  <2>2. v \in DecoderStates /\ v.flags = g
    <3>1. v \in DecoderStates
      BY SelectType
    <3>2. v = [d EXCEPT !.flags = g]
      BY SelectOfFlags
    <3> HIDE DEF g, v
    <3>3. [d EXCEPT !.flags = g].flags = g
      BY FlagsFrame
    <3> QED
      BY <3>1, <3>2, <3>3
  <2> HIDE DEF v
  <2>3. SetAfter(d, code).flags = [g EXCEPT !.mosaic_fg_color = code - 16]
    <3>1. SetAfter(d, code) = [v EXCEPT !.flags.mosaic_fg_color = code - 16]
      BY <2>1 DEF v
    <3> HIDE DEF g
    <3> QED
      BY <2>2, <3>1, ColorFlagSet
  <2>4. g \in Flags
    BY <1>1, SelectFrame
  <2>5. g = [f EXCEPT !.is_alpha = FALSE, !.is_concealed = FALSE,
                      !.held_mosaic = IF f.is_alpha # FALSE THEN Space ELSE f.held_mosaic]
    BY DEF SelectFlags
  <2> DEFINE held == IF f.is_alpha # FALSE THEN Space ELSE f.held_mosaic
  <2> HIDE DEF g, held
  <2>6. /\ g.is_alpha = FALSE /\ g.is_concealed = FALSE /\ g.held_mosaic = held
        /\ g.alpha_fg_color = f.alpha_fg_color /\ g.mosaic_fg_color = f.mosaic_fg_color
        /\ g.bg_color = f.bg_color /\ g.is_contiguous = f.is_contiguous
        /\ g.is_escaped = f.is_escaped /\ g.is_flashing = f.is_flashing
        /\ g.is_mosaic_held = f.is_mosaic_held /\ g.is_double_height = f.is_double_height
    BY SMT, <1>1, <2>5 DEF Flags, held
  <2> DEFINE h == SetAfter(d, code).flags
  <2>7. h = [g EXCEPT !.mosaic_fg_color = code - 16]
    BY <2>3
  <2> HIDE DEF h
  <2>8. /\ h.mosaic_fg_color = code - 16 /\ h.alpha_fg_color = g.alpha_fg_color
        /\ h.is_alpha = g.is_alpha /\ h.is_concealed = g.is_concealed
        /\ h.held_mosaic = g.held_mosaic /\ h.bg_color = g.bg_color
        /\ h.is_contiguous = g.is_contiguous /\ h.is_escaped = g.is_escaped
        /\ h.is_flashing = g.is_flashing /\ h.is_mosaic_held = g.is_mosaic_held
        /\ h.is_double_height = g.is_double_height
    BY SMT, <2>4, <2>7 DEF Flags
  <2>9. code \notin {8, 13, 31}
    BY <1>0, <1>3
  <2>10. g.is_alpha = h.is_alpha /\ h.held_mosaic = IF f.is_alpha # h.is_alpha THEN Space
                                                    ELSE f.held_mosaic
    BY <2>6, <2>8 DEF held
  <2>11. SetAfterOf(f, h, code, CanDoubleHeight(d))
    BY <1>0, <1>3, <2>6, <2>8, <2>9, <2>10 DEF SetAfterOf
  <2> QED
    BY <2>11 DEF h
<1>4. CASE code = 8
  <2>1. code \notin AlphaColors /\ code \notin MosaicColors /\ code \notin AllColors
    BY <1>0, <1>4
  <2>2. SetAfter(d, code) = [d EXCEPT !.flags.is_flashing = TRUE]
    BY SMT, <1>4, <2>1 DEF SetAfter
  <2> QED
    BY SMT, <1>1, <1>4, <2>1, <2>2 DEF DecoderStates, Flags, SetAfterOf
<1>5. CASE code = 10
  <2>1. code \notin AlphaColors /\ code \notin MosaicColors /\ code \notin AllColors
    BY <1>0, <1>5
  <2>2. SetAfter(d, code) = [d EXCEPT !.flags.is_boxing = FALSE]
    BY SMT, <1>5, <2>1 DEF SetAfter
  <2> QED
    BY SMT, <1>1, <1>5, <2>1, <2>2 DEF DecoderStates, Flags, SetAfterOf
<1>6. CASE code = 11
  <2>1. code \notin AlphaColors /\ code \notin MosaicColors /\ code \notin AllColors
    BY <1>0, <1>6
  <2>2. SetAfter(d, code) = [d EXCEPT !.flags.is_boxing = TRUE]
    BY SMT, <1>6, <2>1 DEF SetAfter
  <2> QED
    BY SMT, <1>1, <1>6, <2>1, <2>2 DEF DecoderStates, Flags, SetAfterOf
<1>7. CASE code = 31
  <2>1. code \notin AlphaColors /\ code \notin MosaicColors /\ code \notin AllColors
    BY <1>0, <1>7
  <2>2. SetAfter(d, code) = [d EXCEPT !.flags.is_mosaic_held = FALSE]
    BY SMT, <1>7, <2>1 DEF SetAfter
  <2> QED
    BY SMT, <1>1, <1>7, <2>1, <2>2 DEF DecoderStates, Flags, SetAfterOf
<1>8. CASE code = 13 /\ CanDoubleHeight(d)
  <2>1. code \notin AlphaColors /\ code \notin MosaicColors /\ code \notin AllColors
    BY <1>0, <1>8
  <2>2. SetAfter(d, code) = [d EXCEPT !.flags.is_double_height = TRUE, !.dheight_low_row = d.row + 1]
    BY SMT, <1>8, <2>1 DEF SetAfter
  <2> DEFINE g == SetAfter(d, code).flags
  <2>3. g = [f EXCEPT !.is_double_height = TRUE]
    BY SMT, <2>2 DEF DecoderStates
  <2> HIDE DEF f, g
  <2>4. /\ g.is_alpha = f.is_alpha /\ g.alpha_fg_color = f.alpha_fg_color
        /\ g.mosaic_fg_color = f.mosaic_fg_color /\ g.is_escaped = f.is_escaped
        /\ g.bg_color = f.bg_color /\ g.is_flashing = f.is_flashing
        /\ g.is_concealed = f.is_concealed /\ g.is_mosaic_held = f.is_mosaic_held
        /\ g.is_contiguous = f.is_contiguous /\ g.is_double_height = TRUE
        /\ g.held_mosaic = f.held_mosaic
    BY SMT, <1>1, <2>3 DEF Flags
  <2> HIDE DEF CanDoubleHeight
  <2>5. code \notin {8, 31}
    BY <1>8
  <2> QED
    BY <1>8, <2>1, <2>4, <2>5 DEF f, g, SetAfterOf
<1>9. CASE /\ code \notin AllColors /\ code \notin {8, 10, 11, 31}
           /\ ~(code = 13 /\ CanDoubleHeight(d))
  <2>1. code \notin AlphaColors /\ code \notin MosaicColors
    BY <1>0, <1>9
  <2>2. SetAfter(d, code) = d
    BY SMT, <1>9, <2>1 DEF SetAfter
  <2> QED
    BY <1>9, <2>1, <2>2 DEF SetAfterOf
<1> QED
  BY <1>0, <1>2, <1>3, <1>4, <1>5, <1>6, <1>7, <1>8, <1>9

\* The conditions of the definition are true or false.
LEMMA Conditions ==
    ASSUME NEW s, NEW p
    PROVE  /\ IsAlpha(s, p) \in BOOLEAN /\ IsContiguous(s, p) \in BOOLEAN
           /\ IsFlashing(s, p) \in BOOLEAN /\ IsConcealed(s, p) \in BOOLEAN
           /\ IsHeld(s, p) \in BOOLEAN /\ IsTall(s, p) \in BOOLEAN
           /\ \A on, off, c, resets : Between(s, on, c, off, resets) \in BOOLEAN
<1>1. \A on, off, c, resets : Between(s, on, c, off, resets) \in BOOLEAN
  BY DEF Between
<1>2. /\ IsFlashing(s, p) \in BOOLEAN /\ IsConcealed(s, p) \in BOOLEAN
      /\ IsHeld(s, p) \in BOOLEAN /\ IsTall(s, p) \in BOOLEAN
  BY <1>1 DEF IsFlashing, IsConcealed, IsHeld, IsTall
<1>3. IsAlpha(s, p) \in BOOLEAN
  BY DEF IsAlpha
<1>4. IsContiguous(s, p) \in BOOLEAN
  BY DEF IsContiguous
<1> QED
  BY <1>1, <1>2, <1>3, <1>4

\* The attributes that count between two codes, one code later: at its own position
\* and at the next.
LEMMA FlashingCounts ==
    ASSUME NEW s, NEW p \in Nat \ {0}
    PROVE  /\ IsFlashing(s, p) <=> Between(s, p - 1, 8, p - 1, {9}) /\ s[p] \notin {9}
           /\ Between(s, p, 8, p, {9})
                  <=> \/ Between(s, p - 1, 8, p - 1, {9}) /\ s[p] \notin {9}
                      \/ s[p] = 8
<1> DEFINE resets == {9}
<1>1. 8 \notin resets
  BY SMT
<1> HIDE DEF resets
<1>2. Between(s, p - 1, 8, p, resets)
          <=> Between(s, p - 1, 8, p - 1, resets) /\ s[p] \notin resets
  BY <1>1, BetweenStep
<1>3. Between(s, p, 8, p, resets)
          <=> \/ Between(s, p - 1, 8, p - 1, resets) /\ s[p] \notin resets
              \/ s[p] = 8
  BY <1>1, BetweenStep
<1> QED
  BY <1>2, <1>3, Zenon DEF IsFlashing, resets

\* The same of concealing.
LEMMA ConcealedCounts ==
    ASSUME NEW s, NEW p \in Nat \ {0}
    PROVE  /\ IsConcealed(s, p) <=> Between(s, p - 1, 24, p - 1, AllColors) \/ s[p] = 24
           /\ Between(s, p, 24, p, AllColors)
                  <=> \/ Between(s, p - 1, 24, p - 1, AllColors) /\ s[p] \notin AllColors
                      \/ s[p] = 24
<1>1. 24 \notin AllColors
  BY SMT DEF AllColors, AlphaColors, MosaicColors
<1>2. Between(s, p, 24, p - 1, AllColors)
          <=> Between(s, p - 1, 24, p - 1, AllColors) \/ s[p] = 24
  BY <1>1, BetweenStep
<1>3. Between(s, p, 24, p, AllColors)
          <=> \/ Between(s, p - 1, 24, p - 1, AllColors) /\ s[p] \notin AllColors
              \/ s[p] = 24
  BY <1>1, BetweenStep
<1> QED
  BY <1>2, <1>3, Zenon DEF IsConcealed

\* The same of the held mosaic.
LEMMA HeldCounts ==
    ASSUME NEW s, NEW p \in Nat \ {0}
    PROVE  /\ IsHeld(s, p) <=> Between(s, p - 1, 30, p - 1, {31}) \/ s[p] = 30
           /\ Between(s, p, 30, p, {31})
                  <=> \/ Between(s, p - 1, 30, p - 1, {31}) /\ s[p] \notin {31}
                      \/ s[p] = 30
<1> DEFINE resets == {31}
<1>1. 30 \notin resets
  BY SMT
<1> HIDE DEF resets
<1>2. Between(s, p, 30, p - 1, resets)
          <=> Between(s, p - 1, 30, p - 1, resets) \/ s[p] = 30
  BY <1>1, BetweenStep
<1>3. Between(s, p, 30, p, resets)
          <=> \/ Between(s, p - 1, 30, p - 1, resets) /\ s[p] \notin resets
              \/ s[p] = 30
  BY <1>1, BetweenStep
<1> QED
  BY <1>2, <1>3, Zenon DEF IsHeld, resets

\* The same of double height.
LEMMA TallCounts ==
    ASSUME NEW s, NEW p \in Nat \ {0}
    PROVE  /\ IsTall(s, p) <=> Between(s, p - 1, 13, p - 1, {12}) /\ s[p] \notin {12}
           /\ Between(s, p, 13, p, {12})
                  <=> \/ Between(s, p - 1, 13, p - 1, {12}) /\ s[p] \notin {12}
                      \/ s[p] = 13
<1> DEFINE resets == {12}
<1>1. 13 \notin resets
  BY SMT
<1> HIDE DEF resets
<1>2. Between(s, p - 1, 13, p, resets)
          <=> Between(s, p - 1, 13, p - 1, resets) /\ s[p] \notin resets
  BY <1>1, BetweenStep
<1>3. Between(s, p, 13, p, resets)
          <=> \/ Between(s, p - 1, 13, p - 1, resets) /\ s[p] \notin resets
              \/ s[p] = 13
  BY <1>1, BetweenStep
<1> QED
  BY <1>2, <1>3, Zenon DEF IsTall, resets

\* The attributes that take effect at their own position.
LEMMA SetAtMatches ==
    ASSUME NEW d \in DecoderStates, NEW s, NEW p \in Nat \ {0}, NEW tall \in BOOLEAN,
           FlagsAt(d.flags, s, p - 1, tall), s[p] \in 0 .. 127
    PROVE  FlagsOn(SetAt(d, s[p]).flags, s, p, tall, HeldByCode(s, p))
<1> DEFINE f == d.flags
           g == SetAt(d, s[p]).flags
           code == s[p]
<1>1. /\ f.is_alpha = IsAlpha(s, p)
      /\ f.alpha_fg_color = ColorAfter(s, p - 1, AlphaColors)
      /\ f.mosaic_fg_color = ColorAfter(s, p - 1, MosaicColors)
      /\ f.bg_color = Background(s, p - 1)
      /\ f.is_flashing = Between(s, p - 1, 8, p - 1, {9})
      /\ f.is_concealed = Between(s, p - 1, 24, p - 1, AllColors)
      /\ f.is_mosaic_held = Between(s, p - 1, 30, p - 1, {31})
      /\ f.is_contiguous = IsContiguous(s, p - 1)
      /\ f.is_double_height = (tall /\ Between(s, p - 1, 13, p - 1, {12}))
      /\ f.held_mosaic = HeldAfter(s, p - 1)
  <2>1. (p - 1) + 1 = p
    OBVIOUS
  <2> QED
    BY <2>1 DEF FlagsAt
<1>2. SetAtOf(f, g, code, DrawingColor(d))
  BY SetAtFields
<1>3. DrawingColor(d) = Foreground(s, p)
  BY <1>1, ForegroundIs DEF DrawingColor
<1> HIDE DEF f, g, BLACK
<1>4. g.bg_color = Background(s, p)
  <2>1. Background(s, p) = IF code = 28 THEN BLACK ELSE IF code = 29 THEN Foreground(s, p)
                           ELSE Background(s, p - 1)
    BY BackgroundStep
  <2> QED
    BY <1>1, <1>2, <1>3, <2>1 DEF SetAtOf
<1>5. g.is_flashing = IsFlashing(s, p)
  <2>2. IsFlashing(s, p) <=> Between(s, p - 1, 8, p - 1, {9}) /\ code \notin {9}
    BY FlashingCounts, Zenon
  <2>3. IsFlashing(s, p) \in BOOLEAN /\ Between(s, p - 1, 8, p - 1, {9}) \in BOOLEAN
    BY Conditions
  <2>4. /\ code = 9 => g.is_flashing = FALSE
        /\ code # 9 => g.is_flashing = f.is_flashing
    BY <1>2 DEF SetAtOf
  <2>5. f.is_flashing = Between(s, p - 1, 8, p - 1, {9})
    BY <1>1
  <2> QED
    BY <2>2, <2>3, <2>4, <2>5
<1>6. g.is_concealed = IsConcealed(s, p)
  <2>2. IsConcealed(s, p) <=> Between(s, p - 1, 24, p - 1, AllColors) \/ code = 24
    BY ConcealedCounts, Zenon
  <2>3. IsConcealed(s, p) \in BOOLEAN /\ Between(s, p - 1, 24, p - 1, AllColors) \in BOOLEAN
    BY Conditions
  <2>4. /\ code = 24 => g.is_concealed = TRUE
        /\ code # 24 => g.is_concealed = f.is_concealed
    BY <1>2 DEF SetAtOf
  <2>5. f.is_concealed = Between(s, p - 1, 24, p - 1, AllColors)
    BY <1>1
  <2> QED
    BY <2>2, <2>3, <2>4, <2>5
<1>7. g.is_mosaic_held = IsHeld(s, p)
  <2>2. IsHeld(s, p) <=> Between(s, p - 1, 30, p - 1, {31}) \/ code = 30
    BY HeldCounts, Zenon
  <2>3. IsHeld(s, p) \in BOOLEAN /\ Between(s, p - 1, 30, p - 1, {31}) \in BOOLEAN
    BY Conditions
  <2>4. /\ code = 30 => g.is_mosaic_held = TRUE
        /\ code # 30 => g.is_mosaic_held = f.is_mosaic_held
    BY <1>2 DEF SetAtOf
  <2>5. f.is_mosaic_held = Between(s, p - 1, 30, p - 1, {31})
    BY <1>1
  <2> QED
    BY <2>2, <2>3, <2>4, <2>5
<1>8. g.is_contiguous = IsContiguous(s, p)
  <2>1. IsContiguous(s, p) <=> code = 25 \/ (code # 26 /\ IsContiguous(s, p - 1))
    BY ContiguousStep
  <2>2. IsContiguous(s, p) \in BOOLEAN /\ IsContiguous(s, p - 1) \in BOOLEAN
    BY Conditions
  <2> QED
    BY <1>1, <1>2, <2>1, <2>2 DEF SetAtOf
<1>9. g.is_double_height = (tall /\ IsTall(s, p))
  <2>2. IsTall(s, p) <=> Between(s, p - 1, 13, p - 1, {12}) /\ code \notin {12}
    BY TallCounts, Zenon
  <2>3. IsTall(s, p) \in BOOLEAN /\ Between(s, p - 1, 13, p - 1, {12}) \in BOOLEAN
    BY Conditions
  <2> QED
    BY <1>1, <1>2, <2>2, <2>3 DEF SetAtOf
<1>10. g.held_mosaic = HeldByCode(s, p)
  BY <1>1, <1>2, HeldAtIs DEF SetAtOf
<1> QED
  BY <1>1, <1>2, <1>4, <1>5, <1>6, <1>7, <1>8, <1>9, <1>10 DEF FlagsOn, g, SetAtOf

\* A mosaic that is drawn is held from then on.
HeldOn(s, p) == IF s[p] >= 32 /\ ~IsAlpha(s, p) THEN CharAt(s, p) ELSE HeldByCode(s, p)

\* The attributes that take effect after it.
LEMMA SetAfterMatches ==
    ASSUME NEW d \in DecoderStates, NEW s, NEW p \in Nat \ {0}, NEW tall \in BOOLEAN,
           FlagsOn(d.flags, s, p, tall, HeldOn(s, p)), s[p] \in 0 .. 127,
           s[p] = 13 => (CanDoubleHeight(d) <=> tall)
    PROVE  FlagsAt(SetAfter(d, s[p]).flags, s, p, tall)
<1> DEFINE f == d.flags
           g == SetAfter(d, s[p]).flags
           code == s[p]
<1>1. /\ f.is_alpha = IsAlpha(s, p)
      /\ f.alpha_fg_color = ColorAfter(s, p - 1, AlphaColors)
      /\ f.mosaic_fg_color = ColorAfter(s, p - 1, MosaicColors)
      /\ f.bg_color = Background(s, p)
      /\ f.is_flashing = IsFlashing(s, p)
      /\ f.is_concealed = IsConcealed(s, p)
      /\ f.is_mosaic_held = IsHeld(s, p)
      /\ f.is_contiguous = IsContiguous(s, p)
      /\ f.is_double_height = (tall /\ IsTall(s, p))
      /\ f.held_mosaic = HeldOn(s, p)
  BY DEF FlagsOn
<1>2. SetAfterOf(f, g, code, CanDoubleHeight(d))
  BY SetAfterFields
<1>3. /\ code \in AlphaColors => code \notin MosaicColors /\ code \in 1 .. 7
      /\ code \in MosaicColors => code \notin AlphaColors /\ code \in 17 .. 23
      /\ code \in AllColors <=> code \in AlphaColors \/ code \in MosaicColors
  BY DEF AlphaColors, MosaicColors, AllColors
<1> HIDE DEF f, g
<1>4. g.is_alpha = IsAlpha(s, p + 1)
  <2>1. IsAlpha(s, p + 1) <=> code \in AlphaColors \/ (code \notin MosaicColors /\ IsAlpha(s, p))
    BY AlphaStep
  <2>2. IsAlpha(s, p + 1) \in BOOLEAN /\ IsAlpha(s, p) \in BOOLEAN
    BY Conditions
  <2> QED
    BY <1>1, <1>2, <1>3, <2>1, <2>2 DEF SetAfterOf
<1>5. g.alpha_fg_color = ColorAfter(s, p, AlphaColors)
  <2>1. code \in AlphaColors => code % 16 = code
    BY <1>3
  <2> QED
    BY <1>1, <1>2, <1>3, <2>1, ColorStep DEF SetAfterOf
<1>6. g.mosaic_fg_color = ColorAfter(s, p, MosaicColors)
  <2>1. code \in MosaicColors => code % 16 = code - 16
    BY <1>3
  <2> QED
    BY <1>1, <1>2, <1>3, <2>1, ColorStep DEF SetAfterOf
<1>7. g.is_flashing = Between(s, p, 8, p, {9})
  <2>2. /\ IsFlashing(s, p) <=> Between(s, p - 1, 8, p - 1, {9}) /\ code \notin {9}
        /\ Between(s, p, 8, p, {9}) <=>
               (Between(s, p - 1, 8, p - 1, {9}) /\ code \notin {9}) \/ code = 8
    BY FlashingCounts, Zenon
  <2>3. IsFlashing(s, p) \in BOOLEAN /\ Between(s, p, 8, p, {9}) \in BOOLEAN
    BY Conditions
  <2>4. /\ code = 8 => g.is_flashing = TRUE
        /\ code # 8 => g.is_flashing = f.is_flashing
    BY <1>2 DEF SetAfterOf
  <2>5. f.is_flashing = IsFlashing(s, p)
    BY <1>1
  <2> QED
    BY <2>2, <2>3, <2>4, <2>5
<1>8. g.is_concealed = Between(s, p, 24, p, AllColors)
  <2>1. 24 \notin AllColors
    BY SMT DEF AllColors, AlphaColors, MosaicColors
  <2>2. /\ IsConcealed(s, p) <=> Between(s, p - 1, 24, p - 1, AllColors) \/ code = 24
        /\ Between(s, p, 24, p, AllColors) <=>
               (Between(s, p - 1, 24, p - 1, AllColors) /\ code \notin AllColors) \/ code = 24
    BY ConcealedCounts, Zenon
  <2>3. /\ IsConcealed(s, p) \in BOOLEAN /\ Between(s, p, 24, p, AllColors) \in BOOLEAN
        /\ code = 24 => code \notin AllColors
    BY <2>1, Conditions
  <2> QED
    BY <1>1, <1>2, <2>2, <2>3 DEF SetAfterOf
<1>9. g.is_mosaic_held = Between(s, p, 30, p, {31})
  <2>2. /\ IsHeld(s, p) <=> Between(s, p - 1, 30, p - 1, {31}) \/ code = 30
        /\ Between(s, p, 30, p, {31}) <=>
               (Between(s, p - 1, 30, p - 1, {31}) /\ code \notin {31}) \/ code = 30
    BY HeldCounts, Zenon
  <2>3. IsHeld(s, p) \in BOOLEAN /\ Between(s, p, 30, p, {31}) \in BOOLEAN
    BY Conditions
  <2>4. CASE code = 31
    <3>1. ~Between(s, p, 30, p, {31})
      BY <2>2, <2>4
    <3>2. g.is_mosaic_held = FALSE
      BY <1>2, <2>4 DEF SetAfterOf
    <3> QED
      BY <2>3, <3>1, <3>2
  <2>5. CASE code # 31
    BY <1>1, <1>2, <2>2, <2>3, <2>5 DEF SetAfterOf
  <2> QED
    BY <2>4, <2>5
<1>10. g.is_double_height = (tall /\ Between(s, p, 13, p, {12}))
  <2>2. /\ IsTall(s, p) <=> Between(s, p - 1, 13, p - 1, {12}) /\ code \notin {12}
        /\ Between(s, p, 13, p, {12}) <=>
               (Between(s, p - 1, 13, p - 1, {12}) /\ code \notin {12}) \/ code = 13
    BY TallCounts, Zenon
  <2>3. IsTall(s, p) \in BOOLEAN /\ Between(s, p, 13, p, {12}) \in BOOLEAN
    BY Conditions
  <2>4. CASE code = 13 /\ CanDoubleHeight(d)
    BY <1>2, <2>2, <2>3, <2>4, Zenon DEF SetAfterOf
  <2>5. CASE ~(code = 13 /\ CanDoubleHeight(d))
    <3>1. code = 13 => tall = FALSE
      BY <2>5
    <3> HIDE DEF CanDoubleHeight
    <3> QED
      BY <1>1, <1>2, <2>2, <2>3, <2>5, <3>1 DEF SetAfterOf
  <2> QED
    BY <2>4, <2>5
<1>11. g.held_mosaic = HeldAfter(s, p)
  <2>1. HeldAfter(s, p) = IF code >= 32 /\ ~IsAlpha(s, p) THEN CharAt(s, p)
                          ELSE IF code = 12 \/ IsAlpha(s, p) # IsAlpha(s, p + 1) THEN Space
                          ELSE HeldAfter(s, p - 1)
    BY HeldStep
  <2>2. HeldByCode(s, p) = IF code = 12 THEN Space ELSE HeldAfter(s, p - 1)
    BY HeldAtIs
  <2>3. code \in AllColors => ~(code >= 32) /\ code # 12
    BY <1>3
  <2>4. CASE code \in AllColors
    <3>1. HeldOn(s, p) = HeldAfter(s, p - 1)
      BY <2>2, <2>3, <2>4 DEF HeldOn
    <3>2. g.held_mosaic = IF f.is_alpha # g.is_alpha THEN Space ELSE f.held_mosaic
      BY <1>2, <2>4 DEF SetAfterOf
    <3> QED
      BY <1>1, <1>4, <2>1, <2>3, <2>4, <3>1, <3>2
  <2>5. CASE code \notin AllColors
    <3>1. IsAlpha(s, p + 1) = IsAlpha(s, p)
      BY <1>1, <1>2, <1>4, <2>5 DEF SetAfterOf
    <3>2. g.held_mosaic = HeldOn(s, p)
      BY <1>1, <1>2, <2>5 DEF SetAfterOf
    <3> QED
      BY <2>1, <2>2, <3>1, <3>2 DEF HeldOn
  <2> QED
    BY <2>4, <2>5
<1>12. g.bg_color = Background(s, p) /\ g.is_contiguous = IsContiguous(s, p)
  BY <1>1, <1>2 DEF SetAfterOf
<1> QED
  BY <1>4, <1>5, <1>6, <1>7, <1>8, <1>9, <1>10, <1>11, <1>12 DEF FlagsAt, g

-----------------------------------------------------------------------------
(* The codes of the rows when a byte is added to the frame.                *)

\* How many of n bytes belong to row r.
CodeCount(n, r) ==
    IF n <= r * MAX_COLS THEN 0
    ELSE IF n >= (r + 1) * MAX_COLS THEN MAX_COLS
    ELSE n - r * MAX_COLS

\* The rows before the cursor are full and those after it empty.
LEMMA CodeCounts ==
    ASSUME NEW row \in Nat, NEW col \in Cols, NEW r \in Nat
    PROVE  LET n == row * MAX_COLS + col
           IN  /\ r < row => CodeCount(n, r) = MAX_COLS /\ CodeCount(n + 1, r) = MAX_COLS
               /\ r < row => r * MAX_COLS + MAX_COLS <= n
               /\ r = row => CodeCount(n, r) = col /\ CodeCount(n + 1, r) = col + 1
               /\ row < r => CodeCount(n, r) = 0 /\ CodeCount(n + 1, r) = 0
               /\ n \in Nat /\ r * MAX_COLS \in Nat
<1> DEFINE C == MAX_COLS
           n == row * C + col
           base == r * C
           next == (r + 1) * C
           here == row * C
<1>1. C \in Nat \ {0} /\ col \in 0 .. C - 1
  BY DecoderAssumption DEF Cols
<1>2. /\ base \in Nat /\ next \in Nat /\ here \in Nat
      /\ next = base + C
      /\ r < row => next <= here
      /\ r = row => base = here
      /\ r > row => here + C <= base
  <2> HIDE DEF C
  <2>1. base \in Nat /\ next \in Nat /\ here \in Nat /\ next = base + C
    BY SMT, <1>1
  <2>2. r < row => next <= here
    BY SMT, <1>1
  <2>3. (row + 1) * C = here + C
    BY SMT, <1>1
  <2>4. r > row => (row + 1) * C <= base
    BY SMT, <1>1
  <2> QED
    BY <2>1, <2>2, <2>3, <2>4
<1>3. \A m : CodeCount(m, r) = IF m <= base THEN 0 ELSE IF m >= next THEN C ELSE m - base
  BY DEF CodeCount
<1> HIDE DEF C, base, next, here
<1>4. /\ r < row => CodeCount(here + col, r) = C /\ CodeCount(here + col + 1, r) = C
      /\ r < row => base + C <= here + col
      /\ r = row => CodeCount(here + col, r) = col /\ CodeCount(here + col + 1, r) = col + 1
      /\ row < r => CodeCount(here + col, r) = 0 /\ CodeCount(here + col + 1, r) = 0
      /\ here + col \in Nat /\ base \in Nat
  BY SMT, <1>1, <1>2, <1>3
<1> QED
  BY <1>4 DEF C, base, here

\* The codes of a row are those of its bytes.
LEMMA CodesAre ==
    ASSUME NEW frame, NEW r
    PROVE  /\ DOMAIN CodesOf(frame, r) = 1 .. CodeCount(Len(frame), r)
           /\ \A i \in 1 .. CodeCount(Len(frame), r) :
                  CodesOf(frame, r)[i] = frame[r * MAX_COLS + i] % 128
           /\ CodesOf(frame, r) = [i \in 1 .. CodeCount(Len(frame), r) |->
                                      frame[r * MAX_COLS + i] % 128]
BY Zenon DEF CodesOf, CodeCount

\* A byte adds its code to the row of the cursor and leaves the others.
LEMMA CodesAppend ==
    ASSUME NEW frame \in Seq(Bytes), NEW row \in Nat, NEW col \in Cols,
           Len(frame) = row * MAX_COLS + col, NEW b \in Bytes
    PROVE  LET frame2 == Append(frame, b)
               s == CodesOf(frame, row)
               t == CodesOf(frame2, row)
           IN  /\ \A r \in Nat : r # row => CodesOf(frame2, r) = CodesOf(frame, r)
               /\ \A r \in Nat : r > row => DOMAIN CodesOf(frame2, r) = {}
               /\ DOMAIN s = 1 .. col /\ DOMAIN t = 1 .. col + 1
               /\ \A i \in 1 .. col : t[i] = s[i]
               /\ t[col + 1] = b % 128
<1> DEFINE frame2 == Append(frame, b)
           n == row * MAX_COLS + col
<1>1. /\ Len(frame2) = n + 1 /\ n \in Nat /\ col \in Nat
      /\ \A i \in 1 .. n : frame2[i] = frame[i]
      /\ frame2[n + 1] = b
  <2>1. n \in Nat
    BY CodeCounts
  <2>2. Len(frame2) = Len(frame) + 1 /\ Len(frame) \in Nat
    OBVIOUS
  <2>3. \A i \in 1 .. Len(frame) : frame2[i] = frame[i]
    OBVIOUS
  <2>4. frame2[Len(frame) + 1] = b
    OBVIOUS
  <2>5. col \in Nat
    BY DecoderAssumption DEF Cols
  <2> QED
    BY <2>1, <2>2, <2>3, <2>4, <2>5
<1> HIDE DEF frame2
<1>2. ASSUME NEW r \in Nat, r # row
      PROVE  CodesOf(frame2, r) = CodesOf(frame, r) /\ (r > row => DOMAIN CodesOf(frame2, r) = {})
  <2> DEFINE base == r * MAX_COLS
  <2>0. /\ r < row => CodeCount(n, r) = MAX_COLS /\ CodeCount(n + 1, r) = MAX_COLS
        /\ r < row => base + MAX_COLS <= n
        /\ row < r => CodeCount(n, r) = 0 /\ CodeCount(n + 1, r) = 0
        /\ base \in Nat
    <3>1. r < row => CodeCount(n, r) = MAX_COLS /\ CodeCount(n + 1, r) = MAX_COLS
      BY CodeCounts, Zenon
    <3>2. r < row => base + MAX_COLS <= n
      BY CodeCounts, Zenon
    <3>3. row < r => CodeCount(n, r) = 0 /\ CodeCount(n + 1, r) = 0
      BY CodeCounts, ZenonT(60)
    <3>4. base \in Nat
      BY CodeCounts, Zenon
    <3> QED
      BY <3>1, <3>2, <3>3, <3>4, Zenon
  <2> HIDE DEF n
  <2>1. CASE r < row
    <3>1. CodeCount(n, r) = MAX_COLS /\ CodeCount(n + 1, r) = MAX_COLS
      BY <2>0, <2>1, Zenon
    <3>2. base + MAX_COLS <= n /\ base \in Nat
      BY <2>0, <2>1, Zenon
    <3> HIDE DEF base
    <3>3. \A i \in 1 .. MAX_COLS : base + i \in 1 .. n
      BY <1>1, <3>2, DecoderAssumption
    <3>4. \A i \in 1 .. MAX_COLS : frame2[base + i] = frame[base + i]
      BY <1>1, <3>3
    <3>5. CodesOf(frame2, r) = [i \in 1 .. MAX_COLS |-> frame2[base + i] % 128]
      BY <1>1, <3>1, CodesAre DEF base
    <3>6. Len(frame) = n
      BY DEF n
    <3>7. CodesOf(frame, r) = [i \in 1 .. MAX_COLS |-> frame[base + i] % 128]
      BY <3>6, <3>1, CodesAre DEF base
    <3>8. CodesOf(frame2, r) = CodesOf(frame, r)
      BY <3>4, <3>5, <3>7, Zenon
    <3> QED
      BY <2>1, <3>8
  <2>2. CASE row < r
    <3>1. CodeCount(n, r) = 0 /\ CodeCount(n + 1, r) = 0
      BY <2>0, <2>2, Zenon
    <3> HIDE DEF base
    <3>2. Len(frame) = n
      BY DEF n
    <3>3. CodesOf(frame2, r) = [i \in 1 .. 0 |-> frame2[base + i] % 128]
      BY <1>1, <3>1, CodesAre DEF base
    <3>4. CodesOf(frame, r) = [i \in 1 .. 0 |-> frame[base + i] % 128]
      BY <3>2, <3>1, CodesAre DEF base
    <3> QED
      BY <3>3, <3>4
  <2> QED
    BY <1>2, <2>1, <2>2
<1>3. /\ DOMAIN CodesOf(frame, row) = 1 .. col /\ DOMAIN CodesOf(frame2, row) = 1 .. col + 1
      /\ \A i \in 1 .. col : CodesOf(frame2, row)[i] = CodesOf(frame, row)[i]
      /\ CodesOf(frame2, row)[col + 1] = b % 128
  <2> DEFINE base == row * MAX_COLS
  <2>1. CodeCount(n, row) = col /\ CodeCount(n + 1, row) = col + 1 /\ base \in Nat
    BY CodeCounts
  <2>2. n = base + col /\ Len(frame) = n
    OBVIOUS
  <2> HIDE DEF base, n
  <2>3. /\ DOMAIN CodesOf(frame, row) = 1 .. col
        /\ \A i \in 1 .. col : CodesOf(frame, row)[i] = frame[base + i] % 128
    <3>1. /\ DOMAIN CodesOf(frame, row) = 1 .. CodeCount(Len(frame), row)
          /\ \A i \in 1 .. CodeCount(Len(frame), row) :
                 CodesOf(frame, row)[i] = frame[base + i] % 128
      BY CodesAre DEF base
    <3>2. CodeCount(Len(frame), row) = col
      BY <2>1, <2>2
    <3> QED
      BY <3>1, <3>2, Zenon
  <2>4. /\ DOMAIN CodesOf(frame2, row) = 1 .. col + 1
        /\ \A i \in 1 .. col + 1 : CodesOf(frame2, row)[i] = frame2[base + i] % 128
    <3>1. /\ DOMAIN CodesOf(frame2, row) = 1 .. CodeCount(Len(frame2), row)
          /\ \A i \in 1 .. CodeCount(Len(frame2), row) :
                 CodesOf(frame2, row)[i] = frame2[base + i] % 128
      BY CodesAre DEF base
    <3>2. CodeCount(Len(frame2), row) = col + 1
      BY <1>1, <2>1, Zenon
    <3> QED
      BY <3>1, <3>2, Zenon
  <2>5. \A i \in 1 .. col : base + i \in 1 .. n
    BY <1>1, <2>1, <2>2
  <2>6. base + (col + 1) = n + 1
    BY <1>1, <2>1, <2>2
  <2>7. \A i \in 1 .. col : i \in 1 .. col + 1
    BY <1>1
  <2>8. col + 1 \in 1 .. col + 1
    BY <1>1
  <2>9. \A i \in 1 .. col : CodesOf(frame2, row)[i] = CodesOf(frame, row)[i]
    BY <1>1, <2>3, <2>4, <2>5, <2>7, Zenon
  <2>10. CodesOf(frame2, row)[col + 1] = b % 128
    BY <1>1, <2>4, <2>6, <2>8, Zenon
  <2> QED
    BY <2>3, <2>4, <2>9, <2>10
<1> QED
  BY <1>2, <1>3 DEF frame2

-----------------------------------------------------------------------------
(* The lower rows.                                                         *)

\* The definition of the lower rows as an equation: each from the row above it.
LEMMA LowerBelowIs ==
    ASSUME NEW frame, NEW limit
    PROVE  \A r \in -1 .. MAX_ROWS - 1 :
               LowerBelow(frame, limit)[r] = (r > 0 /\ Tall(frame, r - 1) /\ r - 1 < limit
                                    /\ ~LowerBelow(frame, limit)[r - 1])
<1> DEFINE Below(f, r) ==
        r > 0 /\ Tall(frame, r - 1) /\ r - 1 < limit /\ ~f[r - 1]
           S == {n \in Nat : \E f : f = [r \in -1 .. n - 1 |-> Below(f, r)]}
<1>1. 0 \in S
  <2> DEFINE f == [r \in -1 .. 0 - 1 |-> FALSE]
  <2>1. \A r \in -1 .. 0 - 1 : Below(f, r) = FALSE
    BY SMT
  <2>2. f = [r \in -1 .. 0 - 1 |-> Below(f, r)]
    BY <2>1, Zenon
  <2> QED
    BY <2>2
<1>2. ASSUME NEW n \in Nat, n \in S PROVE n + 1 \in S
  <2>1. PICK f : f = [r \in -1 .. n - 1 |-> Below(f, r)]
    BY <1>2
  <2> DEFINE g == [r \in -1 .. n |-> IF r < n THEN f[r] ELSE Below(f, r)]
  <2>2. \A r \in -1 .. n : r > 0 => g[r - 1] = f[r - 1]
    BY SMT
  <2>3. \A r \in -1 .. n : Below(g, r) = Below(f, r)
    <3> HIDE DEF g
    <3> TAKE r \in -1 .. n
    <3>1. CASE r > 0
      BY <2>2, <3>1, Zenon
    <3>2. CASE ~(r > 0)
      BY <3>2, Zenon
    <3> QED
      BY <3>1, <3>2
  <2> HIDE DEF Below
  <2>4. \A r \in -1 .. n : r < n => f[r] = Below(f, r)
    <3>1. \A r \in -1 .. n - 1 : f[r] = Below(f, r)
      BY <2>1, Zenon
    <3>2. \A r \in -1 .. n : r < n => r \in -1 .. n - 1
      BY SMT
    <3> QED
      BY <3>1, <3>2
  <2>5. \A r \in -1 .. n : g[r] = Below(g, r)
    BY <2>3, <2>4, Zenon
  <2>6. g = [r \in -1 .. n |-> g[r]]
    OBVIOUS
  <2> HIDE DEF g
  <2>7. g = [r \in -1 .. n |-> Below(g, r)]
    BY <2>5, <2>6, Zenon
  <2>8. (n + 1) - 1 = n
    OBVIOUS
  <2> QED
    BY <2>7, <2>8 DEF Below
<1>3. \A n \in Nat : n \in S
  <2> HIDE DEF S
  <2> QED
    BY <1>1, <1>2, Induction
<1>4. \E f : f = [r \in -1 .. MAX_ROWS - 1 |-> Below(f, r)]
  BY <1>3, DecoderAssumption
<1>5. LowerBelow(frame, limit) = CHOOSE f : f = [r \in -1 .. MAX_ROWS - 1 |-> Below(f, r)]
  BY Zenon DEF LowerBelow
<1> HIDE DEF Below
<1>6. LowerBelow(frame, limit) = [r \in -1 .. MAX_ROWS - 1 |-> Below(LowerBelow(frame, limit), r)]
  BY <1>4, <1>5, Zenon
<1>7. \A r \in -1 .. MAX_ROWS - 1 : LowerBelow(frame, limit)[r] = Below(LowerBelow(frame, limit), r)
  BY <1>6, Zenon
<1> QED
  BY <1>7 DEF Below

LEMMA LowerIs ==
    ASSUME NEW frame
    PROVE  \A r \in -1 .. MAX_ROWS - 1 :
               LowerByCode(frame)[r] = (r > 0 /\ Tall(frame, r - 1) /\ r - 1 < MAX_ROWS - 2
                                        /\ ~LowerByCode(frame)[r - 1])
BY LowerBelowIs, Zenon DEF LowerByCode

\* A row below the first is a lower row if the one above is tall and not lower.
LEMMA LowerStep ==
    ASSUME NEW frame, NEW r \in Rows
    PROVE  /\ LowerByCode(frame)[0] = FALSE
           /\ LowerByCode(frame)[r] \in BOOLEAN
           /\ r + 1 \in Rows =>
                  (LowerByCode(frame)[r + 1] <=> /\ Tall(frame, r) /\ r < MAX_ROWS - 2
                                             /\ ~LowerByCode(frame)[r])
<1>1. r \in -1 .. MAX_ROWS - 1 /\ 0 \in -1 .. MAX_ROWS - 1
  BY DecoderAssumption DEF Rows
<1>2. r + 1 \in Rows => r + 1 \in -1 .. MAX_ROWS - 1 /\ (r + 1) - 1 = r /\ r + 1 > 0
  BY DecoderAssumption DEF Rows
<1>3. LowerByCode(frame)[0] = FALSE
  <2>1. LowerByCode(frame)[0] = (0 > 0 /\ Tall(frame, 0 - 1) /\ 0 - 1 < MAX_ROWS - 2
                             /\ ~LowerByCode(frame)[0 - 1])
    BY <1>1, LowerIs, Zenon
  <2>2. ~(0 > 0)
    OBVIOUS
  <2> QED
    BY <2>1, <2>2, Zenon
<1>4. LowerByCode(frame)[r] \in BOOLEAN
  <2> DEFINE below == r > 0 /\ Tall(frame, r - 1) /\ r - 1 < MAX_ROWS - 2
                      /\ ~LowerByCode(frame)[r - 1]
  <2>1. LowerByCode(frame)[r] = below
    BY <1>1, LowerIs, Zenon
  <2>2. below \in BOOLEAN
    BY Zenon
  <2> QED
    BY <2>1, <2>2, Zenon
<1>5. ASSUME r + 1 \in Rows
      PROVE  LowerByCode(frame)[r + 1] = (r + 1 > 0 /\ Tall(frame, r) /\ r < MAX_ROWS - 2
                                      /\ ~LowerByCode(frame)[r])
  BY <1>2, <1>5, LowerIs
<1> QED
  BY <1>2, <1>3, <1>4, <1>5

\* Whether a row is a lower one depends on the rows above it.
LEMMA LowerSerial ==
    ASSUME NEW frame, NEW frame2, NEW row \in Rows,
           \A r \in Rows : r < row => CodesOf(frame2, r) = CodesOf(frame, r)
    PROVE  \A r \in Rows : r <= row => LowerByCode(frame2)[r] = LowerByCode(frame)[r]
<1> DEFINE S == {n \in Nat : n <= row => LowerByCode(frame2)[n] = LowerByCode(frame)[n]}
<1>0. row \in Nat /\ row < MAX_ROWS
  BY DecoderAssumption DEF Rows
<1>1. 0 \in S
  BY LowerStep
<1>2. ASSUME NEW n \in Nat, n \in S PROVE n + 1 \in S
  <2>1. CASE n + 1 <= row
    <3>1. n \in Rows /\ n + 1 \in Rows /\ n < row
      BY <1>0, <2>1, DecoderAssumption DEF Rows
    <3>2. Tall(frame2, n) = Tall(frame, n)
      BY <3>1 DEF Tall
    <3>3. LowerByCode(frame2)[n] = LowerByCode(frame)[n]
      BY <1>2, <3>1
    <3>4. LowerByCode(frame2)[n + 1] <=> LowerByCode(frame)[n + 1]
      BY <3>1, <3>2, <3>3, LowerStep
    <3>5. LowerByCode(frame2)[n + 1] \in BOOLEAN /\ LowerByCode(frame)[n + 1] \in BOOLEAN
      BY <3>1, LowerStep
    <3> QED
      BY <3>4, <3>5
  <2> QED
    BY <2>1
<1>3. \A n \in Nat : n \in S
  <2> HIDE DEF S
  <2> QED
    BY <1>1, <1>2, Induction
<1> QED
  BY <1>3 DEF Rows

-----------------------------------------------------------------------------
(* What is drawn for a code.                                               *)

\* The cell of a position, in its own row and in the lower row.
UpperCell(s, p, tall) ==
    [character |-> IF tall /\ IsTall(s, p) THEN CharByCode(s, p).upper ELSE CharByCode(s, p).single,
     attr |-> AttrAt(s, p)]
LowerCell(s, p) == [character |-> CharByCode(s, p).lower, attr |-> AttrAt(s, p)]

\* What displaying a code leaves alone.
Steady(d, e) ==
    /\ e.frame_buffer = d.frame_buffer /\ e.bold_mode = d.bold_mode
    /\ e.flags.is_escaped = d.flags.is_escaped

\* The flags give a cell the attributes of the definition.
LEMMA AttrMatches ==
    ASSUME NEW d, d.bold_mode = FALSE, NEW s, NEW p, NEW tall, NEW held,
           FlagsOn(d.flags, s, p, tall, held)
    PROVE  AttrOf(d) = AttrAt(s, p)
<1> DEFINE f == d.flags
           fg == IF f.is_alpha THEN f.alpha_fg_color ELSE f.mosaic_fg_color
<1>1. /\ f.is_alpha = IsAlpha(s, p)
      /\ f.alpha_fg_color = ColorAfter(s, p - 1, AlphaColors)
      /\ f.mosaic_fg_color = ColorAfter(s, p - 1, MosaicColors)
      /\ f.bg_color = Background(s, p)
      /\ f.is_flashing = IsFlashing(s, p)
      /\ f.is_concealed = IsConcealed(s, p)
  BY DEF FlagsOn
<1>2. fg = Foreground(s, p)
  BY <1>1, ForegroundIs
<1>3. AttrOf(d) = [bold |-> d.bold_mode,
                   color_pair |-> IF has_colors THEN ColorPairNumber(fg, f.bg_color) ELSE 0,
                   has_flash |-> f.is_flashing, has_concealed |-> f.is_concealed]
  BY DEF AttrOf
<1> HIDE DEF fg, f
<1> QED
  BY <1>1, <1>2, <1>3, Zenon DEF AttrAt

\* Drawing changes no flag and writes one cell, or two at double height.
LEMMA DrawCells ==
    ASSUME NEW d, Sound(d), NEW ch \in Chars, d.row # d.dheight_low_row
    PROVE  LET e == Draw(d, ch)
               dh == d.flags.is_double_height
               here == <<d.row, d.col>>
               below == <<d.dheight_low_row, d.col>>
           IN  /\ Sound(e) /\ SamePlace(d, e) /\ Steady(d, e)
               /\ e.flags = d.flags /\ e.dheight_low_row = d.dheight_low_row
               /\ e.cells[here] = [character |-> IF dh THEN ch.upper ELSE ch.single,
                                   attr |-> AttrOf(d)]
               /\ dh => e.cells[below] = [character |-> ch.lower, attr |-> AttrOf(d)]
               /\ \A q \in Screen : q # here /\ ~(dh /\ q = below) =>
                      e.cells[q] = d.cells[q]
<1> DEFINE e == Draw(d, ch)
           dh == d.flags.is_double_height
           here == <<d.row, d.col>>
           below == <<d.dheight_low_row, d.col>>
           Cell(c) == [character |-> c, attr |-> AttrOf(d)]
           P == {here} \cup (IF dh THEN {below} ELSE {})
           new == [q \in P |-> IF q # here THEN Cell(ch.lower)
                               ELSE Cell(IF dh THEN ch.upper ELSE ch.single)]
<1>1. d \in DecoderStates /\ (dh => d.dheight_low_row \in Rows)
  BY DEF Sound, LowerHalf
<1>2. e = PutChars(d, new) /\ DOMAIN new = P
  BY DEF Draw
<1>3. Sound(e) /\ e.flags = d.flags
  BY DrawSound
<1>4. here \in Screen /\ (dh => below \in Screen) /\ here # below
  BY <1>1, Neighbours DEF Screen
<1>5. /\ new[here] = Cell(IF dh THEN ch.upper ELSE ch.single)
      /\ dh => new[below] = Cell(ch.lower)
  <2> HIDE DEF here, below, Cell, dh
  <2> QED
    BY <1>4
<1>6. here \in P /\ (dh => below \in P) /\ \A q : q # here /\ ~(dh /\ q = below) => q \notin P
  <2> HIDE DEF here, below
  <2> QED
    OBVIOUS
<1> HIDE DEF new, P
<1>7. \A q \in Screen : /\ q \in DOMAIN new => PutChars(d, new).cells[q] = new[q]
                        /\ q \notin DOMAIN new => PutChars(d, new).cells[q] = d.cells[q]
  BY <1>1, PutCharsCells
<1>8. /\ SamePlace(d, e) /\ e.dheight_low_row = d.dheight_low_row
      /\ e.frame_buffer = d.frame_buffer
  <2>1. /\ PutChars(d, new).row = d.row /\ PutChars(d, new).col = d.col
        /\ PutChars(d, new).dheight_low_row = d.dheight_low_row
        /\ PutChars(d, new).frame_buffer = d.frame_buffer
    BY <1>1, PutCharsFrame
  <2> HIDE DEF e
  <2> QED
    BY <1>2, <2>1 DEF SamePlace
<1>9. e.bold_mode = d.bold_mode
  BY SMT, <1>1, <1>2 DEF PutChars, DecoderStates
<1>10. Steady(d, e)
  BY <1>3, <1>8, <1>9 DEF Steady
<1> HIDE DEF e, here, below, dh, Cell
<1>11. /\ e.cells[here] = new[here] /\ (dh => e.cells[below] = new[below])
       /\ \A q \in Screen : q # here /\ ~(dh /\ q = below) => e.cells[q] = d.cells[q]
  BY <1>2, <1>4, <1>6, <1>7, Zenon
<1>12. e.cells[here] = Cell(IF dh THEN ch.upper ELSE ch.single)
  BY <1>5, <1>11, Zenon
<1>13. dh => e.cells[below] = Cell(ch.lower)
  BY <1>5, <1>11, Zenon
<1> QED
  BY <1>3, <1>8, <1>10, <1>11, <1>12, <1>13 DEF e, here, below, dh, Cell

\* Only the held mosaic of the flags is another one.
LEMMA HeldFlag ==
    ASSUME NEW d \in DecoderStates, NEW held
    PROVE  LET e == [d EXCEPT !.flags.held_mosaic = held]
           IN  /\ e.cells = d.cells /\ SamePlace(d, e) /\ Steady(d, e)
               /\ e.dheight_low_row = d.dheight_low_row
               /\ \A s, p, tall, old : FlagsOn(d.flags, s, p, tall, old) =>
                      FlagsOn(e.flags, s, p, tall, held)
<1> DEFINE e == [d EXCEPT !.flags.held_mosaic = held]
           f == d.flags
           g == e.flags
<1>1. /\ e.cells = d.cells /\ SamePlace(d, e) /\ e.dheight_low_row = d.dheight_low_row
      /\ e.frame_buffer = d.frame_buffer /\ e.bold_mode = d.bold_mode
  BY SMT DEF SamePlace, DecoderStates
<1>2. f \in Flags /\ g = [f EXCEPT !.held_mosaic = held]
  BY SMT DEF DecoderStates
<1> HIDE DEF f, g
<1>3. /\ g.is_alpha = f.is_alpha /\ g.alpha_fg_color = f.alpha_fg_color
      /\ g.mosaic_fg_color = f.mosaic_fg_color /\ g.bg_color = f.bg_color
      /\ g.is_flashing = f.is_flashing /\ g.is_concealed = f.is_concealed
      /\ g.is_mosaic_held = f.is_mosaic_held /\ g.is_contiguous = f.is_contiguous
      /\ g.is_double_height = f.is_double_height /\ g.is_escaped = f.is_escaped
      /\ g.held_mosaic = held
  BY SMT, <1>2 DEF Flags
<1>4. \A s, p, tall, old : FlagsOn(f, s, p, tall, old) => FlagsOn(g, s, p, tall, held)
  BY <1>3 DEF FlagsOn
<1>5. Steady(d, e)
  BY <1>1, <1>3 DEF Steady, f, g
<1> QED
  BY <1>1, <1>4, <1>5 DEF f, g

\* The cells of e are those of d with the cells of position p drawn where d stands.
Drawn(d, e, s, p, tall) ==
    LET dh == tall /\ IsTall(s, p)
        here == <<d.row, d.col>>
        below == <<d.dheight_low_row, d.col>>
    IN  /\ e.cells[here] = UpperCell(s, p, tall)
        /\ dh => e.cells[below] = LowerCell(s, p)
        /\ \A q \in Screen : q # here /\ ~(dh /\ q = below) => e.cells[q] = d.cells[q]

\* It depends on the place and on the cells only.
LEMMA DrawnFrame ==
    ASSUME NEW d, NEW a, NEW b, NEW e, NEW s, NEW p, NEW tall,
           Drawn(a, b, s, p, tall), SamePlace(d, a), a.cells = d.cells,
           a.dheight_low_row = d.dheight_low_row, e.cells = b.cells
    PROVE  Drawn(d, e, s, p, tall)
<1>1. a.row = d.row /\ a.col = d.col
  BY DEF SamePlace
<1> QED
  BY <1>1, Zenon DEF Drawn

\* On a row that is not ignored a code is drawn as the definition asks.
LEMMA DrawMatches ==
    ASSUME NEW d, Sound(d), d.bold_mode = FALSE, d.row # d.dheight_low_row,
           NEW s, NEW p \in Nat \ {0}, NEW tall \in BOOLEAN, s[p] \in 0 .. 127,
           FlagsOn(d.flags, s, p, tall, HeldByCode(s, p))
    PROVE  LET e == DrawCode(d, s[p])
           IN  /\ SamePlace(d, e) /\ Steady(d, e)
               /\ e.dheight_low_row = d.dheight_low_row
               /\ FlagsOn(e.flags, s, p, tall, HeldOn(s, p))
               /\ Drawn(d, e, s, p, tall)
<1> DEFINE code == s[p]
           e == DrawCode(d, code)
           dh == tall /\ IsTall(s, p)
           here == <<d.row, d.col>>
           below == <<d.dheight_low_row, d.col>>
           text == GetCharCode(code % 16, code \div 16, d.flags.is_alpha, d.flags.is_contiguous)
           blank == IF d.flags.is_mosaic_held THEN d.flags.held_mosaic ELSE Space
           ch == IF code < 32 THEN blank ELSE text
           u == Draw(d, ch)
<1>1. /\ d.flags.is_alpha = IsAlpha(s, p) /\ d.flags.is_contiguous = IsContiguous(s, p)
      /\ d.flags.is_mosaic_held = IsHeld(s, p) /\ d.flags.held_mosaic = HeldByCode(s, p)
      /\ d.flags.is_double_height = dh
  BY DEF FlagsOn
<1>2. ch = CharByCode(s, p)
  BY <1>1 DEF CharByCode, CharAt
<1>3. ch \in Chars
  <2>1. code % 16 \in RowCodes /\ code \div 16 \in ColCodes
    BY SMT DEF RowCodes, ColCodes
  <2>2. /\ d.flags.is_alpha \in BOOLEAN /\ d.flags.is_contiguous \in BOOLEAN
        /\ d.flags.held_mosaic \in Chars
    BY SMT DEF Sound, DecoderStates, Flags
  <2>3. text \in Chars
    BY <2>1, <2>2, CharType, Zenon
  <2> QED
    BY <2>2, <2>3, SpaceType
<1>4. AttrOf(d) = AttrAt(s, p)
  BY AttrMatches
<1>5. \/ code < 32 /\ e = u
      \/ ~(code < 32) /\ e = [u EXCEPT !.flags.held_mosaic =
                                  IF d.flags.is_alpha THEN d.flags.held_mosaic ELSE text]
  BY DEF DrawCode, DrawAttribute, DrawText
<1> HIDE DEF ch, text, blank
<1>6. /\ Sound(u) /\ SamePlace(d, u) /\ Steady(d, u)
      /\ u.flags = d.flags /\ u.dheight_low_row = d.dheight_low_row
      /\ u.cells[here] = [character |-> IF dh THEN ch.upper ELSE ch.single,
                          attr |-> AttrAt(s, p)]
      /\ dh => u.cells[below] = [character |-> ch.lower, attr |-> AttrAt(s, p)]
      /\ \A q \in Screen : q # here /\ ~(dh /\ q = below) => u.cells[q] = d.cells[q]
  <2>1. /\ Sound(u) /\ SamePlace(d, u) /\ Steady(d, u)
        /\ u.flags = d.flags /\ u.dheight_low_row = d.dheight_low_row
        /\ u.cells[here] = [character |-> IF d.flags.is_double_height THEN ch.upper
                                                                     ELSE ch.single,
                            attr |-> AttrOf(d)]
        /\ d.flags.is_double_height =>
               u.cells[below] = [character |-> ch.lower, attr |-> AttrOf(d)]
        /\ \A q \in Screen : q # here /\ ~(d.flags.is_double_height /\ q = below) =>
               u.cells[q] = d.cells[q]
    BY <1>3, DrawCells, Zenon
  <2> HIDE DEF u, here, below, dh
  <2> QED
    BY <1>1, <1>4, <2>1, Zenon
<1> HIDE DEF u, e, here, below
<1>7. /\ u.cells[here] = UpperCell(s, p, tall)
      /\ dh => u.cells[below] = LowerCell(s, p)
  BY <1>2, <1>6 DEF UpperCell, LowerCell
<1>8. /\ e.cells = u.cells /\ SamePlace(u, e) /\ Steady(u, e)
      /\ e.dheight_low_row = u.dheight_low_row
      /\ FlagsOn(e.flags, s, p, tall, HeldOn(s, p))
  <2>1. CASE code < 32 /\ e = u
    <3>1. HeldOn(s, p) = HeldByCode(s, p)
      BY <2>1 DEF HeldOn
    <3> QED
      BY <2>1, <3>1, <1>6 DEF SamePlace, Steady
  <2>2. CASE ~(code < 32) /\ e = [u EXCEPT !.flags.held_mosaic =
                                      IF d.flags.is_alpha THEN d.flags.held_mosaic ELSE text]
    <3>1. text = CharAt(s, p)
      BY <1>1 DEF text, CharAt
    <3>2. (IF d.flags.is_alpha THEN d.flags.held_mosaic ELSE text) = HeldOn(s, p)
      BY <1>1, <2>2, <3>1 DEF HeldOn
    <3>3. e = [u EXCEPT !.flags.held_mosaic = HeldOn(s, p)]
      BY <2>2, <3>2
    <3>4. u \in DecoderStates
      BY <1>6 DEF Sound
    <3>5. FlagsOn(u.flags, s, p, tall, HeldByCode(s, p))
      BY <1>6
    <3> QED
      BY <3>3, <3>4, <3>5, HeldFlag
  <2> QED
    BY <1>5, <2>1, <2>2
<1>9. SamePlace(d, e) /\ Steady(d, e) /\ e.dheight_low_row = d.dheight_low_row
  BY <1>6, <1>8 DEF SamePlace, Steady
<1>10. Drawn(d, e, s, p, tall)
  BY <1>6, <1>7, <1>8, Zenon DEF Drawn, here, below
<1> QED
  BY <1>8, <1>9, <1>10 DEF e

\* SetAt() and SetAfter() leave alone what Steady says, and only double height
\* changes the lower row.
LEMMA SetAtSteady ==
    ASSUME NEW d \in DecoderStates, NEW code \in 0 .. 127
    PROVE  Steady(d, SetAt(d, code))
<1>1. SetAt(d, code).flags.is_escaped = d.flags.is_escaped
  <2>1. SetAtOf(d.flags, SetAt(d, code).flags, code, DrawingColor(d))
    BY SetAtFields
  <2> QED
    BY <2>1, Zenon DEF SetAtOf
<1>2. /\ SetAt(d, code).frame_buffer = d.frame_buffer
      /\ SetAt(d, code).bold_mode = d.bold_mode
  BY SMT DEF SetAt, DecoderStates
<1> QED
  BY <1>1, <1>2 DEF Steady

\* The same of the attributes that take effect after the code.
LEMMA SetAfterSteady ==
    ASSUME NEW d \in DecoderStates, NEW code \in 0 .. 127
    PROVE  /\ Steady(d, SetAfter(d, code))
           /\ SetAfter(d, code).dheight_low_row =
                  IF code = 13 /\ CanDoubleHeight(d) THEN d.row + 1 ELSE d.dheight_low_row
<1>1. SetAfter(d, code).flags.is_escaped = d.flags.is_escaped
  BY SetAfterFields DEF SetAfterOf
<1>2. /\ SetAfter(d, code).frame_buffer = d.frame_buffer
      /\ SetAfter(d, code).bold_mode = d.bold_mode
  BY SMT DEF SetAfter, Select, DecoderStates
<1>3. SetAfter(d, code).dheight_low_row =
          IF code = 13 /\ CanDoubleHeight(d) THEN d.row + 1 ELSE d.dheight_low_row
  BY SMT DEF SetAfter, Select, DecoderStates, AlphaColors, MosaicColors
<1> QED
  BY <1>1, <1>2, <1>3 DEF Steady

\* The step to the next position resets the flags at the end of a row.
LEMMA AdvanceFlags ==
    ASSUME NEW d \in DecoderStates
    PROVE  LET e == Advance(d)
           IN  /\ e.frame_buffer = d.frame_buffer /\ e.bold_mode = d.bold_mode
               /\ e.dheight_low_row = d.dheight_low_row
               /\ d.col + 1 # MAX_COLS => e.flags = d.flags
               /\ d.col + 1 = MAX_COLS =>
                      e.flags = DefaultFlags(Space, d.flags.is_cursor_on)
BY SMT DEF Advance, NextRow, ResetFlags, DecoderStates

\* Before the first code of a row the flags are those of a new row.
LEMMA FlagsFresh ==
    ASSUME NEW s, NEW tall, NEW on
    PROVE  FlagsAt(DefaultFlags(Space, on), s, 0, tall)
<1> DEFINE f == DefaultFlags(Space, on)
<1>1. /\ f.is_alpha = TRUE /\ f.alpha_fg_color = WHITE /\ f.mosaic_fg_color = WHITE
      /\ f.bg_color = BLACK /\ f.is_flashing = FALSE /\ f.is_concealed = FALSE
      /\ f.is_mosaic_held = FALSE /\ f.is_contiguous = TRUE
      /\ f.is_double_height = FALSE /\ f.held_mosaic = Space
  BY DEF DefaultFlags
<1> HIDE DEF f
<1>2. \A codes : LastIn(s, 0, codes) = 0
  BY LastInNone
<1>3. (0 + 1) - 1 = 0
  OBVIOUS
<1>4. IsAlpha(s, 0 + 1) = TRUE /\ IsContiguous(s, 0) = TRUE
  BY <1>2, <1>3 DEF IsAlpha, IsContiguous
<1>5. /\ ColorAfter(s, 0, AlphaColors) = WHITE /\ ColorAfter(s, 0, MosaicColors) = WHITE
      /\ Background(s, 0) = BLACK
  BY <1>2 DEF ColorAfter, Background
<1>6. /\ Between(s, 0, 8, 0, {9}) = FALSE /\ Between(s, 0, 24, 0, AllColors) = FALSE
      /\ Between(s, 0, 30, 0, {31}) = FALSE /\ Between(s, 0, 13, 0, {12}) = FALSE
  BY BetweenNone, Conditions
<1>7. HeldAfter(s, 0) = Space
  <2>1. LastMosaic(s, 0) = 0
    BY LastMosaicIs
  <2> QED
    BY <2>1 DEF HeldAfter
<1>8. (tall /\ Between(s, 0, 13, 0, {12})) = FALSE
  BY <1>6, Zenon
<1>9. FlagsAt(f, s, 0, tall)
  BY <1>1, <1>4, <1>5, <1>6, <1>7, <1>8, Zenon DEF FlagsAt
<1> QED
  BY <1>9 DEF f

\* A code displayed on a row that is not ignored.
LEMMA DisplayMatches ==
    ASSUME NEW d, Sound(d), d.bold_mode = FALSE, d.flags.is_escaped = FALSE,
           d.row # d.dheight_low_row,
           NEW s, NEW tall \in BOOLEAN, tall <=> d.row < MAX_ROWS - 2,
           s[d.col + 1] \in 0 .. 127, FlagsAt(d.flags, s, d.col, tall)
    PROVE  LET e == DisplayCode(d, s[d.col + 1])
           IN  /\ e.frame_buffer = d.frame_buffer /\ e.bold_mode = FALSE
               /\ e.flags.is_escaped = FALSE
               /\ e.dheight_low_row = IF s[d.col + 1] = 13 /\ tall THEN d.row + 1
                                      ELSE d.dheight_low_row
               /\ Drawn(d, e, s, d.col + 1, tall)
               /\ d.col + 1 # MAX_COLS => FlagsAt(e.flags, s, d.col + 1, tall)
               /\ d.col + 1 = MAX_COLS => \E on : e.flags = DefaultFlags(Space, on)
<1> DEFINE p == d.col + 1
           code == s[p]
           a == SetAt(d, code)
           b == DrawCode(a, code)
           c == SetAfter(b, code)
           e == Advance(c)
<1>1. /\ d \in DecoderStates /\ d.row \in Rows /\ d.col \in Cols
      /\ p \in Nat \ {0} /\ p - 1 = d.col /\ tall \in BOOLEAN
  <2>1. d \in DecoderStates
    BY DEF Sound
  <2>2. d.row \in Rows /\ d.col \in Cols
    BY <2>1, Neighbours
  <2>3. d.col \in Nat
    BY <2>2, DecoderAssumption DEF Cols
  <2> QED
    BY <2>1, <2>2, <2>3
<1>0. code \in 0 .. 127
  OBVIOUS
<1> HIDE DEF p
<1>2. /\ Sound(a) /\ SamePlace(d, a) /\ Steady(d, a)
      /\ a.cells = d.cells /\ a.dheight_low_row = d.dheight_low_row
  BY <1>0, <1>1, SetAtSound, SetAtPlace, SetAtSteady, SetAtKeeps
<1>3. FlagsOn(a.flags, s, p, tall, HeldByCode(s, p))
  BY <1>0, <1>1, SetAtMatches
<1> HIDE DEF a
<1>4. a.bold_mode = FALSE /\ a.row # a.dheight_low_row
  BY <1>2 DEF Steady, SamePlace
<1>5. /\ SamePlace(a, b) /\ Steady(a, b)
      /\ b.dheight_low_row = a.dheight_low_row
      /\ FlagsOn(b.flags, s, p, tall, HeldOn(s, p))
      /\ Drawn(a, b, s, p, tall)
  BY <1>0, <1>1, <1>2, <1>3, <1>4, DrawMatches
<1>6. Sound(b)
  BY <1>0, <1>2, DrawAttributeSound, DrawTextSound DEF DrawCode
<1> HIDE DEF b
<1>7. CanDoubleHeight(b) <=> tall
  BY <1>2, <1>4, <1>5 DEF CanDoubleHeight, SamePlace
<1>8. /\ FlagsAt(c.flags, s, p, tall) /\ Steady(b, c) /\ SamePlace(b, c)
      /\ c.cells = b.cells /\ c \in DecoderStates
      /\ c.dheight_low_row = IF code = 13 /\ CanDoubleHeight(b) THEN b.row + 1
                             ELSE b.dheight_low_row
  <2>1. b \in DecoderStates
    BY <1>6 DEF Sound
  <2>2. FlagsAt(c.flags, s, p, tall)
    BY <1>0, <1>1, <1>5, <1>7, <2>1, SetAfterMatches
  <2>3. /\ Steady(b, c)
        /\ c.dheight_low_row = IF code = 13 /\ CanDoubleHeight(b) THEN b.row + 1
                               ELSE b.dheight_low_row
    BY <1>0, <2>1, SetAfterSteady
  <2>4. SamePlace(b, c) /\ c.cells = b.cells /\ c \in DecoderStates
    BY <1>0, <2>1, SetAfterPlace, AfterKeepsCells, SetAfterType
  <2> QED
    BY <2>2, <2>3, <2>4
<1> HIDE DEF c
<1>9. /\ e.cells = c.cells /\ e.frame_buffer = c.frame_buffer /\ e.bold_mode = c.bold_mode
      /\ e.dheight_low_row = c.dheight_low_row
      /\ c.col + 1 # MAX_COLS => e.flags = c.flags
      /\ c.col + 1 = MAX_COLS => e.flags = DefaultFlags(Space, c.flags.is_cursor_on)
  BY <1>8, AdvanceFlags, AdvanceKeepsCells
<1> HIDE DEF e
<1>10. c.col = d.col /\ c.row = d.row /\ b.row = d.row
  BY <1>2, <1>5, <1>8 DEF SamePlace
<1>11. /\ c.frame_buffer = d.frame_buffer /\ c.bold_mode = FALSE
       /\ c.flags.is_escaped = FALSE
  BY <1>2, <1>5, <1>8 DEF Steady
<1>12. e.flags.is_escaped = FALSE
  <2>1. DefaultFlags(Space, c.flags.is_cursor_on).is_escaped = FALSE
    BY DEF DefaultFlags
  <2> QED
    BY <1>9, <1>11, <2>1
<1>13. e.dheight_low_row = IF code = 13 /\ tall THEN d.row + 1 ELSE d.dheight_low_row
  BY <1>2, <1>5, <1>7, <1>8, <1>9, <1>10
<1>14. Drawn(d, e, s, p, tall)
  <2>1. e.cells = b.cells
    BY <1>8, <1>9
  <2> QED
    BY <1>2, <1>5, <2>1, DrawnFrame
<1>15. /\ d.col + 1 # MAX_COLS => FlagsAt(e.flags, s, p, tall)
       /\ d.col + 1 = MAX_COLS => \E on : e.flags = DefaultFlags(Space, on)
  BY <1>8, <1>9, <1>10
<1>16. e.frame_buffer = d.frame_buffer /\ e.bold_mode = FALSE
  BY <1>9, <1>11
<1>17. DisplayCode(d, code) = e
  BY DEF DisplayCode, e, c, b, a
<1> QED
  BY <1>12, <1>13, <1>14, <1>15, <1>16, <1>17, Zenon DEF p

\* On the ignored row a code draws nothing, whatever the flags are.
LEMMA IgnoredMatches ==
    ASSUME NEW d, Sound(d), d.bold_mode = FALSE, d.flags.is_escaped = FALSE,
           d.row = d.dheight_low_row, NEW code \in 0 .. 127
    PROVE  LET e == DisplayCode(d, code)
           IN  /\ e.frame_buffer = d.frame_buffer /\ e.bold_mode = FALSE
               /\ e.flags.is_escaped = FALSE
               /\ e.dheight_low_row = d.dheight_low_row
               /\ e.cells = d.cells
               /\ d.col + 1 = MAX_COLS => \E on : e.flags = DefaultFlags(Space, on)
<1> DEFINE a == SetAt(d, code)
           b == DrawCode(a, code)
           c == SetAfter(b, code)
           e == Advance(c)
<1>1. d \in DecoderStates
  BY DEF Sound
<1>2. /\ Sound(a) /\ SamePlace(d, a) /\ Steady(d, a)
      /\ a.cells = d.cells /\ a.dheight_low_row = d.dheight_low_row
  BY <1>1, SetAtSound, SetAtPlace, SetAtSteady, SetAtKeeps
<1> HIDE DEF a
<1>3. b = a
  BY <1>2 DEF DrawCode, SamePlace
<1> HIDE DEF b
<1>4. a \in DecoderStates /\ ~CanDoubleHeight(a)
  BY <1>2 DEF Sound, SamePlace, CanDoubleHeight
<1>5. /\ Steady(a, c) /\ c.dheight_low_row = a.dheight_low_row
      /\ SamePlace(a, c) /\ c.cells = a.cells /\ c \in DecoderStates
  <2>1. /\ Steady(a, c)
        /\ c.dheight_low_row = IF code = 13 /\ CanDoubleHeight(a) THEN a.row + 1
                               ELSE a.dheight_low_row
    BY <1>3, <1>4, SetAfterSteady
  <2>2. SamePlace(a, c) /\ c.cells = a.cells /\ c \in DecoderStates
    BY <1>3, <1>4, SetAfterPlace, AfterKeepsCells, SetAfterType
  <2> QED
    BY <1>4, <2>1, <2>2
<1> HIDE DEF c
<1>6. /\ e.cells = c.cells /\ e.frame_buffer = c.frame_buffer /\ e.bold_mode = c.bold_mode
      /\ e.dheight_low_row = c.dheight_low_row
      /\ c.col + 1 # MAX_COLS => e.flags = c.flags
      /\ c.col + 1 = MAX_COLS => e.flags = DefaultFlags(Space, c.flags.is_cursor_on)
  BY <1>5, AdvanceFlags, AdvanceKeepsCells
<1> HIDE DEF e
<1>7. DefaultFlags(Space, c.flags.is_cursor_on).is_escaped = FALSE
  BY DEF DefaultFlags
<1>8. DisplayCode(d, code) = e
  BY DEF DisplayCode, e, c, b, a
<1> QED
  BY <1>2, <1>5, <1>6, <1>7, <1>8 DEF Steady, SamePlace

-----------------------------------------------------------------------------
(* The cells that a frame asks for, when a byte is added to it.            *)

\* The cell of a position by the kind of its row.
LEMMA CellIs ==
    ASSUME NEW frame, NEW r \in Rows, NEW p
    PROVE  LET s == CodesOf(frame, r)
               above == CodesOf(frame, r - 1)
           IN  /\ LowerByCode(frame)[r] =>
                      CellByCode(frame, r, p) = IF p \in DOMAIN above /\ IsTall(above, p)
                                            THEN LowerCell(above, p) ELSE BlankCell
               /\ ~LowerByCode(frame)[r] =>
                      CellByCode(frame, r, p) = IF p \in DOMAIN s
                                            THEN UpperCell(s, p, r < MAX_ROWS - 2)
                                            ELSE BlankCell
<1> DEFINE lower == LowerByCode(frame)
           s == CodesOf(frame, r)
           above == CodesOf(frame, r - 1)
<1>1. CellByCode(frame, r, p) =
          IF lower[r]
          THEN IF p \in DOMAIN above /\ ((r - 1) < MAX_ROWS - 2 /\ ~lower[r - 1] /\ IsTall(above, p))
               THEN [character |-> CharByCode(above, p).lower, attr |-> AttrAt(above, p)]
               ELSE BlankCell
          ELSE IF p \in DOMAIN s
               THEN [character |-> IF r < MAX_ROWS - 2 /\ ~lower[r] /\ IsTall(s, p)
                                   THEN CharByCode(s, p).upper ELSE CharByCode(s, p).single,
                     attr |-> AttrAt(s, p)]
               ELSE BlankCell
  BY Zenon DEF CellByCode
<1>2. lower[r] => r - 1 < MAX_ROWS - 2 /\ ~lower[r - 1]
  <2>1. r \in -1 .. MAX_ROWS - 1
    BY DecoderAssumption DEF Rows
  <2>2. lower[r] = (r > 0 /\ Tall(frame, r - 1) /\ r - 1 < MAX_ROWS - 2 /\ ~lower[r - 1])
    BY <2>1, LowerIs, Zenon
  <2> QED
    BY <2>2, Zenon
<1> HIDE DEF lower, s, above
<1>3. lower[r] => CellByCode(frame, r, p) = IF p \in DOMAIN above /\ IsTall(above, p)
                                        THEN LowerCell(above, p) ELSE BlankCell
  BY <1>1, <1>2, Zenon DEF LowerCell
<1>4. ~lower[r] => CellByCode(frame, r, p) = IF p \in DOMAIN s
                                         THEN UpperCell(s, p, r < MAX_ROWS - 2)
                                         ELSE BlankCell
  BY <1>1, Zenon DEF UpperCell
<1> QED
  BY <1>3, <1>4 DEF lower, s, above

\* A code at or after a position does not matter for what is shown before it.
LEMMA CellSerial ==
    ASSUME NEW s, NEW t, NEW q \in Nat, \A i \in 1 .. q : t[i] = s[i], NEW p \in 1 .. q
    PROVE  /\ \A tall : UpperCell(s, p, tall) = UpperCell(t, p, tall)
           /\ LowerCell(s, p) = LowerCell(t, p)
           /\ IsTall(s, p) = IsTall(t, p)
<1>1. Agree(s, t, q)
  BY DEF Agree
<1>2. CharByCode(s, p) = CharByCode(t, p) /\ AttrAt(s, p) = AttrAt(t, p) /\ IsTall(s, p) = IsTall(t, p)
  BY <1>1, CellsSerial
<1> QED
  BY <1>2 DEF UpperCell, LowerCell

\* A position of double height comes after the code for it.
LEMMA TallAfter ==
    ASSUME NEW s, NEW p, IsTall(s, p)
    PROVE  \E i \in 1 .. p - 1 : s[i] = 13
BY DEF IsTall, Between

\* What a byte changes of the cells that the frame asks for: that of its own
\* position and, if this is of double height, the one below.
CellsFor(frame, frame2, row, k) ==
    LET t == CodesOf(frame2, row)
        tall == row < MAX_ROWS - 2
        drawn == ~LowerByCode(frame)[row]
    IN  \A r \in Rows, p \in 1 .. MAX_COLS :
            /\ r = row /\ p = k /\ drawn => CellByCode(frame2, r, p) = UpperCell(t, k, tall)
            /\ r = row + 1 /\ p = k /\ drawn /\ tall /\ IsTall(t, k) =>
                   CellByCode(frame2, r, p) = LowerCell(t, k)
            /\ ~(r = row /\ p = k /\ drawn)
               /\ ~(r = row + 1 /\ p = k /\ drawn /\ tall /\ IsTall(t, k)) =>
                   CellByCode(frame2, r, p) = CellByCode(frame, r, p)

\* This is so for every frame and byte.
LEMMA CellsStep ==
    ASSUME NEW frame \in Seq(Bytes), NEW row \in Rows, NEW col \in Cols,
           Len(frame) = row * MAX_COLS + col, NEW b \in Bytes
    PROVE  /\ CellsFor(frame, Append(frame, b), row, col + 1)
           /\ \A r \in Rows : r <= row => LowerByCode(Append(frame, b))[r] = LowerByCode(frame)[r]
<1> DEFINE frame2 == Append(frame, b)
           s == CodesOf(frame, row)
           t == CodesOf(frame2, row)
           k == col + 1
           tall == row < MAX_ROWS - 2
           drawn == ~LowerByCode(frame)[row]
<1>0. /\ row \in Nat /\ col \in Nat /\ MAX_ROWS \in Nat \ {0} /\ MAX_COLS \in Nat \ {0}
      /\ row < MAX_ROWS /\ col < MAX_COLS
  BY DecoderAssumption DEF Rows, Cols
<1>1. /\ \A r \in Nat : r # row => CodesOf(frame2, r) = CodesOf(frame, r)
      /\ \A r \in Nat : r > row => DOMAIN CodesOf(frame2, r) = {}
      /\ DOMAIN s = 1 .. col /\ DOMAIN t = 1 .. k
      /\ \A i \in 1 .. col : t[i] = s[i]
  <2>1. /\ \A r \in Nat : r # row => CodesOf(frame2, r) = CodesOf(frame, r)
        /\ \A r \in Nat : r > row => DOMAIN CodesOf(frame2, r) = {}
    BY <1>0, CodesAppend
  <2>2. /\ DOMAIN s = 1 .. col /\ DOMAIN t = 1 .. k
        /\ \A i \in 1 .. col : t[i] = s[i]
    BY <1>0, CodesAppend
  <2> QED
    BY <2>1, <2>2
<1> HIDE DEF frame2
<1>2. \A r \in Rows : r <= row => LowerByCode(frame2)[r] = LowerByCode(frame)[r]
  <2>1. \A r \in Rows : r < row => CodesOf(frame2, r) = CodesOf(frame, r)
    BY <1>0, <1>1 DEF Rows
  <2> QED
    BY <2>1, LowerSerial
<1>3. ASSUME NEW r \in Rows, r > row + 1
      PROVE  LowerByCode(frame)[r] = FALSE /\ LowerByCode(frame2)[r] = FALSE
  <2>1. r - 1 \in Rows /\ r - 1 > row /\ (r - 1) + 1 = r /\ r - 1 \in Nat
    BY <1>0, <1>3 DEF Rows
  <2>2. DOMAIN CodesOf(frame2, r - 1) = {} /\ DOMAIN CodesOf(frame, r - 1) = {}
    BY <1>0, <1>1, <2>1
  <2>3. ~Tall(frame2, r - 1) /\ ~Tall(frame, r - 1)
    BY <2>2 DEF Tall
  <2> QED
    BY <1>3, <2>1, <2>3, LowerStep
<1>4. ASSUME NEW p \in 1 .. col
      PROVE  /\ \A h : UpperCell(s, p, h) = UpperCell(t, p, h)
             /\ LowerCell(s, p) = LowerCell(t, p) /\ IsTall(s, p) = IsTall(t, p)
  <2>1. \A i \in 1 .. col : t[i] = s[i]
    BY <1>1
  <2> HIDE DEF s, t
  <2> QED
    BY <1>0, <2>1, CellSerial
<1> DEFINE Now(r, p) == CellByCode(frame2, r, p)
           Then(r, p) == CellByCode(frame, r, p)
<1>5. ASSUME NEW r \in Rows, NEW p \in 1 .. MAX_COLS, r < row
      PROVE  Now(r, p) = Then(r, p)
  <2>1. r \in Nat /\ r # row /\ r <= row
    BY <1>0, <1>5 DEF Rows
  <2>2. CodesOf(frame2, r) = CodesOf(frame, r) /\ LowerByCode(frame2)[r] = LowerByCode(frame)[r]
    BY <1>1, <1>2, <2>1
  <2>3. LowerByCode(frame)[r] => CodesOf(frame2, r - 1) = CodesOf(frame, r - 1)
    <3>1. CASE r = 0
      BY <3>1, LowerStep
    <3>2. CASE r # 0
      <4>1. r - 1 \in Nat /\ r - 1 # row
        BY <1>0, <1>5, <2>1, <3>2
      <4> QED
        BY <1>1, <4>1
    <3> QED
      BY <3>1, <3>2
  <2>4. CASE LowerByCode(frame)[r]
    <3> DEFINE above == CodesOf(frame, r - 1)
               cell == IF p \in DOMAIN above /\ IsTall(above, p)
                       THEN LowerCell(above, p) ELSE BlankCell
    <3>1. CodesOf(frame2, r - 1) = above /\ LowerByCode(frame2)[r]
      BY <2>2, <2>3, <2>4
    <3>2. CellByCode(frame2, r, p) = cell
      BY <3>1, CellIs
    <3>3. CellByCode(frame, r, p) = cell
      BY <2>4, CellIs
    <3> QED
      BY <3>2, <3>3
  <2>5. CASE ~LowerByCode(frame)[r]
    BY <2>2, <2>5, CellIs
  <2> QED
    BY <2>4, <2>5
<1>6. ASSUME NEW p \in 1 .. MAX_COLS, ~drawn
      PROVE  Now(row, p) = Then(row, p)
  <2>1. LowerByCode(frame)[row] /\ LowerByCode(frame2)[row]
    BY <1>0, <1>2, <1>6
  <2>2. row # 0
    BY <2>1, LowerStep
  <2>3. row - 1 \in Nat /\ row - 1 # row
    BY <1>0, <2>2
  <2>4. CodesOf(frame2, row - 1) = CodesOf(frame, row - 1)
    BY <1>1, <2>3
  <2> QED
    BY <2>1, <2>4, CellIs
<1>7. ASSUME NEW p \in 1 .. MAX_COLS, drawn
      PROVE  /\ p = k => Now(row, p) = UpperCell(t, k, tall)
             /\ p # k => Now(row, p) = Then(row, p)
  <2>1. ~LowerByCode(frame)[row] /\ ~LowerByCode(frame2)[row]
    BY <1>0, <1>2, <1>7
  <2>2. /\ Now(row, p) = IF p \in DOMAIN t THEN UpperCell(t, p, tall) ELSE BlankCell
        /\ Then(row, p) = IF p \in DOMAIN s THEN UpperCell(s, p, tall) ELSE BlankCell
    BY <2>1, CellIs, Zenon
  <2> HIDE DEF Now, Then, s, t, tall
  <2>3. CASE p = k
    BY <1>0, <1>1, <2>2, <2>3
  <2>4. CASE p \in 1 .. col
    BY <1>0, <1>1, <1>4, <2>2, <2>4
  <2>5. CASE p # k /\ p \notin 1 .. col
    <3>1. p \notin DOMAIN t /\ p \notin DOMAIN s
      BY <1>0, <1>1, <2>5
    <3> QED
      BY <2>2, <2>5, <3>1
  <2>6. p \in 1 .. col => p # k
    BY <1>0
  <2> QED
    BY <2>3, <2>4, <2>5, <2>6
<1>8. ASSUME NEW r \in Rows, NEW p \in 1 .. MAX_COLS, r > row + 1
      PROVE  Now(r, p) = Then(r, p)
  <2>1. LowerByCode(frame)[r] = FALSE /\ LowerByCode(frame2)[r] = FALSE
    BY <1>3, <1>8
  <2>2. r \in Nat /\ r # row
    BY <1>0, <1>8 DEF Rows
  <2>3. CodesOf(frame2, r) = CodesOf(frame, r)
    BY <1>1, <2>2
  <2> QED
    BY <2>1, <2>3, CellIs
<1>9. ASSUME NEW r \in Rows, NEW p \in 1 .. MAX_COLS, r = row + 1
      PROVE  /\ p = k /\ drawn /\ tall /\ IsTall(t, k) => Now(r, p) = LowerCell(t, k)
             /\ ~(p = k /\ drawn /\ tall /\ IsTall(t, k)) => Now(r, p) = Then(r, p)
  <2>1. /\ LowerByCode(frame)[r] <=> Tall(frame, row) /\ tall /\ drawn
        /\ LowerByCode(frame2)[r] <=> Tall(frame2, row) /\ tall /\ drawn
    <3>1. LowerByCode(frame2)[row] = LowerByCode(frame)[row]
      BY <1>0, <1>2
    <3> QED
      BY <1>9, <3>1, LowerStep
  <2>2. r \in Nat /\ r # row /\ r - 1 = row
    BY <1>0, <1>9
  <2>3. /\ CodesOf(frame2, r) = CodesOf(frame, r)
        /\ DOMAIN CodesOf(frame2, r) = {}
    BY <1>0, <1>1, <1>9, <2>2
  <2>4. /\ CodesOf(frame2, r - 1) = t /\ CodesOf(frame, r - 1) = s
    BY <2>2
  <2> HIDE DEF s, t
  <2>5. /\ Now(r, p) = IF LowerByCode(frame2)[r] /\ p \in DOMAIN t /\ IsTall(t, p)
                       THEN LowerCell(t, p) ELSE BlankCell
        /\ Then(r, p) = IF LowerByCode(frame)[r] /\ p \in DOMAIN s /\ IsTall(s, p)
                        THEN LowerCell(s, p) ELSE BlankCell
    <3> HIDE DEF drawn, tall
    <3>1. /\ LowerByCode(frame2)[r] => Now(r, p) = IF p \in DOMAIN t /\ IsTall(t, p)
                                               THEN LowerCell(t, p) ELSE BlankCell
          /\ ~LowerByCode(frame2)[r] => Now(r, p) = BlankCell
      BY <2>3, <2>4, CellIs
    <3>2. /\ LowerByCode(frame)[r] => Then(r, p) = IF p \in DOMAIN s /\ IsTall(s, p)
                                               THEN LowerCell(s, p) ELSE BlankCell
          /\ ~LowerByCode(frame)[r] => Then(r, p) = BlankCell
      BY <2>3, <2>4, CellIs
    <3> QED
      BY <3>1, <3>2
  <2>6. /\ p \in DOMAIN s /\ IsTall(s, p) => Tall(frame, row)
        /\ p \in DOMAIN t /\ IsTall(t, p) => Tall(frame2, row)
    <3>1. \A i : i \in 1 .. p - 1 /\ p \in DOMAIN s => i \in DOMAIN s
      BY <1>0, <1>1
    <3>2. \A i : i \in 1 .. p - 1 /\ p \in DOMAIN t => i \in DOMAIN t
      BY <1>0, <1>1
    <3> QED
      BY <3>1, <3>2, TallAfter DEF Tall, s, t
  <2>7. /\ Now(r, p) = IF tall /\ drawn /\ p \in DOMAIN t /\ IsTall(t, p)
                       THEN LowerCell(t, p) ELSE BlankCell
        /\ Then(r, p) = IF tall /\ drawn /\ p \in DOMAIN s /\ IsTall(s, p)
                        THEN LowerCell(s, p) ELSE BlankCell
    <3> HIDE DEF Now, Then, tall, drawn
    <3> QED
      BY <2>1, <2>5, <2>6
  <2> HIDE DEF Now, Then, tall, drawn
  <2>8. CASE p = k
    <3>1. p \in DOMAIN t /\ p \notin DOMAIN s
      BY <1>0, <1>1, <2>8
    <3> QED
      BY <2>7, <2>8, <3>1
  <2>9. CASE p \in 1 .. col
    <3>1. p \in DOMAIN t /\ p \in DOMAIN s /\ p # k
      BY <1>0, <1>1, <2>9
    <3> QED
      BY <1>4, <2>7, <2>9, <3>1
  <2>10. CASE p # k /\ p \notin 1 .. col
    <3>1. p \notin DOMAIN t /\ p \notin DOMAIN s
      BY <1>0, <1>1, <2>10
    <3> QED
      BY <2>7, <2>10, <3>1
  <2> QED
    BY <2>8, <2>9, <2>10
<1>10. \A r \in Rows : r < row \/ r = row \/ r = row + 1 \/ r > row + 1
  BY <1>0 DEF Rows
<1>11. \A r \in Rows : r = row + 1 => r # row
  BY <1>0
<1> HIDE DEF Now, Then, s, t, tall, drawn
<1>12. ASSUME NEW r \in Rows, NEW p \in 1 .. MAX_COLS
       PROVE  /\ r = row /\ p = k /\ drawn => Now(r, p) = UpperCell(t, k, tall)
              /\ r = row + 1 /\ p = k /\ drawn /\ tall /\ IsTall(t, k) =>
                     Now(r, p) = LowerCell(t, k)
              /\ ~(r = row /\ p = k /\ drawn)
                 /\ ~(r = row + 1 /\ p = k /\ drawn /\ tall /\ IsTall(t, k)) =>
                     Now(r, p) = Then(r, p)
  <2> HIDE DEF k
  <2>1. CASE r < row
    <3>1. r # row /\ r # row + 1
      BY <1>0, <2>1 DEF Rows
    <3> QED
      BY <1>5, <2>1, <3>1
  <2>2. CASE r = row
    BY <1>6, <1>7, <1>11, <2>2
  <2>3. CASE r = row + 1
    BY <1>9, <1>11, <2>3
  <2>4. CASE r > row + 1
    <3>1. r # row /\ r # row + 1
      BY <1>0, <2>4 DEF Rows
    <3> QED
      BY <1>8, <2>4, <3>1
  <2> QED
    BY <1>10, <2>1, <2>2, <2>3, <2>4
<1>13. CellsFor(frame, frame2, row, k)
  BY <1>12, Zenon DEF CellsFor, Now, Then, t, tall, drawn
<1> QED
  BY <1>2, <1>13 DEF frame2

-----------------------------------------------------------------------------
(* The inductive invariant.                                                *)

\* dheight_low_row tells whether the row is a lower one, or has one below it.
LowState(frame, row, low) ==
    /\ low <= row + 1
    /\ low = row <=> LowerByCode(frame)[row]
    /\ low = row + 1 <=> Tall(frame, row) /\ row < MAX_ROWS - 2 /\ ~LowerByCode(frame)[row]

\* The cells drawn so far are those that the frame asks for.
Painted(d) ==
    \A r \in Rows, p \in 1 .. MAX_COLS :
        d.cells[<<r, p - 1>>] = CellByCode(d.frame_buffer, r, p)

\* While the frame is not full the cursor is at its end, and the flags are what
\* the codes of the row so far make of them.
RowState(d) ==
    /\ Len(d.frame_buffer) = d.row * MAX_COLS + d.col
    /\ LowState(d.frame_buffer, d.row, d.dheight_low_row)
    /\ ~LowerByCode(d.frame_buffer)[d.row] =>
           FlagsAt(d.flags, CodesOf(d.frame_buffer, d.row), d.col, d.row < MAX_ROWS - 2)

RowInv(d) ==
    /\ Sound(d)
    /\ d.bold_mode = FALSE /\ d.flags.is_escaped = FALSE
    /\ Len(d.frame_buffer) <= MAX_ROWS * MAX_COLS
    /\ Len(d.frame_buffer) < MAX_ROWS * MAX_COLS => RowState(d)
    /\ Painted(d)

\* What is held, and with it all flags, depends on the codes so far.
LEMMA FlagsSerial ==
    ASSUME NEW f, NEW s, NEW t, NEW q \in Nat, \A i \in 1 .. q : t[i] = s[i], NEW tall,
           FlagsAt(f, s, q, tall)
    PROVE  FlagsAt(f, t, q, tall)
<1>1. Agree(s, t, q)
  BY DEF Agree
<1>2. /\ \A i \in 1 .. q + 1 : IsAlpha(s, i) = IsAlpha(t, i)
      /\ Background(s, q) = Background(t, q)
  BY <1>1, ColorsSerial
<1>3. \A codes : /\ LastIn(s, q, codes) = LastIn(t, q, codes)
                 /\ LastIn(s, q, codes) \in 0 .. q
  BY <1>1, LastInSerial, LastInIs
<1>4. \A c, resets : Between(s, q, c, q, resets) = Between(t, q, c, q, resets)
  <2>1. ASSUME NEW c, NEW resets
        PROVE  Between(s, q, c, q, resets) = Between(t, q, c, q, resets)
    <3>1. Between(s, q, c, q, resets) <=> Between(t, q, c, q, resets)
      BY <1>1, BetweenSerial
    <3> QED
      BY <3>1, Conditions
  <2> QED
    BY <2>1
<1>5. \A i \in 1 .. q : s[i] = t[i]
  OBVIOUS
<1>6. \A codes : ColorAfter(s, q, codes) = ColorAfter(t, q, codes)
  <2> TAKE codes
  <2> DEFINE i == LastIn(s, q, codes)
  <2>1. i = LastIn(t, q, codes) /\ i \in 0 .. q
    BY <1>3
  <2>2. ColorAfter(s, q, codes) = IF i = 0 THEN WHITE ELSE s[i] % 16
    BY DEF ColorAfter
  <2>3. ColorAfter(t, q, codes) = IF i = 0 THEN WHITE ELSE t[i] % 16
    BY <2>1, Zenon DEF ColorAfter
  <2> HIDE DEF i
  <2> QED
    BY <1>5, <2>1, <2>2, <2>3
<1>7. IsContiguous(s, q) = IsContiguous(t, q)
  <2> DEFINE i == LastIn(s, q, {25, 26})
  <2>1. i = LastIn(t, q, {25, 26}) /\ i \in 0 .. q
    BY <1>3
  <2>2. IsContiguous(s, q) = (i = 0 \/ s[i] = 25)
    BY DEF IsContiguous
  <2>3. IsContiguous(t, q) = (i = 0 \/ t[i] = 25)
    BY <2>1, Zenon DEF IsContiguous
  <2> HIDE DEF i
  <2>4. CASE i = 0
    BY <2>2, <2>3, <2>4
  <2>5. CASE i # 0
    BY <1>5, <2>1, <2>2, <2>3, <2>5
  <2> QED
    BY <2>4, <2>5
<1>8. \A i \in 1 .. q : CharAt(s, i) = CharAt(t, i)
  <2> TAKE i \in 1 .. q
  <2>1. IsAlpha(s, i) = IsAlpha(t, i) /\ s[i] = t[i]
    BY <1>2, <1>5
  <2>2. IsContiguous(s, i) = IsContiguous(t, i)
    <3>1. LastIn(s, i, {25, 26}) = LastIn(t, i, {25, 26})
      BY <1>1, LastInSerial
    <3>2. LastIn(s, i, {25, 26}) \in 0 .. i
      BY LastInIs
    <3> DEFINE j == LastIn(s, i, {25, 26})
    <3>3. IsContiguous(s, i) = (j = 0 \/ s[j] = 25)
      BY DEF IsContiguous
    <3>4. IsContiguous(t, i) = (j = 0 \/ t[j] = 25)
      BY <3>1, Zenon DEF IsContiguous
    <3>5. j \in 0 .. i
      BY <3>2
    <3> HIDE DEF j
    <3>6. CASE j = 0
      BY <3>3, <3>4, <3>6
    <3>7. CASE j # 0
      <4>1. s[j] = t[j]
        BY <1>5, <3>5, <3>7
      <4> QED
        BY <3>3, <3>4, <4>1
    <3> QED
      BY <3>6, <3>7
  <2> QED
    BY <2>1, <2>2 DEF CharAt
<1>9. HeldAfter(s, q) = HeldAfter(t, q)
  <2> DEFINE m == LastMosaic(s, q)
             ChangeIn(x) == \E i \in m + 1 .. q : IsAlpha(x, i) # IsAlpha(x, i + 1)
  <2>1. LastMosaic(s, q) = LastMosaic(t, q)
    <3>1. {i \in 1 .. q : s[i] >= 32 /\ ~IsAlpha(s, i)}
              = {i \in 1 .. q : t[i] >= 32 /\ ~IsAlpha(t, i)}
      BY <1>2, <1>5
    <3> QED
      BY <3>1, Zenon DEF LastMosaic
  <2>2. m \in 0 .. q
    BY LastMosaicIs
  <2>3. HeldAfter(s, q) = IF m = 0 \/ LastIn(s, q, {12}) > m \/ ChangeIn(s)
                          THEN Space ELSE CharAt(s, m)
    BY Zenon DEF HeldAfter
  <2>4. HeldAfter(t, q) = IF m = 0 \/ LastIn(t, q, {12}) > m \/ ChangeIn(t)
                          THEN Space ELSE CharAt(t, m)
    BY <2>1, Zenon DEF HeldAfter
  <2> HIDE DEF m
  <2>5. ChangeIn(s) <=> ChangeIn(t)
    <3>1. \A i \in m + 1 .. q : i \in 1 .. q + 1 /\ i + 1 \in 1 .. q + 1
      BY <2>2
    <3> QED
      BY <1>2, <3>1
  <2> HIDE DEF ChangeIn
  <2>6. m # 0 => CharAt(s, m) = CharAt(t, m)
    BY <1>8, <2>2
  <2> QED
    BY <1>3, <2>3, <2>4, <2>5, <2>6
<1>10. q + 1 \in 1 .. q + 1
  OBVIOUS
<1>11. IsAlpha(s, q + 1) = IsAlpha(t, q + 1)
  BY <1>2, <1>10
<1> QED
  <2>1. /\ f.is_alpha = IsAlpha(t, q + 1)
        /\ f.alpha_fg_color = ColorAfter(t, q, AlphaColors)
        /\ f.mosaic_fg_color = ColorAfter(t, q, MosaicColors)
        /\ f.bg_color = Background(t, q)
        /\ f.is_contiguous = IsContiguous(t, q)
        /\ f.held_mosaic = HeldAfter(t, q)
    BY <1>2, <1>6, <1>7, <1>9, <1>11 DEF FlagsAt
  <2>2. /\ f.is_flashing = Between(t, q, 8, q, {9})
        /\ f.is_concealed = Between(t, q, 24, q, AllColors)
        /\ f.is_mosaic_held = Between(t, q, 30, q, {31})
        /\ f.is_double_height = (tall /\ Between(t, q, 13, q, {12}))
    BY <1>4 DEF FlagsAt
  <2> QED
    BY <2>1, <2>2, Zenon DEF FlagsAt

\* A byte keeps LowState, for its own row and for the next one.
LEMMA LowStep ==
    ASSUME NEW frame \in Seq(Bytes), NEW row \in Rows, NEW col \in Cols,
           Len(frame) = row * MAX_COLS + col, NEW b \in Bytes,
           NEW low \in Int, LowState(frame, row, low), NEW low2,
           low2 = IF ~LowerByCode(frame)[row] /\ b % 128 = 13 /\ row < MAX_ROWS - 2
                  THEN row + 1 ELSE low
    PROVE  /\ LowState(Append(frame, b), row, low2)
           /\ row + 1 \in Rows => LowState(Append(frame, b), row + 1, low2)
<1> DEFINE frame2 == Append(frame, b)
           s == CodesOf(frame, row)
           t == CodesOf(frame2, row)
<1>0. row \in Nat /\ col \in Nat
  BY DecoderAssumption DEF Rows, Cols
<1>1. /\ DOMAIN CodesOf(frame2, row + 1) = {}
      /\ DOMAIN s = 1 .. col /\ DOMAIN t = 1 .. col + 1
      /\ \A i \in 1 .. col : t[i] = s[i]
      /\ t[col + 1] = b % 128
  <2>1. \A r \in Nat : r > row => DOMAIN CodesOf(frame2, r) = {}
    BY <1>0, CodesAppend
  <2>2. DOMAIN CodesOf(frame2, row + 1) = {}
    BY <1>0, <2>1
  <2>3. /\ DOMAIN s = 1 .. col /\ DOMAIN t = 1 .. col + 1
        /\ \A i \in 1 .. col : t[i] = s[i]
        /\ t[col + 1] = b % 128
    BY <1>0, CodesAppend
  <2> QED
    BY <2>2, <2>3
<1>2. LowerByCode(frame2)[row] = LowerByCode(frame)[row]
  BY <1>0, CellsStep
<1>3. Tall(frame2, row) <=> Tall(frame, row) \/ b % 128 = 13
  <2> HIDE DEF s, t
  <2>1. (\E i \in DOMAIN t : t[i] = 13) <=> (\E i \in DOMAIN s : s[i] = 13) \/ b % 128 = 13
    <3>1. \A i \in 1 .. col + 1 : i \in 1 .. col \/ i = col + 1
      BY <1>0
    <3>2. \A i \in 1 .. col : i \in 1 .. col + 1
      BY <1>0
    <3>3. col + 1 \in 1 .. col + 1
      BY <1>0
    <3> QED
      BY <1>1, <3>1, <3>2, <3>3
  <2> QED
    BY <2>1 DEF Tall, s, t
<1>4. ~Tall(frame2, row + 1)
  BY <1>1 DEF Tall
<1>5. row + 1 \in Rows => (LowerByCode(frame2)[row + 1] <=>
                               Tall(frame2, row) /\ row < MAX_ROWS - 2 /\ ~LowerByCode(frame2)[row])
  BY LowerStep
<1> HIDE DEF frame2, s, t
<1>6. /\ low <= row + 1
      /\ low = row <=> LowerByCode(frame)[row]
      /\ low = row + 1 <=> Tall(frame, row) /\ row < MAX_ROWS - 2 /\ ~LowerByCode(frame)[row]
  BY DEF LowState
<1>7. /\ low2 <= row + 1 /\ low2 \in Int
      /\ low2 = row <=> LowerByCode(frame2)[row]
      /\ low2 = row + 1 <=> Tall(frame2, row) /\ row < MAX_ROWS - 2 /\ ~LowerByCode(frame2)[row]
  BY <1>0, <1>2, <1>3, <1>6
<1>8. LowState(frame2, row, low2)
  BY <1>7 DEF LowState
<1>9. ASSUME row + 1 \in Rows PROVE LowState(frame2, row + 1, low2)
  <2>1. low2 <= (row + 1) + 1 /\ low2 # (row + 1) + 1
    BY <1>0, <1>7
  <2>2. low2 = row + 1 <=> LowerByCode(frame2)[row + 1]
    BY <1>5, <1>7, <1>9
  <2> QED
    BY <1>4, <2>1, <2>2 DEF LowState
<1> QED
  BY <1>8, <1>9 DEF frame2

\* A byte that displays a code, given to a decoder that is not escaped.
LEMMA DisplayedByte ==
    ASSUME NEW d \in DecoderStates, d.flags.is_escaped = FALSE, NEW b \in Displayed
    PROVE  /\ DecodeByte(d, b) = DisplayCode(d, b % 128)
           /\ b \in Bytes /\ b % 128 \in 0 .. 127
<1>1. b \in Bytes /\ b \in 0 .. 255 /\ b % 128 # ESCAPE
  BY DecoderAssumption DEF Displayed
<1>2. CodeOf(d, b) = b % 128
  <2>1. 16 * ((b \div 16) % 8) + (b % 16) = b % 128
    BY SMT, <1>1
  <2> QED
    BY <2>1 DEF CodeOf
<1>3. [d EXCEPT !.flags.is_escaped = FALSE] = d
  <2> DEFINE f == d.flags
  <2>1. f \in Flags
    BY SMT DEF DecoderStates
  <2> HIDE DEF f
  <2>2. f.is_escaped = FALSE => [f EXCEPT !.is_escaped = FALSE] = f
    BY SMT, <2>1 DEF Flags
  <2>3. [d EXCEPT !.flags = d.flags] = d
    BY SMT DEF DecoderStates
  <2> QED
    BY <2>2, <2>3 DEF f
<1>4. Display7Bit(d, b) = DisplayCode(d, b % 128)
  BY <1>1, <1>2, <1>3, Zenon DEF Display7Bit
<1>5. DecodeByte(d, b) = Display7Bit(d, b)
  <2>1. b # 0 /\ b # 8 /\ b # 9 /\ b # 10 /\ b # 11 /\ b # 12 /\ b # 13 /\ b # 17
        /\ b # 20 /\ b # 30
    BY DEF Displayed
  <2> QED
    BY <2>1, Zenon DEF DecodeByte
<1>6. b % 128 \in 0 .. 127
  BY SMT, <1>1
<1> QED
  BY <1>1, <1>4, <1>5, <1>6

\* What is drawn is what a byte changes of the cells asked for.
LEMMA PaintedStep ==
    ASSUME NEW d \in DecoderStates, NEW e, NEW frame, NEW frame2,
           frame = d.frame_buffer, frame2 = e.frame_buffer, Painted(d),
           CellsFor(frame, frame2, d.row, d.col + 1),
           \/ LowerByCode(frame)[d.row] /\ e.cells = d.cells
           \/ /\ ~LowerByCode(frame)[d.row]
              /\ Drawn(d, e, CodesOf(frame2, d.row), d.col + 1, d.row < MAX_ROWS - 2)
              /\ d.row < MAX_ROWS - 2 /\ IsTall(CodesOf(frame2, d.row), d.col + 1) =>
                     d.dheight_low_row = d.row + 1
    PROVE  Painted(e)
<1> DEFINE t == CodesOf(frame2, d.row)
           k == d.col + 1
           tall == d.row < MAX_ROWS - 2
           drawn == ~LowerByCode(frame)[d.row]
<1>0. d.row \in Nat /\ d.col \in Nat
  BY Neighbours, DecoderAssumption DEF Rows, Cols
<1>1. ASSUME NEW r \in Rows, NEW p \in 1 .. MAX_COLS
      PROVE  /\ r = d.row /\ p = k /\ drawn => CellByCode(frame2, r, p) = UpperCell(t, k, tall)
             /\ r = d.row + 1 /\ p = k /\ drawn /\ tall /\ IsTall(t, k) =>
                    CellByCode(frame2, r, p) = LowerCell(t, k)
             /\ ~(r = d.row /\ p = k /\ drawn)
                /\ ~(r = d.row + 1 /\ p = k /\ drawn /\ tall /\ IsTall(t, k)) =>
                    CellByCode(frame2, r, p) = CellByCode(frame, r, p)
  BY Zenon DEF CellsFor
<1>2. ASSUME NEW r \in Rows, NEW p \in 1 .. MAX_COLS
      PROVE  e.cells[<<r, p - 1>>] = CellByCode(frame2, r, p)
  <2> DEFINE q == <<r, p - 1>>
  <2>1. d.cells[q] = CellByCode(frame, r, p)
    BY DEF Painted
  <2>2. q \in Screen /\ (r = d.row /\ p = k <=> q = <<d.row, d.col>>)
        /\ (r = d.row + 1 /\ p = k <=> q = <<d.row + 1, d.col>>)
    BY <1>0, DecoderAssumption DEF Screen, Cols
  <2> HIDE DEF q, t, k, tall
  <2>3. CASE ~drawn
    <3>1. e.cells = d.cells
      BY <2>3
    <3>2. CellByCode(frame2, r, p) = CellByCode(frame, r, p)
      BY <1>1, <2>3
    <3> QED
      BY <2>1, <3>1, <3>2 DEF q
  <2>4. CASE drawn
    <3> HIDE DEF drawn
    <3>0. /\ Drawn(d, e, t, k, tall)
          /\ tall /\ IsTall(t, k) => d.dheight_low_row = d.row + 1
      BY <2>4 DEF drawn, t, k, tall
    <3>1. /\ e.cells[<<d.row, d.col>>] = UpperCell(t, k, tall)
          /\ tall /\ IsTall(t, k) => e.cells[<<d.dheight_low_row, d.col>>] = LowerCell(t, k)
          /\ \A x \in Screen : x # <<d.row, d.col>>
                         /\ ~((tall /\ IsTall(t, k)) /\ x = <<d.dheight_low_row, d.col>>) =>
                e.cells[x] = d.cells[x]
      BY <3>0, Zenon DEF Drawn
    <3>2. CASE r = d.row /\ p = k
      BY <1>1, <2>2, <2>4, <3>1, <3>2, Zenon DEF q
    <3>3. CASE r = d.row + 1 /\ p = k /\ tall /\ IsTall(t, k)
      <4>1. e.cells[q] = LowerCell(t, k)
        BY <2>2, <3>0, <3>1, <3>3
      <4>2. CellByCode(frame2, r, p) = LowerCell(t, k)
        BY <1>1, <2>4, <3>3
      <4> QED
        BY <4>1, <4>2 DEF q
    <3>4. CASE ~(r = d.row /\ p = k) /\ ~(r = d.row + 1 /\ p = k /\ tall /\ IsTall(t, k))
      <4>1. CellByCode(frame2, r, p) = CellByCode(frame, r, p)
        BY <1>1, <3>4
      <4>2. q # <<d.row, d.col>>
        BY <2>2, <3>4
      <4>3. ~(tall /\ IsTall(t, k) /\ q = <<d.dheight_low_row, d.col>>)
        BY <2>2, <3>0, <3>4
      <4>4. e.cells[q] = d.cells[q]
        BY <2>2, <3>1, <4>2, <4>3
      <4> QED
        BY <2>1, <4>1, <4>4 DEF q
    <3> QED
      BY <3>2, <3>3, <3>4
  <2> QED
    BY <2>3, <2>4
<1> QED
  BY <1>2 DEF Painted

\* The end of the frame stays where the cursor is until the screen is full.
LEMMA EndStep ==
    ASSUME NEW d \in DecoderStates, NEW e, NextPlace(d, e), NEW n,
           n = d.row * MAX_COLS + d.col, n + 1 < MAX_ROWS * MAX_COLS
    PROVE  /\ n + 1 = e.row * MAX_COLS + e.col
           /\ \/ d.col + 1 # MAX_COLS /\ e.row = d.row /\ e.col = d.col + 1
              \/ d.col + 1 = MAX_COLS /\ e.row = d.row + 1 /\ e.row \in Rows /\ e.col = 0
<1> DEFINE base == d.row * MAX_COLS
           size == MAX_ROWS * MAX_COLS
<1>1. /\ d.row \in 0 .. MAX_ROWS - 1 /\ d.col \in 0 .. MAX_COLS - 1
      /\ MAX_ROWS \in Nat \ {0} /\ MAX_COLS \in Nat \ {0}
  BY Neighbours, DecoderAssumption DEF Rows, Cols
<1>2. /\ base \in Nat /\ size \in Nat
      /\ d.row + 1 >= MAX_ROWS => base + MAX_COLS = size
      /\ (d.row + 1) * MAX_COLS = base + MAX_COLS
  BY <1>1, RowArithmetic
<1> HIDE DEF base, size
<1>3. n = base + d.col /\ n + 1 < size
  BY DEF base, size
<1>4. CASE d.col + 1 # MAX_COLS
  <2>1. e.row = d.row /\ e.col = d.col + 1
    BY <1>1, <1>4 DEF NextPlace
  <2>2. n + 1 = base + (d.col + 1)
    BY <1>1, <1>2, <1>3
  <2> QED
    BY <1>4, <2>1, <2>2 DEF base
<1>5. CASE d.col + 1 = MAX_COLS
  <2>1. d.row + 1 < MAX_ROWS
    BY <1>1, <1>2, <1>3, <1>5
  <2>2. e.col = 0 /\ e.row = d.row + 1
    BY <1>1, <1>5, <2>1 DEF NextPlace, RowBelow
  <2>3. e.row \in Rows
    BY <1>1, <2>1, <2>2 DEF Rows
  <2>4. n + 1 = (d.row + 1) * MAX_COLS + 0
    <3> DEFINE next == (d.row + 1) * MAX_COLS
    <3>1. next = base + MAX_COLS
      BY <1>2
    <3> HIDE DEF next
    <3>2. n + 1 = next + 0
      BY <1>1, <1>2, <1>3, <1>5, <3>1
    <3> QED
      BY <3>2 DEF next
  <2> QED
    BY <1>5, <2>2, <2>3, <2>4
<1> QED
  BY <1>4, <1>5

\* A displayed byte preserves the invariant.
LEMMA RowStep ==
    ASSUME NEW d, RowInv(d), Len(d.frame_buffer) < MAX_ROWS * MAX_COLS, NEW b \in Displayed
    PROVE  RowInv(Decode(d, b))
<1> DEFINE frame == d.frame_buffer
           frame2 == Append(frame, b)
           u == [d EXCEPT !.frame_buffer = frame2]
           e == DisplayCode(u, b % 128)
           row == d.row
           col == d.col
           s == CodesOf(frame, row)
           t == CodesOf(frame2, row)
           tall == row < MAX_ROWS - 2
<1>1. /\ Sound(d) /\ d \in DecoderStates /\ Painted(d) /\ RowState(d)
      /\ d.bold_mode = FALSE /\ d.flags.is_escaped = FALSE
  BY DEF RowInv, Sound
<1>2. /\ row \in Rows /\ col \in Cols /\ frame \in Seq(Bytes)
      /\ d.dheight_low_row \in Int /\ row \in Nat /\ col \in Nat
  <2>1. row \in Rows /\ col \in Cols
    BY <1>1, Neighbours
  <2>2. frame \in Seq(Bytes) /\ d.dheight_low_row \in -1 .. MAX_ROWS - 1
    BY SMT, <1>1 DEF DecoderStates
  <2> QED
    BY <2>1, <2>2, DecoderAssumption DEF Rows, Cols
<1>3. /\ Len(frame) = row * MAX_COLS + col
      /\ LowState(frame, row, d.dheight_low_row)
      /\ ~LowerByCode(frame)[row] => FlagsAt(d.flags, s, col, tall)
  BY <1>1 DEF RowState
<1>4. b \in Bytes /\ b % 128 \in 0 .. 127
  BY <1>1, DisplayedByte
<1>5. Buffer(d, b) = u /\ Sound(u)
  <2>1. Len(frame) < FRAME_BUFFER_MAX
    <3>1. MAX_ROWS * MAX_COLS \in Nat
      BY DecoderAssumption, SMT
    <3>2. Len(frame) \in Nat
      BY <1>2
    <3> DEFINE size == MAX_ROWS * MAX_COLS
    <3>3. size \in Nat /\ size <= FRAME_BUFFER_MAX /\ Len(frame) < size
      BY <3>1, FrameAssumption
    <3> HIDE DEF size, frame
    <3> QED
      BY <3>2, <3>3, DecoderAssumption
  <2>2. Buffer(d, b) = u
    BY <2>1 DEF Buffer
  <2> QED
    BY <1>1, <1>4, <2>2, BufferSound
<1>6. /\ u.row = row /\ u.col = col /\ u.flags = d.flags /\ u.cells = d.cells
      /\ u.dheight_low_row = d.dheight_low_row /\ u.bold_mode = FALSE
      /\ u.frame_buffer = frame2
  BY SMT, <1>1 DEF DecoderStates
<1> HIDE DEF u
<1>7. Decode(d, b) = e /\ u \in DecoderStates
  <2>1. u \in DecoderStates
    BY <1>5 DEF Sound
  <2> QED
    BY <1>1, <1>5, <1>6, <2>1, DisplayedByte DEF Decode
<1>8. Sound(e) /\ NextPlace(u, e)
  BY <1>4, <1>5, DisplayCodeSound, DisplayCodePlace
<1> HIDE DEF e
<1>9. /\ \A i \in 1 .. col : t[i] = s[i]
      /\ t[col + 1] = b % 128
      /\ DOMAIN t = 1 .. col + 1 /\ DOMAIN s = 1 .. col
  BY <1>2, <1>3, <1>4, CodesAppend
<1>10. /\ CellsFor(frame, frame2, row, col + 1)
       /\ LowerByCode(frame2)[row] = LowerByCode(frame)[row]
  <2>1. /\ CellsFor(frame, frame2, row, col + 1)
        /\ \A r \in Rows : r <= row => LowerByCode(frame2)[r] = LowerByCode(frame)[r]
    BY <1>2, <1>3, <1>4, CellsStep
  <2> QED
    BY <1>2, <2>1
<1>11. Len(frame2) = Len(frame) + 1 /\ Len(frame) \in Nat
  BY <1>2, <1>4
<1> HIDE DEF frame2, frame, s, t
<1> DEFINE drawn == ~LowerByCode(frame)[row]
<1>12. d.dheight_low_row = row <=> LowerByCode(frame)[row]
  BY <1>3 DEF LowState
<1>13. /\ e.frame_buffer = frame2 /\ e.bold_mode = FALSE /\ e.flags.is_escaped = FALSE
       /\ e.dheight_low_row = IF ~LowerByCode(frame)[row] /\ b % 128 = 13 /\ tall
                              THEN row + 1 ELSE d.dheight_low_row
       /\ col + 1 = MAX_COLS => \E on : e.flags = DefaultFlags(Space, on)
       /\ ~LowerByCode(frame)[row] /\ col + 1 # MAX_COLS => FlagsAt(e.flags, t, col + 1, tall)
       /\ ~LowerByCode(frame)[row] => Drawn(u, e, t, col + 1, tall)
       /\ LowerByCode(frame)[row] => e.cells = d.cells
  <2>1. CASE drawn
    <3>1. FlagsAt(u.flags, t, col, tall)
      BY <1>2, <1>3, <1>6, <1>9, <2>1, FlagsSerial
    <3>2. /\ u.row # u.dheight_low_row /\ u.bold_mode = FALSE /\ u.flags.is_escaped = FALSE
          /\ tall \in BOOLEAN /\ (tall <=> u.row < MAX_ROWS - 2)
          /\ t[u.col + 1] \in 0 .. 127 /\ FlagsAt(u.flags, t, u.col, tall)
      BY <1>1, <1>4, <1>6, <1>9, <1>12, <2>1, <3>1
    <3> DEFINE v == DisplayCode(u, t[u.col + 1])
    <3>3. /\ v.frame_buffer = u.frame_buffer /\ v.bold_mode = FALSE
          /\ v.flags.is_escaped = FALSE
          /\ v.dheight_low_row = IF t[u.col + 1] = 13 /\ tall THEN u.row + 1
                                 ELSE u.dheight_low_row
          /\ Drawn(u, v, t, u.col + 1, tall)
          /\ u.col + 1 # MAX_COLS => FlagsAt(v.flags, t, u.col + 1, tall)
          /\ u.col + 1 = MAX_COLS => \E on : v.flags = DefaultFlags(Space, on)
      <4>1. Sound(u)
        BY <1>5
      <4> HIDE DEF tall
      <4> QED
        BY <4>1, <3>2, DisplayMatches, ZenonT(60)
    <3>4. v = e
      BY <1>6, <1>9 DEF e
    <3> HIDE DEF v, tall
    <3> QED
      BY <1>6, <1>9, <2>1, <3>3, <3>4
  <2>2. CASE ~drawn
    <3>1. u.row = u.dheight_low_row /\ u.bold_mode = FALSE /\ u.flags.is_escaped = FALSE
      BY <1>1, <1>6, <1>12, <2>2
    <3>2. /\ e.frame_buffer = u.frame_buffer /\ e.bold_mode = FALSE
          /\ e.flags.is_escaped = FALSE
          /\ e.dheight_low_row = u.dheight_low_row
          /\ e.cells = u.cells
          /\ u.col + 1 = MAX_COLS => \E on : e.flags = DefaultFlags(Space, on)
      <4>1. Sound(u) /\ b % 128 \in 0 .. 127
        BY <1>4, <1>5
      <4> QED
        BY <4>1, <3>1, IgnoredMatches, ZenonT(60) DEF e
    <3> QED
      BY <1>6, <2>2, <3>2
  <2> QED
    BY <2>1, <2>2
<1>14. Painted(e)
  <2>1. tall /\ IsTall(t, col + 1) /\ drawn => d.dheight_low_row = row + 1
    <3>1. ASSUME tall, IsTall(t, col + 1), drawn
          PROVE  Tall(frame, row)
      <4>1. PICK i \in 1 .. (col + 1) - 1 : t[i] = 13
        BY <3>1, TallAfter
      <4>2. i \in 1 .. col
        BY <1>2
      <4>3. s[i] = 13 /\ i \in DOMAIN s
        BY <1>9, <4>1, <4>2
      <4> QED
        BY <4>3 DEF Tall, s
    <3> QED
      BY <1>3, <3>1 DEF LowState
  <2>2. drawn => Drawn(d, e, t, col + 1, tall)
    <3> HIDE DEF tall
    <3>1. SamePlace(d, u) /\ u.cells = d.cells /\ u.dheight_low_row = d.dheight_low_row
      BY <1>6 DEF SamePlace
    <3> QED
      BY <1>13, <3>1, DrawnFrame
  <2> QED
    BY <1>1, <1>10, <1>13, <2>1, <2>2, PaintedStep DEF frame, t
<1>15. Len(e.frame_buffer) <= MAX_ROWS * MAX_COLS
  <2> DEFINE size == MAX_ROWS * MAX_COLS
  <2>1. size \in Nat
    BY DecoderAssumption, SMT
  <2>2. Len(frame) < size
    BY DEF frame
  <2> HIDE DEF size
  <2>3. Len(frame2) <= size
    BY <1>11, <2>1, <2>2
  <2> QED
    BY <1>13, <2>3 DEF size
<1>16. ASSUME Len(e.frame_buffer) < MAX_ROWS * MAX_COLS
       PROVE  RowState(e)
  <2>1. NextPlace(d, e)
    BY <1>6, <1>8 DEF NextPlace, RowBelow
  <2>2. Len(frame) + 1 < MAX_ROWS * MAX_COLS
    BY <1>11, <1>13, <1>16
  <2>3. /\ Len(frame) + 1 = e.row * MAX_COLS + e.col
        /\ \/ col + 1 # MAX_COLS /\ e.row = row /\ e.col = col + 1
           \/ col + 1 = MAX_COLS /\ e.row = row + 1 /\ e.row \in Rows /\ e.col = 0
    BY <1>1, <1>3, <2>1, <2>2, EndStep
  <2>4. /\ LowState(frame2, row, e.dheight_low_row)
        /\ row + 1 \in Rows => LowState(frame2, row + 1, e.dheight_low_row)
    BY <1>2, <1>3, <1>4, <1>13, LowStep DEF frame2
  <2>5. LowState(frame2, e.row, e.dheight_low_row)
    BY <2>3, <2>4
  <2>6. ~LowerByCode(frame2)[e.row] =>
            FlagsAt(e.flags, CodesOf(frame2, e.row), e.col, e.row < MAX_ROWS - 2)
    <3>1. CASE col + 1 # MAX_COLS
      BY <1>10, <1>13, <2>3, <3>1 DEF t
    <3>2. CASE col + 1 = MAX_COLS
      BY <1>13, <2>3, <3>2, FlagsFresh
    <3> QED
      BY <3>1, <3>2
  <2>7. Len(e.frame_buffer) = e.row * MAX_COLS + e.col
    BY <1>11, <1>13, <2>3
  <2> QED
    BY <1>13, <2>5, <2>6, <2>7 DEF RowState
<1> QED
  BY <1>7, <1>8, <1>13, <1>14, <1>15, <1>16 DEF RowInv

\* Revealing redraws cells and changes none.
LEMMA RevealStep ==
    ASSUME NEW d, RowInv(d)
    PROVE  RowInv(RevealToggled(d))
<1> DEFINE on == ~d.screen_revealed_state
           u == [d EXCEPT !.screen_revealed_state = on]
           P == {p \in Screen : d.cells[p].attr.has_concealed}
           new == [p \in P |-> u.cells[p]]
           e == RevealToggled(d)
<1>1. Sound(d) /\ d \in DecoderStates
  BY DEF RowInv, Sound
<1>2. Sound(e)
  BY <1>1, RevealToggledSound
<1>3. u \in DecoderStates /\ u.cells = d.cells /\ u.flags = d.flags /\ u.row = d.row
      /\ u.col = d.col /\ u.dheight_low_row = d.dheight_low_row
      /\ u.frame_buffer = d.frame_buffer /\ u.bold_mode = d.bold_mode
  <2>1. u \in DecoderStates
    BY <1>1, ScreenStateType
  <2> HIDE DEF on
  <2> QED
    BY SMT, <1>1, <2>1 DEF DecoderStates
<1>4. e = PutChars(u, new) /\ DOMAIN new = P /\ \A p \in P : new[p] = d.cells[p]
  BY <1>3 DEF RevealToggled, Redraw
<1> HIDE DEF u, new, P
<1>5. /\ e.flags = d.flags /\ e.dheight_low_row = d.dheight_low_row
      /\ e.row = d.row /\ e.col = d.col /\ e.frame_buffer = d.frame_buffer
  <2>1. /\ PutChars(u, new).flags = u.flags
        /\ PutChars(u, new).dheight_low_row = u.dheight_low_row
        /\ PutChars(u, new).row = u.row /\ PutChars(u, new).col = u.col
        /\ PutChars(u, new).frame_buffer = u.frame_buffer
    <3>1. u \in DecoderStates
      BY <1>3
    <3> QED
      BY <3>1, PutCharsFrame
  <2> HIDE DEF e
  <2> QED
    BY <1>3, <1>4, <2>1, Zenon
<1>6. e.bold_mode = d.bold_mode
  BY SMT, <1>3, <1>4 DEF PutChars, DecoderStates
<1>7. \A p \in Screen : e.cells[p] = d.cells[p]
  <2>1. \A p \in Screen : /\ p \in DOMAIN new => PutChars(u, new).cells[p] = new[p]
                          /\ p \notin DOMAIN new => PutChars(u, new).cells[p] = u.cells[p]
    BY <1>3, PutCharsCells
  <2> HIDE DEF e
  <2> QED
    BY <1>3, <1>4, <2>1
<1> HIDE DEF e
<1>8. Painted(e)
  <2>1. \A r \in Rows, p \in 1 .. MAX_COLS : <<r, p - 1>> \in Screen
    BY DecoderAssumption DEF Screen, Cols
  <2>2. Painted(d)
    BY DEF RowInv
  <2> QED
    BY <1>5, <1>7, <2>1, <2>2 DEF Painted
<1>9. RowInv(e)
  BY <1>2, <1>5, <1>6, <1>8 DEF RowInv, RowState
<1> QED
  BY <1>9 DEF e

\* After a form feed nothing is drawn and nothing asked for.
LEMMA RowStart == RowInv(FormFeed(InitDecoder(FALSE)))
<1> DEFINE d == InitDecoder(FALSE)
           flags == DefaultFlags(Space, d.flags.is_cursor_on)
           u == ResetFlags([d EXCEPT !.row = 0, !.col = 0, !.dheight_low_row = -1,
                                     !.frame_buffer = << >>,
                                     !.screen_revealed_state = FALSE])
           new == [p \in Screen |-> BlankCell]
           e == FormFeed(d)
<1>1. Sound(d) /\ d \in DecoderStates /\ d.bold_mode = FALSE
  <2>1. Sound(d)
    BY InitSound
  <2>2. d.bold_mode = FALSE
    BY DEF InitDecoder
  <2> QED
    BY <2>1, <2>2 DEF Sound
<1> HIDE DEF d
<1>2. Sound(e)
  BY <1>1, NewFrameSound DEF FormFeed
<1>3. e = PutChars(u, new)
  BY DEF FormFeed, NewFrame
<1>4. /\ u \in DecoderStates /\ u.row = 0 /\ u.col = 0 /\ u.dheight_low_row = -1
      /\ u.frame_buffer = << >> /\ u.flags = flags /\ u.bold_mode = FALSE
  <2>1. u \in DecoderStates
    BY <1>1, NewFrameStart
  <2>2. /\ u.row = 0 /\ u.col = 0 /\ u.dheight_low_row = -1
        /\ u.frame_buffer = << >> /\ u.bold_mode = FALSE
    BY SMT, <1>1 DEF ResetFlags, DecoderStates
  <2>3. u.flags = flags
    <3> HIDE DEF flags
    <3>1. \A x : ResetFlags(x).flags = [x EXCEPT !.flags = DefaultFlags(Space, x.flags.is_cursor_on)].flags
      BY DEF ResetFlags
    <3> QED
      BY SMT, <1>1 DEF ResetFlags, DecoderStates, flags
  <2> QED
    BY <2>1, <2>2, <2>3
<1> HIDE DEF u
<1>5. /\ e.flags = flags /\ e.dheight_low_row = -1 /\ e.row = 0 /\ e.col = 0
      /\ e.frame_buffer = << >>
      /\ \A p \in Screen : e.cells[p] = BlankCell
  <2> HIDE DEF new, e
  <2>1. /\ PutChars(u, new).flags = u.flags
        /\ PutChars(u, new).dheight_low_row = u.dheight_low_row
        /\ PutChars(u, new).row = u.row /\ PutChars(u, new).col = u.col
        /\ PutChars(u, new).frame_buffer = u.frame_buffer
    BY <1>4, PutCharsFrame
  <2>2. \A p \in Screen : p \in DOMAIN new => PutChars(u, new).cells[p] = new[p]
    BY <1>4, PutCharsCells
  <2>3. \A p \in Screen : p \in DOMAIN new /\ new[p] = BlankCell
    BY DEF new
  <2> QED
    BY <1>3, <1>4, <2>1, <2>2, <2>3
<1>6. e.bold_mode = FALSE
  BY SMT, <1>3, <1>4 DEF PutChars, DecoderStates
<1> HIDE DEF e
<1>7. \A r \in Nat : DOMAIN CodesOf(<< >>, r) = {}
  <2> TAKE r \in Nat
  <2>1. r * MAX_COLS \in Nat
    BY DecoderAssumption, SMT
  <2> DEFINE base == r * MAX_COLS
  <2>2. CodeCount(0, r) = 0
    <3>1. CodeCount(0, r) = IF 0 <= base THEN 0 ELSE IF 0 >= (r + 1) * MAX_COLS THEN MAX_COLS
                            ELSE 0 - base
      BY DEF CodeCount
    <3>2. 0 <= base
      BY <2>1
    <3> QED
      BY <3>1, <3>2, Zenon
  <2>3. Len(<< >>) = 0
    OBVIOUS
  <2>4. DOMAIN CodesOf(<< >>, r) = 1 .. CodeCount(Len(<< >>), r)
    BY CodesAre
  <2>5. DOMAIN CodesOf(<< >>, r) = 1 .. 0
    BY <2>2, <2>3, <2>4
  <2> QED
    BY <2>5
<1>8. \A r \in Nat : ~Tall(<< >>, r)
  BY <1>7 DEF Tall
<1>9. \A r \in Rows : ~LowerByCode(<< >>)[r]
  <2> TAKE r \in Rows
  <2>1. r \in -1 .. MAX_ROWS - 1
    BY DecoderAssumption DEF Rows
  <2>2. LowerByCode(<< >>)[r] = (r > 0 /\ Tall(<< >>, r - 1) /\ r - 1 < MAX_ROWS - 2
                             /\ ~LowerByCode(<< >>)[r - 1])
    BY <2>1, LowerIs, Zenon
  <2>3. r > 0 => r - 1 \in Nat
    BY <2>1, DecoderAssumption
  <2>4. ~(r > 0 /\ Tall(<< >>, r - 1))
    BY <1>8, <2>3
  <2> QED
    BY <2>2, <2>4, Zenon
<1>10. Painted(e)
  <2> SUFFICES ASSUME NEW r \in Rows, NEW p \in 1 .. MAX_COLS
               PROVE  e.cells[<<r, p - 1>>] = CellByCode(<< >>, r, p)
    BY <1>5 DEF Painted
  <2>1. <<r, p - 1>> \in Screen
    BY DecoderAssumption DEF Screen, Cols
  <2>2. r \in Nat
    BY DecoderAssumption DEF Rows
  <2>3. p \notin DOMAIN CodesOf(<< >>, r)
    BY <1>7, <2>2
  <2>4. CellByCode(<< >>, r, p) = BlankCell
    BY <1>9, <2>3, CellIs
  <2> QED
    BY <1>5, <2>1, <2>4
<1>11. 0 \in Rows /\ 0 \in Nat
  BY DecoderAssumption DEF Rows
<1>12. LowState(<< >>, 0, -1)
  BY <1>8, <1>9, <1>11 DEF LowState
<1>13. RowState(e)
  <2>1. Len(<< >>) = 0 * MAX_COLS + 0
    BY DecoderAssumption
  <2>2. FlagsAt(e.flags, CodesOf(<< >>, 0), 0, 0 < MAX_ROWS - 2)
    BY <1>5, FlagsFresh
  <2> QED
    BY <1>5, <1>12, <2>1, <2>2 DEF RowState
<1>14. e.flags.is_escaped = FALSE
  BY <1>5 DEF DefaultFlags
<1>15. Len(e.frame_buffer) <= MAX_ROWS * MAX_COLS
  <2>1. MAX_ROWS * MAX_COLS \in Nat
    BY DecoderAssumption, SMT
  <2>2. Len(e.frame_buffer) = 0
    BY <1>5
  <2> QED
    BY <2>1, <2>2
<1>16. RowInv(e)
  BY <1>2, <1>6, <1>10, <1>13, <1>14, <1>15 DEF RowInv
<1> QED
  BY <1>16 DEF e, d

-----------------------------------------------------------------------------
(* From the rules of the program to those of the comments.                 *)

\* How many codes a row has, and where they are in the frame.
LEMMA CountIs ==
    ASSUME NEW frame \in Seq(Bytes), NEW r \in Nat
    PROVE  /\ CodeCount(Len(frame), r) \in Nat
           /\ \A i \in 1 .. CodeCount(Len(frame), r) : r * MAX_COLS + i \in 1 .. Len(frame)
<1> DEFINE n     == Len(frame)
           base  == r * MAX_COLS
           next  == (r + 1) * MAX_COLS
           count == CodeCount(n, r)
<1>1. base \in Nat /\ next \in Nat /\ next = base + MAX_COLS /\ MAX_COLS \in Nat
  BY SMT, DecoderAssumption
<1>2. n \in Nat
  OBVIOUS
<1>3. count = IF n <= base THEN 0 ELSE IF n >= next THEN MAX_COLS ELSE n - base
  BY DEF CodeCount
<1> HIDE DEF n, base, next, count
<1>4. count \in Nat /\ \A i \in 1 .. count : base + i \in 1 .. n
  BY SMT, <1>1, <1>2, <1>3
<1> QED
  BY <1>4 DEF n, base, count

\* The codes of a frame are 7-bit codes.
LEMMA CodesAreNumbers ==
    ASSUME NEW frame \in Seq(Bytes), NEW r \in Nat, NEW i \in DOMAIN CodesOf(frame, r)
    PROVE  CodesOf(frame, r)[i] \in 0 .. 127 /\ i \in Nat \ {0}
<1> DEFINE count == CodeCount(Len(frame), r)
           at    == r * MAX_COLS + i
<1>0. DOMAIN CodesOf(frame, r) = 1 .. CodeCount(Len(frame), r)
  BY CodesAre, Zenon
<1>1. i \in 1 .. CodeCount(Len(frame), r)
  BY <1>0, Zenon
<1>2. CodesOf(frame, r)[i] = frame[at] % 128
  <2>1. \A k \in 1 .. CodeCount(Len(frame), r) :
            CodesOf(frame, r)[k] = frame[r * MAX_COLS + k] % 128
    BY Zenon DEF CodesOf, CodeCount
  <2> QED
    BY <1>1, <2>1, Zenon
<1>6. count \in Nat /\ at \in 1 .. Len(frame)
  BY <1>1, CountIs, Zenon
<1>7. i \in 1 .. count
  BY <1>1
<1> HIDE DEF count, at
<1>8. i \in Nat \ {0}
  BY SMT, <1>6, <1>7
<1>3. frame[at] \in Bytes
  BY <1>6
<1>4. frame[at] \in 0 .. 255
  BY <1>3, DecoderAssumption
<1>5. frame[at] % 128 \in 0 .. 127
  <2>1. \A b \in 0 .. 255 : b % 128 \in 0 .. 127
    BY SMT
  <2> QED
    BY <1>4, <2>1, Zenon
<1> QED
  BY <1>2, <1>5, <1>8, Zenon

\* Double height from one position to the next.
LEMMA TallNext ==
    ASSUME NEW s, NEW i \in Nat \ {0}
    PROVE  IsTall(s, i + 1) <=> s[i + 1] # 12 /\ (IsTall(s, i) \/ s[i] = 13)
<1> DEFINE Before == Between(s, i - 1, 13, i - 1, {12})
<1>1. i + 1 \in Nat \ {0} /\ (i + 1) - 1 = i
  OBVIOUS
<1>2. IsTall(s, i + 1) <=> Between(s, i, 13, i, {12}) /\ s[i + 1] \notin {12}
  BY <1>1, TallCounts
<1>3. Between(s, i, 13, i, {12}) <=> (Before /\ s[i] \notin {12}) \/ s[i] = 13
  <2>1. 13 \notin {12}
    OBVIOUS
  <2> QED
    BY <2>1, BetweenStep
<1>4. IsTall(s, i) <=> Before /\ s[i] \notin {12}
  BY TallCounts
<1> QED
  BY <1>2, <1>3, <1>4

\* Where decoder.h and the program do not differ they hold the same mosaic.
LEMMA HoldAgrees ==
    ASSUME NEW s, NEW p \in Nat \ {0}, NEW tall \in BOOLEAN,
           s[p] < 32, IsHeld(s, p), ~HoldDiffers(s, p, tall)
    PROVE  HeldAt(s, p, tall) = HeldByCode(s, p)
<1> DEFINE T == {0} \cup {i \in 1 .. p - 1 : s[i] >= 32 /\ ~IsAlpha(s, i)}
           U == {0} \cup {i \in 1 .. p - 1 : IsMosaic(s, i) /\ HasBit6(s[i])}
           m == LastMosaic(s, p - 1)
           h == Max(U)
           Changes(i) == \/ IsAlpha(s, i) # IsAlpha(s, i + 1)
                         \/ Size(s, i, tall) # Size(s, i + 1, tall)
           mode == \E i \in m + 1 .. p - 1 : IsAlpha(s, i) # IsAlpha(s, i + 1)
           reset == LastIn(s, p, {12})
<1>1. HeldByCode(s, p) = IF m = 0 \/ reset > m \/ mode THEN Space ELSE CharAt(s, m)
  BY Zenon DEF HeldByCode, LastMosaic
<1>2. HeldAt(s, p, tall) = IF h = 0 \/ (\E i \in h .. p - 1 : Changes(i))
                           THEN Space ELSE CharAt(s, h)
  BY Zenon DEF HeldAt
<1>3. m = Max(T) /\ m \in T /\ \A i \in T : i <= m
  <2>1. T \in SUBSET (0 .. p - 1) /\ T # {} /\ p - 1 \in Nat
    OBVIOUS
  <2>2. m = Max(T)
    BY Zenon DEF LastMosaic
  <2> HIDE DEF m, T
  <2> QED
    BY <2>1, <2>2, GreatestOf
<1>4. h \in U /\ \A i \in U : i <= h
  <2>1. U \in SUBSET (0 .. p - 1) /\ U # {} /\ p - 1 \in Nat
    OBVIOUS
  <2> HIDE DEF U
  <2> QED
    BY <2>1, GreatestOf
<1>5. U \subseteq T
  BY DEF IsMosaic
<1>6. CASE m = 0
  <2>1. h = 0
    <3>1. h \in T
      BY <1>4, <1>5
    <3> HIDE DEF h, m, T
    <3>2. h <= 0
      BY <1>3, <1>6, <3>1
    <3>3. h \in Nat
      BY <3>1 DEF T
    <3> QED
      BY <3>2, <3>3
  <2> HIDE DEF m, h
  <2> QED
    BY <1>1, <1>2, <1>6, <2>1
<1>7. CASE m # 0
  <2>1. m \in 1 .. p - 1 /\ s[m] >= 32 /\ ~IsAlpha(s, m)
    BY <1>3, <1>7
  <2>2. /\ HasBit6(s[m])
        /\ \A i \in m + 1 .. p : ~(s[i] = 12 /\ Size(s, i - 1, tall) = "normal")
        /\ \A i \in m + 1 .. p - 1 : ~(s[i] = 13 /\ tall /\ Size(s, i, tall) = "normal")
    <3>1. Max({0} \cup {i \in 1 .. p - 1 : IsMosaic(s, i)}) = m
      BY <1>3, Zenon DEF IsMosaic
    <3> HIDE DEF m
    <3> QED
      BY <1>7, <3>1, Zenon DEF HoldDiffers
  <2>3. h = m
    <3>1. m \in U
      BY <2>1, <2>2 DEF IsMosaic
    <3>2. h \in T
      BY <1>4, <1>5
    <3>3. m <= h /\ h <= m
      BY <1>3, <1>4, <3>1, <3>2
    <3>4. h \in Nat /\ m \in Nat
      BY <2>1, <3>2
    <3> HIDE DEF h, m
    <3> QED
      BY <3>3, <3>4
  <2>4. \A k \in 1 .. p : s[k] = 12 => k <= reset
    <3>1. \A k \in 1 .. p : s[k] \in {12} => k <= reset
      BY LastInIs
    <3> QED
      BY <3>1
  <2>5. reset \in 0 .. p /\ (reset > 0 => s[reset] = 12)
    <3>1. reset \in 0 .. p /\ (reset > 0 => s[reset] \in {12})
      BY LastInIs
    <3> QED
      BY <3>1
  <2> HIDE DEF m, h, reset
  <2>6. ASSUME reset > m PROVE \E i \in m .. p - 1 : Changes(i)
    <3> DEFINE k == reset - 1
    <3>1. k \in m .. p - 1 /\ k \in Nat \ {0} /\ k + 1 = reset /\ reset \in m + 1 .. p
      BY <2>1, <2>5, <2>6
    <3>2. s[k + 1] = 12
      BY <2>5, <3>1
    <3>3. Size(s, k, tall) # "normal"
      BY <2>2, <3>1, <3>2
    <3>4. ~IsTall(s, k + 1)
      BY <3>1, <3>2, TallNext
    <3>5. Size(s, k + 1, tall) = "normal"
      BY <3>4 DEF Size
    <3> HIDE DEF k
    <3> QED
      BY <3>1, <3>3, <3>5
  <2>7. ASSUME mode PROVE \E i \in m .. p - 1 : Changes(i)
    <3>1. \A i \in m + 1 .. p - 1 : i \in m .. p - 1
      BY <2>1
    <3> QED
      BY <2>7, <3>1, Zenon
  <2>8. ASSUME NEW i \in m .. p - 1, IsAlpha(s, i) # IsAlpha(s, i + 1) PROVE mode
    <3>1. IsAlpha(s, m + 1) <=> IsAlpha(s, m)
      <4>1. s[m] \notin AlphaColors /\ s[m] \notin MosaicColors
        BY <2>1 DEF AlphaColors, MosaicColors
      <4>2. m \in Nat \ {0}
        BY <2>1
      <4> QED
        BY <4>1, <4>2, AlphaStep
    <3>2. IsAlpha(s, m + 1) = IsAlpha(s, m)
      BY <3>1, Zenon DEF IsAlpha
    <3>3. i # m
      BY <2>8, <3>2
    <3>4. i \in m + 1 .. p - 1
      BY <2>1, <3>3
    <3> QED
      BY <2>8, <3>4
  <2>9. ASSUME NEW i \in m .. p - 1, Size(s, i, tall) # Size(s, i + 1, tall) PROVE reset > m
    <3>1. i \in Nat \ {0} /\ i + 1 \in m + 1 .. p /\ i + 1 \in 1 .. p /\ m \in Nat
      BY <2>1
    <3>2. tall /\ ~(IsTall(s, i) <=> IsTall(s, i + 1))
      BY <2>9 DEF Size
    <3>3. IsTall(s, i + 1) <=> s[i + 1] # 12 /\ (IsTall(s, i) \/ s[i] = 13)
      BY <3>1, TallNext
    <3>4. CASE IsTall(s, i)
      <4>1. s[i + 1] = 12
        BY <3>2, <3>3, <3>4
      <4>2. i + 1 <= reset
        BY <2>4, <3>1, <4>1
      <4> QED
        BY <2>5, <3>1, <4>2
    <3>5. CASE ~IsTall(s, i)
      <4>1. s[i] = 13
        BY <3>2, <3>3, <3>5
      <4>2. i # m
        BY <2>1, <4>1
      <4>3. i \in m + 1 .. p - 1
        BY <2>1, <4>2
      <4>4. Size(s, i, tall) = "normal"
        BY <3>5 DEF Size
      <4> QED
        BY <2>2, <3>2, <4>1, <4>3, <4>4
    <3> QED
      BY <3>4, <3>5
  <2>10. reset > m \/ mode <=> \E i \in m .. p - 1 : Changes(i)
    <3> HIDE DEF mode
    <3> QED
      BY <2>6, <2>7, <2>8, <2>9
  <2> HIDE DEF Changes, mode
  <2> QED
    BY <1>1, <1>2, <1>7, <2>3, <2>10
<1> QED
  BY <1>6, <1>7

\* The rows that the comment and the program take for lower halves.
LEMMA LowerAgrees ==
    ASSUME NEW frame, NEW r \in Rows, r = MAX_ROWS - 1 => ~HeightDiffers(frame)
    PROVE  /\ IsLower(frame)[r] = LowerByCode(frame)[r]
           /\ IsLower(frame)[r] => r > 0 /\ ~IsLower(frame)[r - 1]
<1> DEFINE Mine(n)   == IsLower(frame)[n]
           Theirs(n) == LowerByCode(frame)[n]
           S == {n \in Nat : n <= MAX_ROWS - 2 => Mine(n) = Theirs(n)}
<1>0. MAX_ROWS \in Nat \ {0} /\ r \in 0 .. MAX_ROWS - 1
  BY DecoderAssumption DEF Rows
<1>1. \A n \in -1 .. MAX_ROWS - 1 :
          Mine(n) = (n > 0 /\ Tall(frame, n - 1) /\ n - 1 < MAX_ROWS - 1 /\ ~Mine(n - 1))
  <2>1. IsLower(frame) = LowerBelow(frame, MAX_ROWS - 1)
    BY Zenon DEF IsLower, LowerBelow
  <2>2. \A n \in -1 .. MAX_ROWS - 1 :
            LowerBelow(frame, MAX_ROWS - 1)[n]
                = (n > 0 /\ Tall(frame, n - 1) /\ n - 1 < MAX_ROWS - 1
                   /\ ~LowerBelow(frame, MAX_ROWS - 1)[n - 1])
    BY LowerBelowIs
  <2> QED
    BY <2>1, <2>2, Zenon
<1>2. \A n \in -1 .. MAX_ROWS - 1 :
          Theirs(n) = (n > 0 /\ Tall(frame, n - 1) /\ n - 1 < MAX_ROWS - 2 /\ ~Theirs(n - 1))
  BY LowerIs, Zenon
<1> HIDE DEF Mine, Theirs
<1>3. 0 \in S
  <2>1. 0 \in -1 .. MAX_ROWS - 1 /\ ~(0 > 0)
    BY <1>0
  <2>2. Mine(0) = FALSE /\ Theirs(0) = FALSE
    BY <1>1, <1>2, <2>1, Zenon
  <2> QED
    BY <2>2
<1>4. ASSUME NEW n \in Nat, n \in S PROVE n + 1 \in S
  <2> SUFFICES ASSUME n + 1 <= MAX_ROWS - 2 PROVE Mine(n + 1) = Theirs(n + 1)
    OBVIOUS
  <2>1. /\ n + 1 \in -1 .. MAX_ROWS - 1 /\ (n + 1) - 1 = n /\ n + 1 > 0
        /\ n < MAX_ROWS - 1 /\ n < MAX_ROWS - 2 /\ n <= MAX_ROWS - 2
    BY <1>0
  <2>2. Mine(n) = Theirs(n)
    BY <1>4, <2>1
  <2>3. Mine(n + 1) = (n + 1 > 0 /\ Tall(frame, n) /\ n < MAX_ROWS - 1 /\ ~Mine(n))
    BY <1>1, <2>1
  <2>4. Theirs(n + 1) = (n + 1 > 0 /\ Tall(frame, n) /\ n < MAX_ROWS - 2 /\ ~Theirs(n))
    BY <1>2, <2>1
  <2> QED
    BY <2>1, <2>2, <2>3, <2>4, Zenon
<1>5. \A n \in Nat : n \in S
  <2> HIDE DEF S
  <2> QED
    BY <1>3, <1>4, Induction
<1>6. Mine(r) = Theirs(r)
  <2>1. CASE r <= MAX_ROWS - 2
    BY <1>0, <1>5, <2>1
  <2>2. CASE ~(r <= MAX_ROWS - 2)
    <3>1. r = MAX_ROWS - 1 /\ r \in -1 .. MAX_ROWS - 1 /\ r - 1 = MAX_ROWS - 2
      BY <1>0, <2>2
    <3>2. Theirs(r) = FALSE
      <4>1. ~(r - 1 < MAX_ROWS - 2)
        BY <1>0, <3>1
      <4> QED
        BY <1>2, <3>1, <4>1, Zenon
    <3>3. Mine(r) = FALSE
      <4>1. ~(MAX_ROWS > 1 /\ Tall(frame, MAX_ROWS - 2) /\ ~Mine(MAX_ROWS - 2))
        BY <3>1, Zenon DEF HeightDiffers, Mine
      <4>2. r > 0 => MAX_ROWS > 1
        BY <1>0, <3>1
      <4>3. Mine(r) = (r > 0 /\ Tall(frame, MAX_ROWS - 2) /\ r - 1 < MAX_ROWS - 1
                       /\ ~Mine(MAX_ROWS - 2))
        BY <1>1, <3>1
      <4> QED
        BY <4>1, <4>2, <4>3, Zenon
    <3> QED
      BY <3>2, <3>3
  <2> QED
    BY <2>1, <2>2
<1>7. Mine(r) => r > 0 /\ ~Mine(r - 1)
  <2>1. r \in -1 .. MAX_ROWS - 1
    BY <1>0
  <2> QED
    BY <1>1, <2>1, Zenon
<1> QED
  BY <1>6, <1>7 DEF Mine, Theirs

\* A code is drawn as the same character.
LEMMA CharAgrees ==
    ASSUME NEW frame \in Seq(Bytes), NEW r \in Nat, NEW p \in DOMAIN CodesOf(frame, r),
           NEW tall \in BOOLEAN, ~HoldDiffers(CodesOf(frame, r), p, tall)
    PROVE  CharOf(CodesOf(frame, r), p, tall) = CharByCode(CodesOf(frame, r), p)
<1> DEFINE s == CodesOf(frame, r)
<1>1. s[p] \in 0 .. 127 /\ p \in Nat \ {0}
  BY CodesAreNumbers
<1>2. ~HoldDiffers(s, p, tall)
  OBVIOUS
<1> HIDE DEF s
<1>3. ASSUME s[p] >= 32 PROVE CharOf(s, p, tall) = CharByCode(s, p)
  BY <1>3, Zenon DEF CharOf, CharByCode
<1>4. ASSUME ~(s[p] >= 32) PROVE CharOf(s, p, tall) = CharByCode(s, p)
  <2>1. s[p] < 32
    <3>1. \A code \in 0 .. 127 : ~(code >= 32) => code < 32
      BY SMT
    <3> QED
      BY <1>1, <1>4, <3>1, Zenon
  <2>2. ASSUME IsHeld(s, p) PROVE HeldAt(s, p, tall) = HeldByCode(s, p)
    BY <1>1, <1>2, <2>1, <2>2, HoldAgrees
  <2> QED
    BY <1>4, <2>2, Zenon DEF CharOf, CharByCode
<1>5. CharOf(s, p, tall) = CharByCode(s, p)
  BY <1>3, <1>4, Zenon
<1> QED
  BY <1>5 DEF s

\* Where the rules do not differ the program draws the cells that the comments
\* ask for.
LEMMA CellsAgree ==
    ASSUME NEW frame \in Seq(Bytes), NEW r \in Rows, NEW p \in 1 .. MAX_COLS,
           ~Differs(frame, r, p)
    PROVE  CellAt(frame, r, p) = CellByCode(frame, r, p)
<1> DEFINE lower == IsLower(frame)[r]
           s     == CodesOf(frame, r)
           above == CodesOf(frame, r - 1)
<1>0. MAX_ROWS \in Nat \ {0} /\ r \in 0 .. MAX_ROWS - 1
  BY DecoderAssumption DEF Rows
<1>1. r >= MAX_ROWS - 2 => ~HeightDiffers(frame)
  BY DEF Differs
<1>2. /\ IsLower(frame)[r] = LowerByCode(frame)[r]
      /\ lower => r > 0 /\ ~IsLower(frame)[r - 1]
  <2>1. r = MAX_ROWS - 1 => ~HeightDiffers(frame)
    BY <1>0, <1>1
  <2> QED
    BY <2>1, LowerAgrees
<1>3. CASE lower
  <2>1. r - 1 \in Nat /\ r - 1 < MAX_ROWS - 1
    BY <1>0, <1>2, <1>3
  <2>2. MayBeTall(frame, r - 1) = TRUE
    BY <1>2, <1>3, <2>1, Zenon DEF MayBeTall
  <2>3. p \in DOMAIN above => ~HoldDiffers(above, p, TRUE)
    BY <1>3, <2>2, Zenon DEF Differs
  <2>4. p \in DOMAIN above => CharOf(above, p, TRUE) = CharByCode(above, p)
    BY <2>1, <2>3, CharAgrees
  <2>5. CellByCode(frame, r, p) = IF p \in DOMAIN above /\ IsTall(above, p)
                                  THEN LowerCell(above, p) ELSE BlankCell
    BY <1>2, <1>3, CellIs
  <2>6. CellAt(frame, r, p) =
            IF p \in DOMAIN above /\ IsTall(above, p)
            THEN [character |-> CharOf(above, p, TRUE).lower, attr |-> AttrAt(above, p)]
            ELSE BlankCell
    BY <1>3, Zenon DEF CellAt
  <2> HIDE DEF above
  <2> QED
    BY <2>4, <2>5, <2>6, Zenon DEF LowerCell
<1>4. CASE ~lower
  <2> DEFINE tall == MayBeTall(frame, r)
  <2>1. tall \in BOOLEAN
    BY Zenon DEF MayBeTall
  <2>2. p \in DOMAIN s => ~HoldDiffers(s, p, tall)
    BY <1>4, Zenon DEF Differs
  <2>3. r \in Nat
    BY <1>0
  <2> HIDE DEF tall
  <2>4. p \in DOMAIN s => CharOf(s, p, tall) = CharByCode(s, p)
    BY <2>1, <2>2, <2>3, CharAgrees
  <2>5. CellByCode(frame, r, p) = IF p \in DOMAIN s
                                  THEN UpperCell(s, p, r < MAX_ROWS - 2) ELSE BlankCell
    BY <1>2, <1>4, CellIs
  <2>6. CellAt(frame, r, p) =
            IF p \in DOMAIN s
            THEN [character |-> IF tall /\ IsTall(s, p) THEN CharOf(s, p, tall).upper
                                                        ELSE CharOf(s, p, tall).single,
                  attr |-> AttrAt(s, p)]
            ELSE BlankCell
    BY <1>4, Zenon DEF CellAt, tall
  <2>7. p \in DOMAIN s => (tall /\ IsTall(s, p) <=> r < MAX_ROWS - 2 /\ IsTall(s, p))
    <3>1. tall <=> r < MAX_ROWS - 1
      BY <1>4, Zenon DEF MayBeTall, tall
    <3>2. CASE r # MAX_ROWS - 2
      BY <1>0, <3>1, <3>2
    <3>3. CASE r = MAX_ROWS - 2
      <4>1. ~Tall(frame, r)
        <5>1. MAX_ROWS > 1 /\ r >= MAX_ROWS - 2
          BY <1>0, <3>3
        <5> QED
          BY <1>1, <1>4, <3>3, <5>1, Zenon DEF HeightDiffers
      <4>2. ASSUME p \in DOMAIN s PROVE ~IsTall(s, p)
        <5> DEFINE count == CodeCount(Len(frame), r)
        <5>1. DOMAIN s = 1 .. count /\ count \in Nat
          BY <2>3, CodesAre, CountIs
        <5>2. \A i \in DOMAIN s : s[i] # 13
          BY <4>1, Zenon DEF Tall
        <5> HIDE DEF s, count
        <5>3. \A i \in 1 .. p - 1 : i \in DOMAIN s
          BY <4>2, <5>1
        <5> QED
          BY <5>2, <5>3, Zenon DEF IsTall, Between
      <4> QED
        BY <4>2
    <3> QED
      BY <3>2, <3>3
  <2> HIDE DEF s
  <2>8. ASSUME p \in DOMAIN s
        PROVE  CellAt(frame, r, p) = CellByCode(frame, r, p)
    <3> DEFINE ch == CharByCode(s, p)
    <3>1. CellAt(frame, r, p) = [character |-> IF tall /\ IsTall(s, p) THEN ch.upper
                                                                       ELSE ch.single,
                                 attr |-> AttrAt(s, p)]
      BY <2>4, <2>6, <2>8
    <3>2. CellByCode(frame, r, p)
              = [character |-> IF r < MAX_ROWS - 2 /\ IsTall(s, p) THEN ch.upper
                                                                   ELSE ch.single,
                 attr |-> AttrAt(s, p)]
      BY <2>5, <2>8, Zenon DEF UpperCell
    <3> HIDE DEF ch
    <3>3. CASE tall /\ IsTall(s, p)
      <4>1. r < MAX_ROWS - 2 /\ IsTall(s, p)
        BY <2>7, <2>8, <3>3
      <4> QED
        BY <3>1, <3>2, <3>3, <4>1
    <3>4. CASE ~(tall /\ IsTall(s, p))
      <4>1. ~(r < MAX_ROWS - 2 /\ IsTall(s, p))
        BY <2>7, <2>8, <3>4
      <4> QED
        BY <3>1, <3>2, <3>4, <4>1
    <3> QED
      BY <3>3, <3>4
  <2> QED
    BY <2>5, <2>6, <2>8
<1> QED
  BY <1>3, <1>4

\* The cells are those that the codes of each row ask for by the rules of the
\* comments, whatever they are and however many rows and columns there are, except
\* where the program follows another rule: vt_decoder_decode(), which keeps the
\* serial attributes, the held mosaic and the ignored rows in flags from one byte to
\* the next, draws no other position otherwise than the definition that looks back
\* over the whole row.
THEOREM RowsMatch == FrameSpec => []RowsMatchReference
<1>1. FrameInit => RowInv(decoder)
  BY RowStart DEF FrameInit
<1>2. RowInv(decoder) /\ [FrameNext]_decoder => RowInv(decoder)'
  <2> SUFFICES ASSUME RowInv(decoder), [FrameNext]_decoder PROVE RowInv(decoder')
    OBVIOUS
  <2>1. ASSUME NEW b \in Displayed, Len(decoder.frame_buffer) < MAX_ROWS * MAX_COLS, Receive(b)
        PROVE  RowInv(decoder')
    BY <2>1, RowStep DEF Receive
  <2>2. CASE ToggleReveal
    BY <2>2, RevealStep DEF ToggleReveal
  <2>3. CASE UNCHANGED decoder
    BY <2>3
  <2> QED
    BY <2>1, <2>2, <2>3 DEF FrameNext
<1>3. RowInv(decoder) => RowsMatchReference
  <2> SUFFICES ASSUME RowInv(decoder), NEW r \in Rows, NEW p \in 1 .. MAX_COLS,
                      ~Differs(decoder.frame_buffer, r, p)
               PROVE  decoder.cells[<<r, p - 1>>] = CellAt(decoder.frame_buffer, r, p)
    BY DEF RowsMatchReference
  <2>1. decoder.cells[<<r, p - 1>>] = CellByCode(decoder.frame_buffer, r, p)
    BY DEF RowInv, Painted
  <2>2. decoder.frame_buffer \in Seq(Bytes)
    BY SMT DEF RowInv, Sound, DecoderStates
  <2> QED
    BY <2>1, <2>2, CellsAgree
<1> QED
  BY <1>1, <1>2, <1>3, PTL DEF FrameSpec
====
