---------------------------- MODULE ConfigProofs ----------------------------
(***************************************************************************)
(* Proofs about what the program holds of its configuration in module      *)
(* Startup, for any files, options, addresses and numbers typed:           *)
(*   - the array of entries matches the lines of the files, in order;      *)
(*   - what is allocated for entries and options is freed once;            *)
(*   - the variables keep their types, descriptors their bound;            *)
(*   - a host that is greeted is logged off, with the bytes of its line.   *)
(*                                                                         *)
(* The definitions of Startup that number the lines count positions, so    *)
(* that no induction over a file is needed: every line that is read adds   *)
(* one position to those that are read.                                    *)
(***************************************************************************)
EXTENDS StartupProofs

-----------------------------------------------------------------------------
(* The invariants, one of each part of the state.                          *)

\* The entry lines that have been read.
ReadTo ==
    {p \in EntryLines : p[1] < dir
                        \/ (p[1] = dir /\ p[2] <= Len(LinesOf(dir)) - Len(unread))}

\* What is unread is the end of the file, and the array has an entry of every
\* line before that, in order; main() knows the array when all is read.
LoadInv ==
    /\ files \in FileSets /\ dir \in 1 .. 4 /\ (pc = "load" => dir \in 1 .. 3)
    /\ pc \in {"options", "dispatch", "menu"} => Loaded
    /\ dir \in 1 .. 3 =>
          /\ unread \in Seq(Seq(Seq(Int))) /\ Len(unread) <= Len(LinesOf(dir))
          /\ \A i \in 1 .. Len(unread) :
                unread[i] = LinesOf(dir)[Len(LinesOf(dir)) - Len(unread) + i]
    /\ root.entries \in Seq(ToSet(root.entries))
    /\ Len(root.entries) = Cardinality(ReadTo)
    /\ \A k \in 1 .. Len(root.entries) : \E p \in ReadTo :
          NumberOf(p) = k /\ root.entries[k] \in EntriesOf(LineAt(p))
    /\ Loaded => rc_data = root.id /\ rc_data_count = Len(root.entries)

\* The arrays up to a place, and the strings of the options that were parsed.
Arrays(n)     == {ArrayPointer(id) : id \in 0 .. n - 1}
OptionStrings == {OptionPointer(n) : n \in 0 .. options - 1}

\* host and port are two strings of the options, or those of the entry chosen.
StringsInv ==
    /\ root.id \in Nat /\ rc_data \in Nat /\ rc_data_count \in Nat
    /\ options \in 0 .. MaxOptions
    /\ cwd \in {NULL, CwdPointer}
    /\ {"selected", "host", "port"} \subseteq DOMAIN session
    /\ session.selected \in 0 .. rc_data_count /\ (session.selected # 0 => Loaded)
    /\ session.host \in Strings /\ session.port \in Strings
    /\ session.selected = 0 =>
          /\ session.host \in {NULL} \cup OptionStrings
          /\ session.port \in {NULL} \cup OptionStrings
          /\ session.host # NULL => session.port # session.host
    /\ pc = "load" => session.selected = 0 /\ session.host = NULL /\ session.port = NULL

\* Only arrays that have moved are freed before the end, each in its place.
FreedInv ==
    /\ pc # "exited" =>
          /\ freed \in Seq(Arrays(root.id))
          /\ \A i, j \in DOMAIN freed : i # j => freed[i] # freed[j]
    /\ FreedOnce

\* How many descriptors, beyond those of the options, may be open at a place: one
\* of the host and one of the timer.
Level(step) ==
    IF step \in {"load", "options", "dispatch", "menu", "resolve", "connect"} THEN 0
    ELSE IF step \in {"connected", "preamble", "timer"} THEN 1 ELSE 2

\* As no descriptor is skipped, their number bounds them.
BoundInv == open \subseteq 3 .. 2 + (options + Level(pc))

\* The types of the variables that are no part of the above.
PlainInv ==
    /\ pc \in Steps /\ choice \in Int /\ addresses \in 0 .. MaxAddresses
    /\ peer \in BOOLEAN /\ terminate_received \in BOOLEAN /\ socket_closed \in BOOLEAN

\* While the host is there it is greeted before a loop, once, on a connection that
\* stays open until the end.
HelloInv ==
    /\ pc \in {"load", "options", "dispatch", "menu", "resolve", "connect"} => ~peer
    /\ pc \in {"load", "options", "dispatch", "menu", "resolve", "connect", "connected",
               "preamble"} => sent = << >>
    /\ pc = "connected" => ~peer \/ session.socket_fd \in open
    /\ pc = "preamble" => session.socket_fd \in open
    /\ pc \in {"timer", "session", "viewer", "cleanup"} =>
          \/ sent = << >> /\ ~peer
          \/ sent = << >> \o Preamble /\ session.socket_fd \in open
    /\ pc = "exited" /\ peer /\ sent # << >> => sent = << >> \o Preamble \o Postamble

-----------------------------------------------------------------------------
(* The numbers of the lines.                                               *)

\* The files of a run are three sequences of lines.
LEMMA LinesAreSequences ==
    ASSUME files \in FileSets, NEW d \in 1 .. 3
    PROVE  LinesOf(d) \in Seq(Seq(Seq(Int)))
<1>1. files[d] \in Seq(Seq(Seq(Int))) BY StartupAssumption
<1> QED BY <1>1 DEF LinesOf

\* What a position of an entry line is.
LEMMA PositionOfLine ==
    ASSUME files \in FileSets, NEW p
    PROVE  p \in EntryLines <=>
              \E d \in 1 .. 3 : \E i \in 1 .. Len(LinesOf(d)) :
                  p = <<d, i>> /\ LinesOf(d)[i] # Comment
<1>1. \A d \in 1 .. 3 : DOMAIN LinesOf(d) = 1 .. Len(LinesOf(d))
  BY LinesAreSequences
<1> QED BY <1>1, SMT DEF EntryLines, LineAt

\* There are finitely many entry lines.
LEMMA LinesAreFinite ==
    ASSUME files \in FileSets
    PROVE  IsFiniteSet(EntryLines)
<1> DEFINE At(d) == {d} \X (1 .. Len(LinesOf(d)))
<1>1. ASSUME NEW d \in 1 .. 3 PROVE IsFiniteSet(At(d))
  <2>1. Len(LinesOf(d)) \in Nat BY LinesAreSequences
  <2>2. IsFiniteSet(1 .. Len(LinesOf(d))) BY <2>1, FS_Interval
  <2>3. IsFiniteSet({d}) BY FS_Singleton
  <2> QED BY <2>2, <2>3, FS_Product, Zenon
<1>2. IsFiniteSet(At(1) \cup At(2) \cup At(3))
  <2>1. IsFiniteSet(At(1)) /\ IsFiniteSet(At(2)) /\ IsFiniteSet(At(3)) BY <1>1
  <2> HIDE DEF At
  <2> QED BY <2>1, FS_Union
<1>3. EntryLines \subseteq At(1) \cup At(2) \cup At(3)
  <2> SUFFICES ASSUME NEW p \in EntryLines PROVE p \in At(1) \cup At(2) \cup At(3)
    OBVIOUS
  <2>1. PICK d \in 1 .. 3 : \E i \in 1 .. Len(LinesOf(d)) : p = <<d, i>>
    BY PositionOfLine
  <2>2. p \in At(d) BY <2>1
  <2>3. d = 1 \/ d = 2 \/ d = 3 OBVIOUS
  <2> HIDE DEF At
  <2> QED BY <2>2, <2>3
<1> QED BY <1>2, <1>3, FS_Subset

\* No two entry lines have the same number.
LEMMA NumbersDiffer ==
    ASSUME files \in FileSets, NEW p \in EntryLines, NEW q \in EntryLines,
           NumberOf(p) = NumberOf(q)
    PROVE  p = q
<1> DEFINE UpTo(r) == {o \in EntryLines : Precedes(o, r)}
<1>1. /\ p = <<p[1], p[2]>> /\ p[1] \in Int /\ p[2] \in Int
      /\ q = <<q[1], q[2]>> /\ q[1] \in Int /\ q[2] \in Int
  BY PositionOfLine
<1>2. ASSUME NEW r \in EntryLines, NEW s \in EntryLines, Precedes(r, s),
             NumberOf(r) = NumberOf(s)
      PROVE  Precedes(s, r)
  <2>1. /\ r[1] \in Int /\ r[2] \in Int /\ s[1] \in Int /\ s[2] \in Int
        /\ \A o \in EntryLines : o[1] \in Int /\ o[2] \in Int
    BY PositionOfLine
  <2>2. UpTo(r) \subseteq UpTo(s)
    BY <1>2, <2>1 DEF Precedes
  <2>3. IsFiniteSet(UpTo(s))
    BY LinesAreFinite, FS_Subset
  <2>4. UpTo(s) = UpTo(r)
    BY <1>2, <2>2, <2>3, FS_Subset DEF NumberOf
  <2>5. s \in UpTo(s)
    BY <2>1 DEF Precedes
  <2> QED BY <2>4, <2>5
<1>3. Precedes(p, q) \/ Precedes(q, p)
  BY <1>1 DEF Precedes
<1>4. Precedes(p, q) /\ Precedes(q, p)
  BY <1>2, <1>3
<1> QED BY <1>1, <1>4 DEF Precedes

-----------------------------------------------------------------------------
(* Reading the files.                                                      *)

\* The files of a run stay as they are, and so do their lines and numbers.
LEMMA LinesAreKept ==
    ASSUME UNCHANGED config
    PROVE  /\ \A d : LinesOf(d)' = LinesOf(d)
           /\ EntryLines' = EntryLines
           /\ \A p : NumberOf(p)' = NumberOf(p)
           /\ \A p : LineAt(p)' = LineAt(p)
<1>1. \A d : LinesOf(d)' = LinesOf(d) BY DEF LinesOf, config
<1>2. \A p : LineAt(p)' = LineAt(p) BY <1>1 DEF LineAt
<1>3. EntryLines' = EntryLines BY <1>1, <1>2 DEF EntryLines
<1> QED BY <1>1, <1>2, <1>3 DEF NumberOf

\* The first unread line is the next of its file.
LEMMA FirstUnread ==
    ASSUME LoadInv, dir \in 1 .. 3, unread # << >>
    PROVE  LET n == Len(LinesOf(dir)) - Len(unread) + 1
           IN  /\ n \in 1 .. Len(LinesOf(dir)) /\ Head(unread) = LinesOf(dir)[n]
               /\ Tail(unread) \in Seq(Seq(Seq(Int)))
               /\ Len(Tail(unread)) = Len(unread) - 1
               /\ \A i \in 1 .. Len(Tail(unread)) :
                     Tail(unread)[i] = LinesOf(dir)[n + i]
<1> DEFINE L == LinesOf(dir)
           m == Len(L)
           n == m - Len(unread) + 1
<1>1. m \in Nat BY LinesAreSequences DEF LoadInv
<1>2. /\ unread \in Seq(Seq(Seq(Int))) /\ Len(unread) <= m
      /\ \A i \in 1 .. Len(unread) : unread[i] = L[m - Len(unread) + i]
  BY Zenon DEF LoadInv
<1> HIDE DEF m, L
<1>3. Len(unread) \in Nat \ {0} BY <1>2
<1>4. Head(unread) = unread[1] BY <1>2, <1>3
<1>5. unread[1] = L[n] BY <1>1, <1>2, <1>3
<1>6. /\ Tail(unread) \in Seq(Seq(Seq(Int)))
      /\ Len(Tail(unread)) = Len(unread) - 1
      /\ \A i \in 1 .. Len(Tail(unread)) : Tail(unread)[i] = unread[i + 1]
  BY <1>2, <1>3
<1>7. \A i \in 1 .. Len(Tail(unread)) : Tail(unread)[i] = L[n + i]
  <2> TAKE i \in 1 .. Len(Tail(unread))
  <2>1. i \in Int /\ i + 1 \in 1 .. Len(unread) BY <1>3, <1>6
  <2>2. Tail(unread)[i] = unread[i + 1] BY <1>6
  <2>3. unread[i + 1] = L[m - Len(unread) + (i + 1)] BY <1>2, <2>1
  <2>4. m - Len(unread) + (i + 1) = n + i BY <1>1, <1>3, <2>1
  <2> QED BY <2>2, <2>3, <2>4
<1>8. n \in 1 .. m BY <1>1, <1>2, <1>3
<1> QED BY <1>4, <1>5, <1>6, <1>7, <1>8 DEF m, L

\* Reading a line adds its position, if it is an entry.
LEMMA ReadToGrows ==
    ASSUME LoadInv, dir \in 1 .. 3, unread # << >>, UNCHANGED <<config, dir>>,
           unread' = Tail(unread)
    PROVE  LET p == <<dir, Len(LinesOf(dir)) - Len(unread) + 1>>
           IN  /\ Head(unread) = Comment => ReadTo' = ReadTo
               /\ Head(unread) # Comment =>
                     /\ p \in EntryLines /\ p \notin ReadTo /\ LineAt(p) = Head(unread)
                     /\ ReadTo' = ReadTo \cup {p}
                     /\ {q \in EntryLines : Precedes(q, p)} = ReadTo \cup {p}
<1> DEFINE m == Len(LinesOf(dir))
           n == m - Len(unread) + 1
           p == <<dir, n>>
<1>1. /\ m \in Nat /\ n \in 1 .. m
      /\ Head(unread) = LinesOf(dir)[n]
      /\ Len(unread') = Len(unread) - 1
  BY FirstUnread, LinesAreSequences DEF LoadInv
<1>2. Len(unread) \in Nat BY DEF LoadInv
<1>3. EntryLines' = EntryLines /\ LinesOf(dir)' = LinesOf(dir) BY LinesAreKept
<1>4. \A q \in EntryLines : /\ q = <<q[1], q[2]>> /\ q[1] \in Int /\ q[2] \in Int
                            /\ LinesOf(q[1])[q[2]] # Comment
  BY PositionOfLine DEF LoadInv
<1>5. LineAt(p) = Head(unread) BY <1>1 DEF LineAt
<1>6. Head(unread) # Comment => p \in EntryLines
  BY <1>1, PositionOfLine DEF LoadInv
<1>7. p[1] = dir /\ p[2] = n /\ dir \in Int /\ n \in Int BY <1>1
<1>8. Head(unread) = Comment => p \notin EntryLines
  BY <1>1, <1>4, <1>7
<1>9. Len(LinesOf(dir)') - Len(unread') = n BY <1>1, <1>2, <1>3
<1>10. Len(LinesOf(dir)) - Len(unread) = n - 1 BY <1>1, <1>2
<1> HIDE DEF m, n, p
<1>11. ReadTo' = {q \in EntryLines : q[1] < dir \/ (q[1] = dir /\ q[2] <= n)}
  BY <1>3, <1>9 DEF ReadTo
<1>12. ReadTo = {q \in EntryLines : q[1] < dir \/ (q[1] = dir /\ q[2] <= n - 1)}
  BY <1>10 DEF ReadTo
<1>13. {q \in EntryLines : Precedes(q, p)} = ReadTo'
  BY <1>7, <1>11 DEF Precedes
<1>14. \A q \in EntryLines : q[1] = dir /\ q[2] = n <=> q = p
  BY <1>4, <1>7 DEF p
<1>15. ReadTo' = ReadTo \cup ({p} \cap EntryLines)
  BY <1>4, <1>7, <1>11, <1>12, <1>14
<1>16. p \notin ReadTo BY <1>7, <1>12
<1>17. /\ Head(unread) = Comment => ReadTo' = ReadTo
       /\ Head(unread) # Comment => ReadTo' = ReadTo \cup {p}
  BY <1>6, <1>8, <1>15
<1> QED BY <1>5, <1>6, <1>13, <1>16, <1>17 DEF p, n, m

\* What is unread after a line was read is still the end of the file.
Unread ==
    dir \in 1 .. 3 =>
        /\ unread \in Seq(Seq(Seq(Int))) /\ Len(unread) <= Len(LinesOf(dir))
        /\ \A i \in 1 .. Len(unread) :
              unread[i] = LinesOf(dir)[Len(LinesOf(dir)) - Len(unread) + i]

\* Reading a line leaves the rest of the file unread.
LEMMA TailIsUnread ==
    ASSUME LoadInv, dir \in 1 .. 3, unread # << >>, UNCHANGED <<config, dir>>,
           unread' = Tail(unread)
    PROVE  Unread'
<1> DEFINE m == Len(LinesOf(dir))
<1>1. /\ Tail(unread) \in Seq(Seq(Seq(Int)))
      /\ Len(Tail(unread)) = Len(unread) - 1
      /\ \A i \in 1 .. Len(Tail(unread)) :
            Tail(unread)[i] = LinesOf(dir)[m - Len(unread) + 1 + i]
      /\ m \in Nat /\ Len(unread) \in Nat /\ Len(unread) <= m
  BY FirstUnread, LinesAreSequences DEF LoadInv
<1>2. LinesOf(dir)' = LinesOf(dir) BY LinesAreKept
<1>3. m - Len(unread) + 1 = m - (Len(unread) - 1) BY <1>1
<1> QED BY <1>1, <1>2, <1>3 DEF Unread

\* A comment changes neither the array nor what has been read.
LEMMA CommentKeepsLoad ==
    ASSUME LoadInv, SkipComment
    PROVE  LoadInv'
<1>1. /\ pc = "load" /\ dir \in 1 .. 3 /\ unread # << >> /\ Head(unread) = Comment
      /\ unread' = Tail(unread)
      /\ UNCHANGED <<pc, config, dir, root, rc_data, rc_data_count>>
  BY Zenon DEF SkipComment, LoadInv
<1>2. Unread' BY <1>1, TailIsUnread
<1>3. ReadTo' = ReadTo BY <1>1, ReadToGrows
<1>4. files' = files BY <1>1 DEF config
<1>5. \A p : NumberOf(p)' = NumberOf(p) /\ LineAt(p)' = LineAt(p) BY <1>1, LinesAreKept
<1> QED BY <1>1, <1>2, <1>3, <1>4, <1>5 DEF LoadInv, Unread, Loaded

\* An entry is added behind those of the lines before its own.
LEMMA EntryKeepsLoad ==
    ASSUME LoadInv, AddEntry
    PROVE  LoadInv'
<1> DEFINE p == <<dir, Len(LinesOf(dir)) - Len(unread) + 1>>
<1>1. /\ pc = "load" /\ dir \in 1 .. 3 /\ unread # << >> /\ Head(unread) # Comment
      /\ unread' = Tail(unread)
      /\ UNCHANGED <<pc, config, dir, rc_data, rc_data_count>>
  BY Zenon DEF AddEntry, LoadInv
<1>2. PICK entry \in EntriesOf(Head(unread)) : root'.entries = Append(root.entries, entry)
  <2>1. PICK entry \in EntriesOf(Head(unread)), id \in MayBeAt(root) :
            root' = Added(root, id, entry)
    BY Zenon DEF AddEntry
  <2>2. Added(root, id, entry).entries = Append(root.entries, entry) BY DEF Added
  <2> QED BY <2>1, <2>2, Zenon
<1>3. Unread' BY <1>1, TailIsUnread
<1>4. /\ p \in EntryLines /\ p \notin ReadTo /\ LineAt(p) = Head(unread)
      /\ ReadTo' = ReadTo \cup {p}
      /\ NumberOf(p) = Cardinality(ReadTo \cup {p})
  BY <1>1, ReadToGrows DEF NumberOf
<1>5. files' = files BY <1>1 DEF config
<1>6. \A q : NumberOf(q)' = NumberOf(q) /\ LineAt(q)' = LineAt(q) BY <1>1, LinesAreKept
<1> HIDE DEF p
<1> DEFINE n == Len(root.entries)
           S == ToSet(root.entries) \cup {entry}
           t == Append(root.entries, entry)
<1>7. root.entries \in Seq(S) /\ n \in Nat /\ entry \in S BY SMT DEF LoadInv
<1>8. /\ t \in Seq(S) /\ Len(t) = n + 1 /\ t[n + 1] = entry
      /\ \A k \in 1 .. n : t[k] = root.entries[k]
  BY <1>7
<1>9. t \in Seq(ToSet(t)) BY <1>8, SeqOfElements
<1>10. n = Cardinality(ReadTo) BY DEF LoadInv
<1>11. Cardinality(ReadTo \cup {p}) = n + 1
  <2>1. ReadTo \subseteq EntryLines BY DEF ReadTo
  <2>2. IsFiniteSet(ReadTo) BY <2>1, LinesAreFinite, FS_Subset DEF LoadInv
  <2> QED BY <2>2, <1>4, <1>10, FS_AddElement
<1>12. \A k \in 1 .. n : \E q \in ReadTo :
          NumberOf(q) = k /\ root.entries[k] \in EntriesOf(LineAt(q))
  BY DEF LoadInv
<1> HIDE DEF t, n, S
<1>13. \A k \in 1 .. n + 1 : \E q \in ReadTo \cup {p} :
          NumberOf(q) = k /\ t[k] \in EntriesOf(LineAt(q))
  <2> TAKE k \in 1 .. n + 1
  <2>1. CASE k = n + 1
    BY <2>1, <1>2, <1>4, <1>8, <1>11
  <2>2. CASE k \in 1 .. n
    BY <2>2, <1>8, <1>12
  <2> QED BY <2>1, <2>2, <1>7
<1>14. root'.entries = t /\ Len(t) = n + 1 BY <1>2, <1>8 DEF t
<1>15. /\ root'.entries \in Seq(ToSet(root'.entries))
       /\ Len(root'.entries) = Cardinality(ReadTo')
       /\ \A k \in 1 .. Len(root'.entries) : \E q \in ReadTo' :
             NumberOf(q) = k /\ root'.entries[k] \in EntriesOf(LineAt(q))
  BY <1>4, <1>9, <1>11, <1>13, <1>14
<1> HIDE DEF Unread
<1>16. ~Loaded' BY <1>1 DEF Loaded
<1> QED BY <1>1, <1>3, <1>5, <1>6, <1>15, <1>16 DEF LoadInv, Unread

\* The next file starts where one has been read to its end.
LEMMA FileKeepsLoad ==
    ASSUME LoadInv, FileLoaded
    PROVE  LoadInv'
<1>1. /\ pc = "load" /\ dir \in 1 .. 3 /\ unread = << >>
      /\ rc_data' = root.id /\ rc_data_count' = Len(root.entries)
      /\ dir' = dir + 1
      /\ unread' = (IF dir < 3 THEN LinesOf(dir + 1) ELSE << >>)
      /\ pc' = (IF dir < 3 THEN "load" ELSE "options")
      /\ UNCHANGED <<config, root>>
  BY Zenon DEF FileLoaded, LoadInv
<1>2. \A d : LinesOf(d)' = LinesOf(d) BY <1>1, LinesAreKept
<1>3. files' = files BY <1>1 DEF config
<1>4. /\ dir' \in 1 .. 4 /\ (pc' = "load" => dir' \in 1 .. 3)
      /\ pc' # "load" => dir' = 4
  BY <1>1
<1>5. Unread'
  <2> SUFFICES ASSUME dir' \in 1 .. 3 PROVE Unread' BY DEF Unread
  <2>1. dir < 3 BY <1>1
  <2>2. unread' = LinesOf(dir') BY <1>1, <2>1
  <2>3. LinesOf(dir') \in Seq(Seq(Seq(Int))) BY LinesAreSequences DEF LoadInv
  <2>4. LinesOf(dir)' = LinesOf(dir') BY <1>2
  <2> QED BY <2>2, <2>3, <2>4 DEF Unread
<1>6. ReadTo' = ReadTo
  <2>1. EntryLines' = EntryLines BY <1>1, LinesAreKept
  <2>2. \A q \in EntryLines : /\ q[1] \in 1 .. 3 /\ q[2] \in 1 .. Len(LinesOf(q[1]))
    BY PositionOfLine DEF LoadInv
  <2>3. \A d \in 1 .. 3 : Len(LinesOf(d)) \in Nat BY LinesAreSequences DEF LoadInv
  <2>4. ReadTo = {q \in EntryLines : q[1] < dir + 1}
    BY <1>1, <2>2, <2>3 DEF ReadTo
  <2>5. ReadTo' = {q \in EntryLines : q[1] < dir + 1}
    <3>1. CASE dir = 3
      BY <1>1, <2>1, <2>2, <3>1 DEF ReadTo
    <3>2. CASE dir < 3
      <4>1. Len(LinesOf(dir)') - Len(unread') = 0
        <5>1. unread' = LinesOf(dir)' BY <1>1, <1>2, <3>2
        <5>2. Len(unread') \in Nat BY <1>1, <3>2, <2>3
        <5> QED BY <5>1, <5>2
      <4>2. ReadTo' = {q \in EntryLines : q[1] < dir + 1 \/ (q[1] = dir + 1 /\ q[2] <= 0)}
        BY <1>1, <2>1, <4>1 DEF ReadTo
      <4>3. \A q \in EntryLines : q[2] \in Int /\ ~(q[2] <= 0)
        BY <2>2, <2>3
      <4> QED BY <4>2, <4>3
    <3> QED BY <1>1, <3>1, <3>2
  <2> QED BY <2>4, <2>5
<1>7. \A p : NumberOf(p)' = NumberOf(p) /\ LineAt(p)' = LineAt(p) BY <1>1, LinesAreKept
<1> QED BY <1>1, <1>3, <1>4, <1>5, <1>6, <1>7 DEF LoadInv, Unread, Loaded

\* The rest of the program does not touch what was read.
LEMMA OthersKeepLoad ==
    ASSUME LoadInv, UNCHANGED <<config, loading>>, pc' = "load" => pc = "load",
           pc' \in {"options", "dispatch", "menu"} => pc \in {"options", "dispatch", "menu"}
    PROVE  LoadInv'
<1>1. UNCHANGED <<files, dir, unread, root, rc_data, rc_data_count>>
  BY DEF config, loading
<1>2. /\ EntryLines' = EntryLines /\ \A d : LinesOf(d)' = LinesOf(d)
      /\ \A p : NumberOf(p)' = NumberOf(p) /\ LineAt(p)' = LineAt(p)
  BY LinesAreKept
<1>3. ReadTo' = ReadTo BY <1>1, <1>2 DEF ReadTo
<1>4. LinesOf(dir)' = LinesOf(dir) BY <1>1, <1>2
<1> QED BY <1>1, <1>2, <1>3, <1>4 DEF LoadInv, Loaded

\* Every step but those of vt_rc_load() leaves files and array alone.
LEMMA OthersKeepLoading ==
    ASSUME [Next]_vars, ~SkipComment, ~AddEntry, ~FileLoaded
    PROVE  /\ UNCHANGED <<config, loading>> /\ (pc' = "load" => pc = "load")
           /\ pc' \in {"options", "dispatch", "menu"} => pc \in {"options", "dispatch", "menu"}
<1>1. CASE LoadFails \/ SetAddress \/ SetShown \/ OpenStream \/ OptionFails \/ OptionsParsed
  BY <1>1, SMT DEF LoadFails, SetAddress, SetShown, OpenStream, OptionFails, OptionsParsed,
     Option, Abend
<1>2. CASE Dispatch
  <2>1. pc' \in {"cleanup", "timer", "menu", "resolve"}
    BY <1>2, SMT DEF Dispatch
  <2> QED BY <1>2, <2>1, SMT DEF Dispatch
<1>3. CASE TypeNumber \/ TypeOther
  <2>1. UNCHANGED <<config, loading>>
    BY <1>3, Zenon DEF TypeNumber, TypeOther
  <2>2. pc = "menu" /\ pc' \in {"resolve", "cleanup", "menu"}
    BY <1>3, Zenon DEF TypeNumber, TypeOther
  <2> QED BY <2>1, <2>2
<1>4. CASE Resolve \/ Connect \/ ConnectFails \/ NoAddressLeft \/ CheckSocket \/ SendPreamble
  BY <1>4, SMT DEF Resolve, Connect, ConnectFails, NoAddressLeft, CheckSocket, SendPreamble,
     Abend
<1>5. CASE CreateTimer \/ LeaveLoop \/ Cleanup \/ LoopFails \/ KeyNotSent
  <2>1. UNCHANGED <<config, loading>>
    BY <1>5, Zenon DEF CreateTimer, LeaveLoop, Cleanup, LoopFails, KeyNotSent
  <2>2. pc' \in {"session", "viewer", "cleanup", "exited"}
    BY <1>5, Zenon DEF CreateTimer, LeaveLoop, Cleanup, LoopFails, KeyNotSent, Abend
  <2> QED BY <2>1, <2>2
<1>6. CASE HostCloses \/ Signal \/ UNCHANGED vars
  BY <1>6, SMT DEF HostCloses, Signal, Abend, vars
<1> QED BY <1>1, <1>2, <1>3, <1>4, <1>5, <1>6, Zenon DEF Next, Program

\* Every step keeps what is read and what the array holds together.
LEMMA LoadIsKept == LoadInv /\ [Next]_vars => LoadInv'
BY CommentKeepsLoad, EntryKeepsLoad, FileKeepsLoad, OthersKeepLoad, OthersKeepLoading, Zenon

\* Nothing is read at the start.
LEMMA LoadStarts == Init => LoadInv
<1> SUFFICES ASSUME Init PROVE LoadInv OBVIOUS
<1>1. /\ files \in FileSets /\ pc = "load" /\ dir = 1 /\ unread = files[1]
      /\ root.entries = << >>
  BY DEF Init, NoArray
<1>2. LinesOf(1) = files[1] BY DEF LinesOf
<1>3. LinesOf(1) \in Seq(Seq(Seq(Int))) BY <1>1, LinesAreSequences
<1>4. ReadTo = {}
  <2>1. \A q \in EntryLines : q[1] \in 1 .. 3 /\ q[2] \in 1 .. Len(LinesOf(q[1]))
    BY <1>1, PositionOfLine
  <2>2. Len(LinesOf(1)) \in Nat BY <1>3
  <2>3. Len(LinesOf(dir)) - Len(unread) = 0 BY <1>1, <1>2, <2>2
  <2>4. \A d \in 1 .. 3 : Len(LinesOf(d)) \in Nat BY <1>1, LinesAreSequences
  <2>5. ReadTo = {q \in EntryLines : q[1] < 1 \/ (q[1] = 1 /\ q[2] <= 0)}
    BY <1>1, <2>3 DEF ReadTo
  <2>6. \A q \in EntryLines : q[2] \in Int /\ ~(q[2] <= 0) /\ q[1] \in Int /\ ~(q[1] < 1)
    BY <2>1, <2>4
  <2> QED BY <2>5, <2>6
<1>5. Cardinality(ReadTo) = 0 BY <1>4, FS_EmptySet
<1>6. << >> \in Seq(ToSet(<< >>)) OBVIOUS
<1>7. Unread
  <2> DEFINE L == LinesOf(1)
  <2>1. unread = L /\ LinesOf(dir) = L /\ L \in Seq(Seq(Seq(Int))) BY <1>1, <1>2, <1>3
  <2> HIDE DEF L
  <2>2. Len(L) \in Nat /\ \A i \in 1 .. Len(L) : L[Len(L) - Len(L) + i] = L[i] BY <2>1
  <2> QED BY <2>1, <2>2 DEF Unread
<1>8. /\ root.entries \in Seq(ToSet(root.entries))
      /\ Len(root.entries) = Cardinality(ReadTo)
      /\ Len(root.entries) = 0
  BY <1>1, <1>5, <1>6
<1>9. /\ files \in FileSets /\ dir \in 1 .. 4 /\ dir \in 1 .. 3 /\ ~Loaded
      /\ pc \notin {"options", "dispatch", "menu"}
  BY <1>1 DEF Loaded
<1>10. \A k \in 1 .. Len(root.entries) : FALSE BY <1>8
<1> QED BY <1>7, <1>8, <1>9, <1>10, Zenon DEF LoadInv, Unread

\* When all is read every entry is that of the line with its number.
LEMMA EntriesAreLines ==
    ASSUME LoadInv
    PROVE  EntriesMatchFiles
<1> SUFFICES ASSUME Loaded PROVE EntriesMatchFiles BY DEF EntriesMatchFiles
<1>1. dir = 4 /\ rc_data = root.id /\ rc_data_count = Len(root.entries)
  BY DEF LoadInv, Loaded
<1>2. ReadTo = EntryLines
  <2>1. \A q \in EntryLines : q[1] \in 1 .. 3 BY PositionOfLine DEF LoadInv
  <2> QED BY <1>1, <2>1 DEF ReadTo
<1> DEFINE n == Cardinality(EntryLines)
<1>3. n = Len(root.entries) /\ n \in Nat
  BY <1>2 DEF LoadInv
<1>4. /\ Len(ConfigLines) = n
      /\ \A k \in 1 .. n :
            ConfigLines[k] = LineAt(CHOOSE p \in EntryLines : NumberOf(p) = k)
  BY <1>3 DEF ConfigLines
<1>5. ASSUME NEW k \in 1 .. n PROVE root.entries[k] \in EntriesOf(ConfigLines[k])
  <2>1. PICK p \in EntryLines : NumberOf(p) = k /\ root.entries[k] \in EntriesOf(LineAt(p))
    BY <1>2, <1>3 DEF LoadInv
  <2>2. (CHOOSE q \in EntryLines : NumberOf(q) = k) = p
    BY <2>1, NumbersDiffer DEF LoadInv
  <2> QED BY <1>4, <2>1, <2>2
<1> HIDE DEF n
<1> QED BY <1>1, <1>3, <1>4, <1>5 DEF EntriesMatchFiles

\* "All will be read and when displaying the menu, all entries will be listed"
\* (vidtex.1:111): for any three files, and wherever realloc() moves the array, the
\* menu lists an entry of every line that is no comment, in order.
THEOREM EntriesMatch == Spec => []EntriesMatchFiles
<1>1. LoadInv => EntriesMatchFiles BY EntriesAreLines
<1> QED BY <1>1, LoadStarts, LoadIsKept, PTL DEF Spec

-----------------------------------------------------------------------------
(* The strings of the session.                                             *)

\* The session t has the strings and the fields of s.
SameStrings(s, t) ==
    /\ DOMAIN t = DOMAIN s
    /\ t.selected = s.selected /\ t.host = s.host /\ t.port = s.port

\* The numbers below a bound are below a larger one.
LEMMA IntervalGrows ==
    ASSUME NEW a \in Int, NEW b \in Int, a <= b
    PROVE  0 .. a - 1 \subseteq 0 .. b - 1
OBVIOUS

\* Steps that leave the strings, or only parse another option.
LEMMA OthersKeepStrings ==
    ASSUME StringsInv, SameStrings(session, session'),
           UNCHANGED <<dir, root, rc_data, rc_data_count, cwd>>,
           options' \in 0 .. MaxOptions, options <= options',
           pc' = "load" => pc = "load"
    PROVE  StringsInv'
<1>1. Strings' = Strings BY DEF Strings
<1>2. OptionStrings \subseteq OptionStrings'
  <2>1. options \in Int /\ options' \in Int BY StartupAssumption DEF StringsInv, Loaded
  <2>2. 0 .. options - 1 \subseteq 0 .. options' - 1 BY <2>1, IntervalGrows
  <2> QED BY <2>2, Zenon DEF OptionStrings
<1>3. session'.selected = 0 => session.selected = 0 BY DEF SameStrings
<1>4. /\ DOMAIN session' = DOMAIN session
      /\ session'.selected = session.selected
      /\ session'.host = session.host /\ session'.port = session.port
  BY DEF SameStrings
<1> QED BY <1>1, <1>2, <1>3, <1>4 DEF StringsInv, Loaded

\* --host and --port: the string of an option is that of no other.
LEMMA AddressKeepsStrings ==
    ASSUME StringsInv, SetAddress
    PROVE  StringsInv'
<1>1. /\ pc = "options" /\ pc' = pc /\ options < MaxOptions /\ options' = options + 1
      /\ UNCHANGED <<dir, root, rc_data, rc_data_count, cwd>>
  <2>1. /\ pc = "options" /\ pc' = pc /\ options < MaxOptions /\ options' = options + 1
        /\ UNCHANGED loading
    BY Zenon DEF SetAddress, Option
  <2> QED BY <2>1 DEF loading
<1>2. PICK string \in {OptionPointer(options), NULL} :
         session' \in {[session EXCEPT !.host = string], [session EXCEPT !.port = string]}
  BY <1>1, Zenon DEF SetAddress
<1>3. options \in 0 .. MaxOptions /\ options' \in 0 .. MaxOptions
  BY <1>1, StartupAssumption DEF StringsInv, Loaded
<1>4. string \in Strings /\ string \in {NULL} \cup OptionStrings'
  BY <1>1, <1>3 DEF Strings, OptionStrings
<1>5. string # NULL => string \notin {NULL} \cup OptionStrings
  BY <1>3 DEF OptionStrings, OptionPointer, NULL
<1>6. OptionStrings \subseteq OptionStrings' BY <1>1, <1>3 DEF OptionStrings
<1>7. Strings' = Strings BY <1>1 DEF Strings
<1>8. CASE session' = [session EXCEPT !.host = string]
  <2>1. /\ DOMAIN session' = DOMAIN session /\ session'.selected = session.selected
        /\ session'.host = string /\ session'.port = session.port
    BY <1>8 DEF StringsInv, Loaded
  <2> QED BY <1>1, <1>3, <1>4, <1>5, <1>6, <1>7, <2>1 DEF StringsInv, Loaded
<1>9. CASE session' = [session EXCEPT !.port = string]
  <2>1. /\ DOMAIN session' = DOMAIN session /\ session'.selected = session.selected
        /\ session'.host = session.host /\ session'.port = string
    BY <1>9 DEF StringsInv, Loaded
  <2> QED BY <1>1, <1>3, <1>4, <1>5, <1>6, <1>7, <2>1 DEF StringsInv, Loaded
<1> QED BY <1>2, <1>8, <1>9

\* The menu takes all three of an entry that is listed.
LEMMA MenuKeepsStrings ==
    ASSUME StringsInv, LoadInv, TypeNumber
    PROVE  StringsInv'
<1>1. /\ pc = "menu" /\ pc' \in {"resolve", "cleanup", "menu"}
      /\ UNCHANGED <<dir, root, rc_data, rc_data_count, cwd, options>>
  <2>1. UNCHANGED <<loading, options>> /\ pc = "menu" BY Zenon DEF TypeNumber
  <2>2. pc' \in {"resolve", "cleanup", "menu"} BY Zenon DEF TypeNumber
  <2> QED BY <2>1, <2>2 DEF loading
<1>2. PICK n \in Numbers :
         IF Listed(n)
         THEN session' = [session EXCEPT !.selected = n + 1,
                                         !.host = EntryPointer("host", n + 1),
                                         !.port = EntryPointer("port", n + 1)]
         ELSE UNCHANGED session
  BY Zenon DEF TypeNumber
<1>3. options \in 0 .. MaxOptions /\ n \in Int /\ rc_data_count \in Nat
  BY StartupAssumption DEF StringsInv, Loaded
<1>4. CASE ~Listed(n)
  <2>1. session' = session BY <1>2, <1>4
  <2>2. SameStrings(session, session') BY <2>1 DEF SameStrings
  <2> QED BY <1>1, <1>3, <2>2, OthersKeepStrings
<1>5. CASE Listed(n)
  <2>1. n + 1 \in 1 .. rc_data_count BY <1>3, <1>5 DEF Listed
  <2> DEFINE m == n + 1
             host == EntryPointer("host", m)
             port == EntryPointer("port", m)
  <2>2. session' = [session EXCEPT !.selected = m, !.host = host, !.port = port]
    BY <1>2, <1>5
  <2>3. host \in Strings /\ port \in Strings BY <2>1 DEF Strings
  <2> HIDE DEF m, host, port
  <2>4. /\ DOMAIN session' = DOMAIN session /\ session'.selected = m
        /\ session'.host = host /\ session'.port = port
    BY <2>2 DEF StringsInv, Loaded
  <2>5. m \in 0 .. rc_data_count /\ m # 0 BY <1>3, <2>1 DEF m
  <2>6. Strings' = Strings BY <1>1 DEF Strings
  <2>7. Loaded BY <1>1 DEF LoadInv
  <2> QED BY <1>1, <2>3, <2>4, <2>5, <2>6, <2>7 DEF StringsInv, Loaded
<1> QED BY <1>4, <1>5

\* While the files are read there are no strings yet.
LEMMA ReadingKeepsStrings ==
    ASSUME StringsInv, LoadInv, SkipComment \/ AddEntry \/ FileLoaded
    PROVE  StringsInv'
<1>1. pc = "load" /\ UNCHANGED <<session, options>>
  BY SMT DEF SkipComment, AddEntry, FileLoaded, asking
<1>2. NULL \in Strings' BY DEF Strings
<1>3. /\ root'.id \in Nat /\ rc_data' \in Nat /\ rc_data_count' \in Nat
      /\ cwd' \in {NULL, CwdPointer}
  <2>1. CASE SkipComment
    BY <2>1 DEF SkipComment, StringsInv
  <2>2. CASE AddEntry
    <3>1. PICK entry \in EntriesOf(Head(unread)), id \in MayBeAt(root) :
              root' = Added(root, id, entry)
      BY <2>2, Zenon DEF AddEntry
    <3>2. id \in Nat BY DEF MayBeAt, StringsInv
    <3>3. root'.id = id BY <3>1 DEF Added
    <3>4. UNCHANGED <<rc_data, rc_data_count, cwd>> BY <2>2, Zenon DEF AddEntry
    <3> QED BY <3>2, <3>3, <3>4 DEF StringsInv
  <2>3. CASE FileLoaded
    <3>1. /\ root' = root /\ rc_data' = root.id /\ rc_data_count' = Len(root.entries)
          /\ cwd' = cwd \/ cwd' = CwdPointer
      BY <2>3, Zenon DEF FileLoaded
    <3>2. Len(root.entries) \in Nat BY DEF LoadInv
    <3> QED BY <3>1, <3>2 DEF StringsInv
  <2> QED BY <2>1, <2>2, <2>3
<1>4. /\ session.selected = 0 /\ session.host = NULL /\ session.port = NULL
  BY <1>1 DEF StringsInv
<1> QED BY <1>1, <1>2, <1>3, <1>4 DEF StringsInv

\* Setting another field keeps the strings.
LEMMA FieldKeepsStrings ==
    ASSUME NEW s, NEW field, field \notin {"selected", "host", "port"}, NEW value
    PROVE  SameStrings(s, [s EXCEPT ![field] = value])
BY SMT DEF SameStrings

\* The other options open files and set flags.
LEMMA OptionKeepsStrings ==
    ASSUME StringsInv, SetShown \/ OpenStream \/ OptionFails
    PROVE  StringsInv'
<1>1. /\ UNCHANGED loading /\ pc = "options" /\ options < MaxOptions /\ options' = options + 1
      /\ pc' = "options" \/ pc' = "cleanup"
  BY Zenon DEF SetShown, OpenStream, OptionFails, Option, Abend
<1>2. SameStrings(session, session')
  <2>1. CASE session' = session BY <2>1 DEF SameStrings
  <2>2. \/ session' = session
        \/ \E value : \/ session' = [session EXCEPT !["show_menu"] = value]
                      \/ session' = [session EXCEPT !["show_text"] = value]
                      \/ session' = [session EXCEPT !["dump_fd"] = value]
                      \/ session' = [session EXCEPT !["trace_fd"] = value]
                      \/ session' = [session EXCEPT !["load_fd"] = value]
    BY Zenon DEF SetShown, OpenStream, OptionFails
  <2>3. \A value : /\ SameStrings(session, [session EXCEPT !["show_menu"] = value])
                   /\ SameStrings(session, [session EXCEPT !["show_text"] = value])
                   /\ SameStrings(session, [session EXCEPT !["dump_fd"] = value])
                   /\ SameStrings(session, [session EXCEPT !["trace_fd"] = value])
                   /\ SameStrings(session, [session EXCEPT !["load_fd"] = value])
    BY FieldKeepsStrings
  <2> QED BY <2>1, <2>2, <2>3, Zenon
<1>3. options' \in 0 .. MaxOptions /\ options <= options'
  BY <1>1, StartupAssumption DEF StringsInv
<1> QED BY <1>1, <1>2, <1>3, OthersKeepStrings DEF loading

\* What comes after the options sets none.
LEMMA RestKeepsStrings ==
    ASSUME StringsInv, [Next]_vars, ~SkipComment, ~AddEntry, ~FileLoaded, ~SetAddress,
           ~SetShown, ~OpenStream, ~OptionFails, ~TypeNumber
    PROVE  StringsInv'
<1>1. UNCHANGED <<config, loading>> /\ (pc' = "load" => pc = "load") BY OthersKeepLoading
<1>2. UNCHANGED options
  BY Zenon DEF Next, Program, LoadFails, OptionsParsed, Dispatch, Resolve, Connect, ConnectFails,
     NoAddressLeft, CheckSocket, SendPreamble, CreateTimer, LeaveLoop, Cleanup, TypeOther,
     LoopFails, KeyNotSent, HostCloses, Signal, asking, vars
<1>3. \/ session' = session
      \/ \E value : \/ session' = [session EXCEPT !["socket_fd"] = value]
                    \/ session' = [session EXCEPT !["flash_timer_fd"] = value]
  BY Zenon DEF Next, Program, LoadFails, OptionsParsed, Dispatch, Resolve, Connect, ConnectFails,
     NoAddressLeft, CheckSocket, SendPreamble, CreateTimer, LeaveLoop, Cleanup, TypeOther,
     LoopFails, KeyNotSent, HostCloses, Signal, vars
<1>4. SameStrings(session, session')
  <2>1. CASE session' = session BY <2>1 DEF SameStrings
  <2>2. \A value : /\ SameStrings(session, [session EXCEPT !["socket_fd"] = value])
                   /\ SameStrings(session, [session EXCEPT !["flash_timer_fd"] = value])
    BY FieldKeepsStrings
  <2> QED BY <1>3, <2>1, <2>2, Zenon
<1>5. options' \in 0 .. MaxOptions /\ options <= options'
  BY <1>2, StartupAssumption DEF StringsInv
<1> QED BY <1>1, <1>4, <1>5, OthersKeepStrings DEF loading

\* Every step keeps host and port the strings of an option or of the entry chosen.
LEMMA StringsAreKept == StringsInv /\ LoadInv /\ [Next]_vars => StringsInv'
BY AddressKeepsStrings, MenuKeepsStrings, ReadingKeepsStrings, OptionKeepsStrings,
   RestKeepsStrings, Zenon

\* There are no strings at the start.
LEMMA StringsStart == Init => StringsInv
<1> SUFFICES ASSUME Init PROVE StringsInv OBVIOUS
<1>1. /\ root.id = 0 /\ rc_data = 0 /\ rc_data_count = 0 /\ cwd = NULL /\ options = 0
      /\ session.selected = 0 /\ session.host = NULL /\ session.port = NULL
      /\ {"selected", "host", "port"} \subseteq DOMAIN session
  BY SMT DEF Init, NoArray
<1>2. NULL \in Strings BY DEF Strings
<1> QED BY <1>1, <1>2, StartupAssumption DEF StringsInv

-----------------------------------------------------------------------------
(* What is freed.                                                          *)

\* No pointer but NULL is in a sequence twice.
Once(s) == \A i, j \in DOMAIN s : i # j /\ s[i] # NULL => s[j] # s[i]

\* A sequence of pointers of a set, each once; two sets without a common pointer.
OnceOf(s, S) == s \in Seq(S) /\ Once(s)
Differ(S, T) == \A x \in S, y \in T : x # NULL => x # y

\* Two sequences of different pointers one after the other.
LEMMA ConcatOnce ==
    ASSUME NEW S, NEW T, NEW s, NEW t, OnceOf(s, S), OnceOf(t, T), Differ(S, T)
    PROVE  OnceOf(s \o t, S \cup T)
<1> DEFINE m == Len(s)
           n == Len(t)
           u == s \o t
<1>1. /\ m \in Nat /\ n \in Nat /\ DOMAIN s = 1 .. m /\ DOMAIN t = 1 .. n
      /\ \A i \in 1 .. m : s[i] \in S
      /\ \A i \in 1 .. n : t[i] \in T
      /\ s \in Seq(S) /\ t \in Seq(T) /\ Once(s) /\ Once(t)
  BY DEF OnceOf
<1>2. /\ u \in Seq(S \cup T) /\ Len(u) = m + n /\ DOMAIN u = 1 .. m + n
  BY <1>1, SMT
<1>3. /\ \A i \in 1 .. m : u[i] = s[i]
      /\ \A i \in m + 1 .. m + n : u[i] = t[i - m]
  BY <1>1, SMT
<1> HIDE DEF m, n, u
<1>4. ASSUME NEW i \in 1 .. m + n, NEW j \in 1 .. m + n, i # j, u[i] # NULL
      PROVE  u[j] # u[i]
  <2>1. CASE i \in 1 .. m /\ j \in 1 .. m
    BY <1>1, <1>3, <1>4, <2>1 DEF Once
  <2>2. CASE i \in 1 .. m /\ j \in m + 1 .. m + n
    <3>1. j - m \in 1 .. n BY <1>1, <2>2
    <3> QED BY <1>1, <1>3, <1>4, <2>2, <3>1 DEF Differ
  <2>3. CASE i \in m + 1 .. m + n /\ j \in 1 .. m
    <3>1. i - m \in 1 .. n BY <1>1, <2>3
    <3>2. u[j] \in S /\ u[i] \in T BY <1>1, <1>3, <2>3, <3>1
    <3> QED BY <1>4, <3>2 DEF Differ
  <2>4. CASE i \in m + 1 .. m + n /\ j \in m + 1 .. m + n
    <3>1. i - m \in 1 .. n /\ j - m \in 1 .. n /\ i - m # j - m BY <1>1, <1>4, <2>4
    <3>2. u[i] = t[i - m] /\ u[j] = t[j - m] BY <1>3, <2>4
    <3> QED BY <1>1, <1>4, <3>1, <3>2 DEF Once
  <2> QED BY <1>1, <2>1, <2>2, <2>3, <2>4
<1> QED BY <1>2, <1>4 DEF Once, OnceOf, u

\* The strings of the entries.
EntryStrings == {EntryPointer(field, i) : field \in {"name", "host", "port"}, i \in Nat}

\* Each string of each entry is freed once.
LEMMA EntriesFreedOnce ==
    ASSUME rc_data_count \in Nat
    PROVE  OnceOf(EntryFrees, EntryStrings)
<1> DEFINE n == 3 * rc_data_count
           names == <<"name", "host", "port">>
           F(k) == names[((k - 1) % 3) + 1]
           I(k) == (k - 1) \div 3 + 1
<1>1. n \in Nat OBVIOUS
<1>2. \A k \in 1 .. n : /\ (k - 1) % 3 \in 0 .. 2 /\ (k - 1) \div 3 \in Nat
                        /\ k - 1 = 3 * ((k - 1) \div 3) + ((k - 1) % 3)
  OBVIOUS
<1>3. \A k \in 1 .. n : F(k) \in {"name", "host", "port"} /\ I(k) \in Nat
  BY <1>2
<1>4. ASSUME NEW k \in 1 .. n, NEW l \in 1 .. n, F(k) = F(l), I(k) = I(l)
      PROVE  k = l
  <2>1. (k - 1) % 3 = (l - 1) % 3 BY <1>2, <1>4
  <2>2. (k - 1) \div 3 = (l - 1) \div 3 BY <1>2, <1>4
  <2> QED BY <1>2, <2>1, <2>2
<1>5. EntryFrees = [k \in 1 .. n |-> EntryPointer(F(k), I(k))]
  BY DEF EntryFrees
<1> HIDE DEF n, F, I
<1>6. \A k \in 1 .. n : EntryFrees[k] = <<F(k), I(k)>> BY <1>5 DEF EntryPointer
<1>7. \A k \in 1 .. n : EntryPointer(F(k), I(k)) \in EntryStrings
  BY <1>3 DEF EntryStrings
<1>8. EntryFrees \in Seq(EntryStrings) /\ DOMAIN EntryFrees = 1 .. n
  BY <1>1, <1>5, <1>7
<1> QED BY <1>4, <1>6, <1>8 DEF Once, OnceOf

\* A sequence of one pointer, and one of two that are not the same.
LEMMA OneIsOnce ==
    ASSUME NEW x
    PROVE  OnceOf(<<x>>, {x})
<1>1. DOMAIN <<x>> = {1} OBVIOUS
<1> QED BY <1>1 DEF Once, OnceOf

\* Two pointers that differ, or are NULL, are each there once.
LEMMA TwoAreOnce ==
    ASSUME NEW S, NEW x \in S, NEW y \in S, x # NULL => y # x
    PROVE  OnceOf(<<x, y>>, S)
<1>1. DOMAIN <<x, y>> = {1, 2} /\ <<x, y>>[1] = x /\ <<x, y>>[2] = y OBVIOUS
<1>2. y # NULL => x # y OBVIOUS
<1> QED BY <1>1, <1>2, SMT DEF Once, OnceOf

\* In no pointers none is there twice.
LEMMA NoneIsOnce == ASSUME NEW S PROVE OnceOf(<< >>, S)
<1>1. DOMAIN << >> = {} OBVIOUS
<1> QED BY <1>1 DEF Once, OnceOf

\* What vt_rc_free() frees when all is loaded: the strings of every entry, the
\* array where it is now and the directory.
LEMMA RcFreedOnce ==
    ASSUME LoadInv, StringsInv, Loaded
    PROVE  OnceOf(RcFrees, (EntryStrings \cup {ArrayPointer(root.id)}) \cup {CwdPointer})
<1> DEFINE A == EntryStrings \cup {ArrayPointer(root.id)}
           s == IF rc_data_count = 0 THEN << >> ELSE EntryFrees \o <<ArrayPointer(rc_data)>>
           t == IF cwd = NULL THEN << >> ELSE <<cwd>>
<1>1. OnceOf(s, A)
  <2>1. CASE rc_data_count = 0
    BY <2>1, NoneIsOnce
  <2>2. CASE rc_data_count # 0
    <3>1. OnceOf(EntryFrees, EntryStrings)
      BY EntriesFreedOnce DEF StringsInv
    <3> DEFINE x == ArrayPointer(root.id)
    <3>2. OnceOf(<<x>>, {x}) BY OneIsOnce
    <3>3. Differ(EntryStrings, {x})
      BY DEF Differ, EntryStrings, EntryPointer, ArrayPointer
    <3>4. OnceOf(EntryFrees \o <<x>>, EntryStrings \cup {x})
      <4> HIDE DEF x
      <4> QED BY <3>1, <3>2, <3>3, ConcatOnce, Zenon
    <3>5. rc_data = root.id BY DEF LoadInv
    <3> QED BY <2>2, <3>4, <3>5
  <2> QED BY <2>1, <2>2
<1>2. OnceOf(t, {CwdPointer})
  <2>1. CASE cwd = NULL BY <2>1, NoneIsOnce
  <2>2. CASE cwd = CwdPointer /\ cwd # NULL BY <2>2, OneIsOnce
  <2> QED BY <2>1, <2>2 DEF StringsInv
<1>3. Differ(A, {CwdPointer})
  BY DEF Differ, EntryStrings, EntryPointer, ArrayPointer, CwdPointer
<1>4. RcFrees = s \o t BY DEF RcFrees
<1> HIDE DEF A, s, t
<1>5. OnceOf(s \o t, A \cup {CwdPointer})
  BY <1>1, <1>2, <1>3, ConcatOnce, Zenon
<1> QED BY <1>4, <1>5 DEF A

\* And host and port, if they belong to the options.
LEMMA OptionsFreedOnce ==
    ASSUME StringsInv
    PROVE  OnceOf(OptionFrees, {NULL} \cup OptionStrings)
<1>1. CASE session.selected = 0
  <2>1. OptionFrees = <<session.host, session.port>> BY <1>1 DEF OptionFrees
  <2>2. /\ session.host \in {NULL} \cup OptionStrings
        /\ session.port \in {NULL} \cup OptionStrings
        /\ session.host # NULL => session.port # session.host
    BY <1>1 DEF StringsInv
  <2> QED BY <2>1, <2>2, TwoAreOnce
<1>2. CASE session.selected # 0
  <2>1. OptionFrees = << >> BY <1>2 DEF OptionFrees
  <2> QED BY <2>1, NoneIsOnce
<1> QED BY <1>1, <1>2

\* vt_cleanup() frees none of what has been freed, and nothing twice.
LEMMA CleanupFreesOnce ==
    ASSUME LoadInv, StringsInv, FreedInv, Cleanup
    PROVE  FreedOnce'
<1> SUFFICES ASSUME Loaded' PROVE FreedOnce' BY DEF FreedOnce
<1>1. Loaded /\ pc = "cleanup" /\ freed' = freed \o RcFrees \o OptionFrees
  <2>1. UNCHANGED loading BY Zenon DEF Cleanup
  <2>2. dir' = dir BY <2>1 DEF loading
  <2> QED BY <2>2, Zenon DEF Loaded, Cleanup
<1> DEFINE A == Arrays(root.id)
           B == (EntryStrings \cup {ArrayPointer(root.id)}) \cup {CwdPointer}
           C == {NULL} \cup OptionStrings
<1>2. OnceOf(freed, A) BY <1>1 DEF FreedInv, Once, OnceOf
<1>3. OnceOf(RcFrees, B) BY <1>1, RcFreedOnce
<1>4. OnceOf(OptionFrees, C) BY OptionsFreedOnce
<1>5. Differ(A, B)
  BY DEF Differ, Arrays, EntryStrings, EntryPointer, ArrayPointer, CwdPointer, StringsInv
<1>6. Differ(A \cup B, C)
  BY DEF Differ, Arrays, EntryStrings, EntryPointer, ArrayPointer, CwdPointer, OptionStrings, OptionPointer,
         NULL
<1> HIDE DEF A, B, C
<1>7. OnceOf(freed \o RcFrees, A \cup B)
  BY <1>2, <1>3, <1>5, ConcatOnce, Zenon
<1>8. OnceOf(freed \o RcFrees \o OptionFrees, (A \cup B) \cup C)
  BY <1>4, <1>6, <1>7, ConcatOnce, Zenon
<1>9. Once(freed') BY <1>1, <1>8 DEF OnceOf
<1> QED BY <1>9, Zenon DEF FreedOnce, Once

\* Before the end realloc() frees arrays that have moved, each to a new place.
LEMMA MovingKeepsFreed ==
    ASSUME StringsInv, FreedInv, AddEntry
    PROVE  FreedInv'
<1>1. pc = "load" /\ pc' = "load" BY Zenon DEF AddEntry
<1>2. PICK entry \in EntriesOf(Head(unread)), id \in MayBeAt(root) :
         /\ root' = Added(root, id, entry)
         /\ freed' = IF root # NoArray /\ id # root.id
                     THEN Append(freed, ArrayPointer(root.id)) ELSE freed
  BY Zenon DEF AddEntry
<1>3. root'.id = id BY <1>2 DEF Added
<1>4. /\ freed \in Seq(Arrays(root.id)) /\ root.id \in Nat
      /\ \A i, j \in DOMAIN freed : i # j => freed[i] # freed[j]
  BY <1>1 DEF FreedInv, StringsInv
<1>5. freed' \in Seq(Arrays(id)) /\ \A i, j \in DOMAIN freed' : i # j => freed'[i] # freed'[j]
  <2>1. CASE root = NoArray
    <3>1. root.id = 0 BY <2>1 DEF NoArray
    <3>2. id = 1 BY <2>1 DEF MayBeAt
    <3>3. Arrays(0) \subseteq Arrays(1) BY DEF Arrays
    <3>4. freed' = freed BY <1>2, <2>1
    <3>5. freed \in Seq(Arrays(1)) BY <1>4, <3>1, <3>3
    <3> QED BY <1>4, <3>2, <3>4, <3>5
  <2>2. CASE root # NoArray /\ id = root.id
    BY <1>2, <1>4, <2>2
  <2>3. CASE root # NoArray /\ id # root.id
    <3> DEFINE x == ArrayPointer(root.id)
               t == Append(freed, x)
               n == Len(freed)
    <3>1. id = root.id + 1 BY <2>3 DEF MayBeAt
    <3>2. freed' = t BY <1>2, <2>3
    <3>3. x \in Arrays(id) BY <1>4, <3>1 DEF Arrays
    <3>4. Arrays(root.id) \subseteq Arrays(id) BY <1>4, <3>1 DEF Arrays
    <3>5. x \notin Arrays(root.id) BY <1>4 DEF Arrays, ArrayPointer
    <3> HIDE DEF x
    <3>6. freed \in Seq(Arrays(id)) /\ n \in Nat /\ DOMAIN freed = 1 .. n BY <1>4, <3>4
    <3>7. /\ t \in Seq(Arrays(id)) /\ DOMAIN t = 1 .. n + 1 /\ t[n + 1] = x
          /\ \A i \in 1 .. n : t[i] = freed[i] /\ freed[i] \in Arrays(root.id)
      BY <1>4, <3>3, <3>6
    <3> HIDE DEF t, n
    <3>8. ASSUME NEW i \in 1 .. n + 1, NEW j \in 1 .. n + 1, i # j PROVE t[i] # t[j]
      <4>1. CASE i \in 1 .. n /\ j \in 1 .. n
        BY <1>4, <3>6, <3>7, <3>8, <4>1
      <4>2. CASE i = n + 1 \/ j = n + 1
        <5>1. i \in 1 .. n \/ j \in 1 .. n BY <3>6, <3>8
        <5> QED BY <3>5, <3>7, <4>2, <5>1
      <4> QED BY <3>6, <4>1, <4>2
    <3> QED BY <3>2, <3>7, <3>8
  <2> QED BY <2>1, <2>2, <2>3
<1>6. FreedOnce' BY <1>5 DEF FreedOnce
<1>7. Arrays(root.id)' = Arrays(id) BY <1>3 DEF Arrays
<1> QED BY <1>5, <1>6, <1>7 DEF FreedInv

\* Only vt_get_rc() and vt_cleanup() free anything.
LEMMA OthersKeepFreed ==
    ASSUME FreedInv, [Next]_vars, ~AddEntry, ~Cleanup
    PROVE  FreedInv'
<1>1. UNCHANGED <<freed, root>>
  <2>1. UNCHANGED freed
    BY Zenon DEF Next, Program, SkipComment, LoadFails, FileLoaded, SetAddress, SetShown,
       OpenStream, OptionFails, Option, OptionsParsed, Dispatch, TypeNumber, TypeOther, Resolve,
       Connect, ConnectFails, NoAddressLeft, CheckSocket, SendPreamble, CreateTimer, LeaveLoop,
       LoopFails, KeyNotSent, HostCloses, Signal, vars
  <2>2. UNCHANGED loading \/ UNCHANGED root
    BY OthersKeepLoading, Zenon DEF SkipComment, FileLoaded
  <2> QED BY <2>1, <2>2 DEF loading
<1>2. pc = "exited" => pc' = "exited" /\ UNCHANGED dir
  <2> SUFFICES ASSUME pc = "exited" PROVE pc' = "exited" /\ UNCHANGED dir OBVIOUS
  <2>1. HostCloses \/ UNCHANGED vars
    BY SMT DEF Next, Program, SkipComment, LoadFails, FileLoaded, SetAddress, SetShown,
       OpenStream, OptionFails, Option, OptionsParsed, Dispatch, TypeNumber, TypeOther, Resolve,
       Connect, ConnectFails, NoAddressLeft, CheckSocket, SendPreamble, CreateTimer, LeaveLoop,
       LoopFails, KeyNotSent, Signal
  <2> QED BY <2>1, SMT DEF HostCloses, vars, loading
<1>3. freed' = freed /\ Arrays(root.id)' = Arrays(root.id)
  BY <1>1 DEF Arrays
<1>4. pc' # "exited" => FreedOnce'
  BY <1>2, <1>3, SMT DEF FreedInv, FreedOnce
<1>5. pc' = "exited" => FreedOnce'
  <2> SUFFICES ASSUME pc' = "exited" PROVE FreedOnce' OBVIOUS
  <2>1. CASE pc = "exited" BY <1>2, <1>3, <2>1 DEF FreedInv, FreedOnce, Loaded
  <2>2. CASE pc # "exited" BY <1>3, <2>2 DEF FreedInv, FreedOnce
  <2> QED BY <2>1, <2>2
<1> QED BY <1>2, <1>3, <1>4, <1>5, Zenon DEF FreedInv

\* Every step frees only what was not freed before.
LEMMA FreedIsKept == LoadInv /\ StringsInv /\ FreedInv /\ [Next]_vars => FreedInv'
<1>1. ASSUME LoadInv, StringsInv, FreedInv, Cleanup PROVE FreedInv'
  <2>1. pc' = "exited" BY <1>1, Zenon DEF Cleanup
  <2> QED BY <1>1, <2>1, CleanupFreesOnce, Zenon DEF FreedInv
<1> QED BY <1>1, MovingKeepsFreed, OthersKeepFreed, Zenon

\* Nothing is freed at the start.
LEMMA FreedStarts == Init => FreedInv
<1> SUFFICES ASSUME Init PROVE FreedInv OBVIOUS
<1>1. freed = << >> BY Zenon DEF Init
<1>2. /\ freed \in Seq(Arrays(root.id))
      /\ DOMAIN freed = {}
  BY <1>1
<1> QED BY <1>2, SMT DEF FreedInv, FreedOnce

\* Wherever the program ends, free() gets no pointer twice: not an array that
\* realloc() has moved, no string of an entry that host or port point to, and no
\* string of an option.
THEOREM EverythingFreedOnce == Spec => []FreedOnce
<1>1. Init => LoadInv /\ StringsInv /\ FreedInv
  BY LoadStarts, StringsStart, FreedStarts
<1>2. (LoadInv /\ StringsInv /\ FreedInv) /\ [Next]_vars
         => (LoadInv /\ StringsInv /\ FreedInv)'
  BY LoadIsKept, StringsAreKept, FreedIsKept
<1>3. FreedInv => FreedOnce BY Zenon DEF FreedInv
<1> QED BY <1>1, <1>2, <1>3, PTL DEF Spec

-----------------------------------------------------------------------------
(* Types and bounds.                                                       *)

\* The kernel gives one of the first descriptors.
LEMMA NewFdIsLow ==
    ASSUME NEW b \in Nat, open \subseteq 3 .. 2 + b
    PROVE  NewFd \in 3 .. 2 + (b + 1)
<1> DEFINE n == Cardinality(open)
           S == {fd \in 3 .. 3 + n : fd \notin open}
<1>1. IsFiniteSet(3 .. 2 + b) /\ Cardinality(3 .. 2 + b) = b
  <2>1. 3 \in Int /\ 2 + b \in Int OBVIOUS
  <2>2. IsFiniteSet(3 .. 2 + b)
        /\ Cardinality(3 .. 2 + b) = IF 3 > 2 + b THEN 0 ELSE (2 + b) - 3 + 1
    BY <2>1, FS_Interval, Zenon
  <2> QED BY <2>2
<1>2. IsFiniteSet(open) /\ n <= b BY <1>1, FS_Subset
<1>3. n \in Nat BY <1>2, FS_CardinalityType
<1>4. NewFd \in Nat /\ NewFd \notin open BY <1>2, NewFdIsNew
<1>5. S # {}
  <2> SUFFICES ASSUME S = {} PROVE FALSE OBVIOUS
  <2>1. 3 .. 3 + n \subseteq open OBVIOUS
  <2>2. Cardinality(3 .. 3 + n) <= n BY <1>2, <2>1, FS_Subset
  <2>3. Cardinality(3 .. 3 + n) = n + 1
    <3>1. 3 \in Int /\ 3 + n \in Int BY <1>3
    <3>2. Cardinality(3 .. 3 + n) = IF 3 > 3 + n THEN 0 ELSE (3 + n) - 3 + 1
      BY <3>1, FS_Interval, Zenon
    <3> QED BY <1>3, <3>2
  <2> QED BY <1>3, <2>2, <2>3
<1>6. S \subseteq Nat BY <1>3
<1>7. Min(S) \in S BY <1>5, <1>6, MinIsElement
<1>8. NewFd = Min(S) BY Zenon DEF NewFd
<1>9. \A fd \in S : fd \in 3 .. 3 + n OBVIOUS
<1> HIDE DEF S, n
<1>10. NewFd \in 3 .. 3 + n BY <1>7, <1>8, <1>9
<1> QED BY <1>2, <1>3, <1>10

\* The places by level; cleanup and the loops are the last.
LEMMA Levels ==
    /\ \A step \in {"load", "options", "dispatch", "menu", "resolve", "connect"} :
          Level(step) = 0
    /\ \A step \in {"connected", "preamble", "timer"} : Level(step) = 1
    /\ \A step \in {"session", "viewer", "cleanup", "exited"} : Level(step) = 2
    /\ \A step : Level(step) \in 0 .. 2
BY DEF Level

\* The level of a place is a number.
LEMMA LevelType == \A step : Level(step) \in Nat
BY DEF Level

\* A step that opens one descriptor more, with one option more or at a higher place.
LEMMA OpeningKeepsBound ==
    ASSUME BoundInv, options \in Nat, options' \in Nat, open' = open \cup {NewFd},
           options' + Level(pc') >= options + Level(pc) + 1
    PROVE  BoundInv'
<1> DEFINE b == options + Level(pc)
           c == options' + Level(pc')
<1>1. b \in Nat /\ c \in Nat /\ c >= b + 1 BY LevelType
<1>2. open \subseteq 3 .. 2 + b BY DEF BoundInv
<1> HIDE DEF b
<1>3. NewFd \in 3 .. 2 + (b + 1) BY <1>1, <1>2, NewFdIsLow
<1> HIDE DEF c
<1>4. open' \subseteq 3 .. 2 + c
  <2>1. \A fd \in 3 .. 2 + b : fd \in 3 .. 2 + c BY <1>1
  <2>2. \A fd \in 3 .. 2 + (b + 1) : fd \in 3 .. 2 + c BY <1>1
  <2> QED BY <1>2, <1>3, <2>1, <2>2, Zenon
<1> QED BY <1>4 DEF BoundInv, c

\* A step that opens none and does not go back.
LEMMA OthersKeepBound ==
    ASSUME BoundInv, options \in Nat, options' \in Nat, open' \subseteq open,
           options <= options', Level(pc) <= Level(pc')
    PROVE  BoundInv'
<1> DEFINE b == options + Level(pc)
           c == options' + Level(pc')
<1>1. b \in Nat /\ c \in Nat /\ b <= c BY LevelType
<1>2. open \subseteq 3 .. 2 + b BY DEF BoundInv
<1> HIDE DEF b, c
<1>3. \A fd \in 3 .. 2 + b : fd \in 3 .. 2 + c BY <1>1
<1>4. open' \subseteq 3 .. 2 + c BY <1>2, <1>3, Zenon
<1> QED BY <1>4 DEF BoundInv, c

\* No step opens a descriptor for nothing.
LEMMA BoundIsKept ==
    ASSUME BoundInv, StringsInv, [Next]_vars
    PROVE  BoundInv'
<1>1. options \in Nat BY StartupAssumption DEF StringsInv
<1>2. CASE OpenStream
  <2>1. /\ pc' = pc /\ options' = options + 1 /\ open' = open \cup {NewFd}
    BY <1>2, Zenon DEF OpenStream, Option
  <2>2. options' + Level(pc') >= options + Level(pc) + 1 /\ options' \in Nat
    BY <1>1, <2>1, LevelType
  <2> QED BY <1>1, <2>1, <2>2, OpeningKeepsBound
<1>3. CASE Connect
  <2>1. /\ pc = "connect" /\ pc' = "connected" /\ UNCHANGED asking
        /\ open' = open \cup {NewFd}
    BY <1>3, Zenon DEF Connect
  <2>2. options' = options BY <2>1 DEF asking
  <2>3. Level(pc) = 0 /\ Level(pc') = 1 BY <2>1, Levels
  <2> QED BY <1>1, <2>1, <2>2, <2>3, OpeningKeepsBound
<1>4. CASE CreateTimer
  <2>1. /\ pc = "timer" /\ UNCHANGED asking
        /\ pc' \in {"session", "viewer", "cleanup"}
        /\ open' = open \cup {NewFd} \/ open' = open
    BY <1>4, Zenon DEF CreateTimer, Abend
  <2>2. options' = options BY <2>1 DEF asking
  <2>3. Level(pc) = 1 /\ Level(pc') = 2 BY <2>1, Levels
  <2>4. CASE open' = open \cup {NewFd}
    BY <1>1, <2>2, <2>3, <2>4, OpeningKeepsBound
  <2>5. CASE open' = open
    BY <1>1, <2>2, <2>3, <2>5, OthersKeepBound
  <2> QED BY <2>1, <2>4, <2>5
<1>5. ASSUME open' \subseteq open, UNCHANGED options \/ options' = options + 1,
             Level(pc) <= Level(pc')
      PROVE  BoundInv'
  <2>1. options <= options' /\ options' \in Nat BY <1>1, <1>5
  <2> QED BY <1>1, <1>5, <2>1, OthersKeepBound
<1>6. ASSUME Level(pc) = 0 \/ Level(pc') = 2 PROVE Level(pc) <= Level(pc')
  BY <1>6, Levels
<1>7. CASE \/ SkipComment \/ AddEntry \/ LoadFails \/ FileLoaded
           \/ OptionsParsed \/ Dispatch \/ TypeNumber \/ TypeOther
  <2>1. pc \in {"load", "options", "dispatch", "menu"}
    BY <1>7, Zenon DEF SkipComment, AddEntry, LoadFails, FileLoaded, OptionsParsed, Dispatch,
       TypeNumber, TypeOther
  <2>2. Level(pc) = 0 BY <2>1, Levels
  <2>3. UNCHANGED open /\ UNCHANGED options
    BY <1>7, Zenon DEF SkipComment, AddEntry, LoadFails, FileLoaded, OptionsParsed, Dispatch,
       TypeNumber, TypeOther, asking
  <2> QED BY <1>5, <1>6, <2>2, <2>3
<1>8. CASE SetAddress \/ SetShown \/ OptionFails
  <2>1. pc = "options" /\ UNCHANGED open /\ options' = options + 1
    BY <1>8, Zenon DEF SetAddress, SetShown, OptionFails, Option
  <2>2. Level(pc) = 0 BY <2>1, Levels
  <2> QED BY <1>5, <1>6, <2>1, <2>2
<1>9. CASE Resolve \/ ConnectFails \/ NoAddressLeft
  <2>1. pc \in {"resolve", "connect"} /\ UNCHANGED open /\ UNCHANGED asking
    BY <1>9, Zenon DEF Resolve, ConnectFails, NoAddressLeft
  <2>2. Level(pc) = 0 BY <2>1, Levels
  <2> QED BY <1>5, <1>6, <2>1, <2>2 DEF asking
<1>10. CASE CheckSocket \/ SendPreamble
  <2>1. /\ pc \in {"connected", "preamble"} /\ pc' \in {"preamble", "timer", "cleanup"}
        /\ UNCHANGED open /\ UNCHANGED asking
    BY <1>10, Zenon DEF CheckSocket, SendPreamble, Abend
  <2>2. Level(pc) = 1 /\ (Level(pc') = 1 \/ Level(pc') = 2) BY <2>1, Levels
  <2> QED BY <1>5, <2>1, <2>2 DEF asking
<1>11. CASE LeaveLoop \/ LoopFails \/ Cleanup
  <2>1. pc' \in {"cleanup", "exited"} /\ open' \subseteq open /\ UNCHANGED asking
    BY <1>11, Zenon DEF LeaveLoop, LoopFails, Cleanup, Abend
  <2>2. Level(pc') = 2 BY <2>1, Levels
  <2> QED BY <1>5, <1>6, <2>1, <2>2 DEF asking
<1>12. CASE KeyNotSent \/ HostCloses \/ Signal \/ UNCHANGED vars
  <2>1. (pc' = pc \/ pc' = "cleanup") /\ UNCHANGED open /\ UNCHANGED asking
    BY <1>12, Zenon DEF KeyNotSent, HostCloses, Signal, Abend, vars
  <2>2. pc' = pc \/ Level(pc') = 2 BY <2>1, Levels
  <2>3. Level(pc) <= Level(pc') BY <1>6, <2>2, Levels
  <2> QED BY <1>5, <2>1, <2>3 DEF asking
<1> QED BY <1>2, <1>3, <1>4, <1>7, <1>8, <1>9, <1>10, <1>11, <1>12, Zenon DEF Next, Program

\* The other variables: a number typed is one of Numbers.
LEMMA PlainIsKept ==
    ASSUME PlainInv, [Next]_vars
    PROVE  PlainInv'
<1>1. pc' \in Steps
  <2>1. CASE Dispatch
    <3>1. pc' \in {"cleanup", "timer", "menu", "resolve"} BY <2>1, SMT DEF Dispatch
    <3> QED BY <3>1 DEF Steps
  <2>2. CASE FileLoaded \/ CreateTimer \/ TypeNumber \/ TypeOther
    <3>1. pc' \in {"load", "options", "viewer", "session", "cleanup", "resolve", "menu"}
      BY <2>2, Zenon DEF FileLoaded, CreateTimer, TypeNumber, TypeOther, Abend
    <3> QED BY <3>1 DEF Steps
  <2>3. CASE ~Dispatch /\ ~(FileLoaded \/ CreateTimer \/ TypeNumber \/ TypeOther)
    <3>1. pc' = pc \/ pc' \in {"dispatch", "connect", "connected", "preamble", "timer",
                               "cleanup", "exited"}
      BY <2>3, Zenon DEF Next, Program, SkipComment, AddEntry, LoadFails, SetAddress, SetShown,
         OpenStream, OptionFails, Option, OptionsParsed, Resolve, Connect, ConnectFails,
         NoAddressLeft, CheckSocket, SendPreamble, LeaveLoop, LoopFails, KeyNotSent,
         HostCloses, Signal, Cleanup, Abend, vars
    <3> QED BY <3>1 DEF PlainInv, Steps
  <2> QED BY <2>1, <2>2, <2>3
<1>2. choice' \in Int
  <2>1. CASE TypeNumber
    <3>1. PICK n \in Numbers : choice' = n BY <2>1, Zenon DEF TypeNumber
    <3> QED BY <3>1, StartupAssumption
  <2>2. CASE ~TypeNumber
    <3>1. UNCHANGED choice
      BY <2>2, Zenon DEF Next, Program, SkipComment, AddEntry, LoadFails, FileLoaded, SetAddress,
         SetShown, OpenStream, OptionFails, Option, OptionsParsed, Dispatch, TypeOther, Resolve,
         Connect, ConnectFails, NoAddressLeft, CheckSocket, SendPreamble, CreateTimer, LeaveLoop,
         LoopFails, KeyNotSent, HostCloses, Signal, Cleanup, asking, vars
    <3> QED BY <3>1 DEF PlainInv
  <2> QED BY <2>1, <2>2
<1>3. addresses' \in 0 .. MaxAddresses
  <2>1. CASE Resolve
    <3>1. addresses' = addresses \/ addresses' \in 1 .. MaxAddresses BY <2>1, Zenon DEF Resolve
    <3> QED BY <3>1, StartupAssumption DEF PlainInv
  <2>2. CASE ConnectFails
    <3>1. addresses > 0 /\ addresses' = addresses - 1 BY <2>2, Zenon DEF ConnectFails
    <3> QED BY <3>1, StartupAssumption DEF PlainInv
  <2>3. CASE ~Resolve /\ ~ConnectFails
    <3>1. UNCHANGED addresses
      BY <2>3, Zenon DEF Next, Program, SkipComment, AddEntry, LoadFails, FileLoaded, SetAddress,
         SetShown, OpenStream, OptionFails, Option, OptionsParsed, Dispatch, TypeNumber,
         TypeOther, Connect, NoAddressLeft, CheckSocket, SendPreamble, CreateTimer, LeaveLoop,
         LoopFails, KeyNotSent, HostCloses, Signal, Cleanup, network, vars
    <3> QED BY <3>1 DEF PlainInv
  <2> QED BY <2>1, <2>2, <2>3
<1>4. peer' \in BOOLEAN /\ terminate_received' \in BOOLEAN /\ socket_closed' \in BOOLEAN
  <2>1. /\ peer' = peer \/ peer' = TRUE \/ peer' = FALSE
        /\ terminate_received' = terminate_received \/ terminate_received' = TRUE
        /\ socket_closed' = socket_closed \/ socket_closed' = TRUE
    BY Zenon DEF Next, Program, SkipComment, AddEntry, LoadFails, FileLoaded, SetAddress,
       SetShown, OpenStream, OptionFails, Option, OptionsParsed, Dispatch, TypeNumber, TypeOther,
       Resolve, Connect, ConnectFails, NoAddressLeft, CheckSocket, SendPreamble, CreateTimer,
       LeaveLoop, LoopFails, KeyNotSent, HostCloses, Signal, Cleanup, network, flags, vars
  <2> QED BY <2>1, Zenon DEF PlainInv
<1> QED BY <1>1, <1>2, <1>3, <1>4, Zenon DEF PlainInv

\* The parts hold at the start.
LEMMA PlainStarts == Init => PlainInv /\ BoundInv
<1> SUFFICES ASSUME Init PROVE PlainInv /\ BoundInv OBVIOUS
<1>1. /\ pc = "load" /\ choice = -1 /\ addresses = 0 /\ open = {}
      /\ peer = FALSE /\ terminate_received = FALSE /\ socket_closed = FALSE
  BY Zenon DEF Init
<1>2. "load" \in Steps /\ 0 \in 0 .. MaxAddresses /\ -1 \in Int
  BY StartupAssumption DEF Steps
<1>3. FALSE \in BOOLEAN OBVIOUS
<1>4. PlainInv BY <1>1, <1>2, <1>3, Zenon DEF PlainInv
<1>5. BoundInv BY <1>1, Zenon DEF BoundInv
<1> QED BY <1>4, <1>5

\* The parts together give the types that Startup states.
LEMMA PartsAreTypes ==
    ASSUME LoadInv, StringsInv, BoundInv, PlainInv
    PROVE  TypeOK
<1>1. open \subseteq Fds
  <2>1. options \in Int /\ options <= MaxOptions /\ MaxOptions \in Nat
    BY StartupAssumption DEF StringsInv
  <2>2. Level(pc) \in 0 .. 2 BY Levels
  <2>3. \A fd \in 3 .. 2 + (options + Level(pc)) : fd \in 3 .. 4 + MaxOptions
    BY <2>1, <2>2
  <2> QED BY <2>3, Zenon DEF BoundInv, Fds
<1>2. dir \in 1 .. 4 BY DEF LoadInv
<1> QED BY <1>1, <1>2, Zenon DEF TypeOK, StringsInv, PlainInv

\* The variables of the program have their types, for any files, options, numbers
\* and addresses: a choice at the menu is one of the entries, and host and port are
\* strings of an option or of an entry.  Every descriptor is below a bound that
\* counts the options: a failed start or a repeated --file leaves none behind that
\* is not counted.
THEOREM StartupTypeCorrect == Spec => []TypeOK
<1> DEFINE Inv == LoadInv /\ StringsInv /\ BoundInv /\ PlainInv
<1>1. Init => Inv
  BY LoadStarts, StringsStart, PlainStarts
<1>2. Inv /\ [Next]_vars => Inv'
  BY LoadIsKept, StringsAreKept, BoundIsKept, PlainIsKept
<1>3. Inv => TypeOK BY PartsAreTypes
<1> QED BY <1>1, <1>2, <1>3, PTL DEF Spec

-----------------------------------------------------------------------------
(* Saying hello and goodbye.                                               *)

Early == {"load", "options", "dispatch", "menu", "resolve", "connect"}
Late  == {"timer", "session", "viewer", "cleanup"}

\* The preamble and the postamble are those of the entry chosen, which stays.
LEMMA AmblesAreKept ==
    ASSUME UNCHANGED root, session'.selected = session.selected
    PROVE  Preamble' = Preamble /\ Postamble' = Postamble
<1>1. SelectedEntry' = SelectedEntry BY DEF SelectedEntry
<1> QED BY <1>1 DEF Preamble, Postamble

\* Before there is a connection nothing is sent.
LEMMA EarlyKeepsHello ==
    ASSUME HelloInv, pc \in Early, pc' # "preamble", UNCHANGED <<sent, peer>>
    PROVE  HelloInv'
BY SMT DEF HelloInv, Early

\* The steps before the host is greeted send nothing and do not meet it.
LEMMA EarlySteps ==
    ASSUME \/ SkipComment \/ AddEntry \/ LoadFails \/ FileLoaded \/ SetAddress \/ SetShown
           \/ OpenStream \/ OptionFails \/ OptionsParsed \/ Dispatch \/ TypeNumber \/ TypeOther
           \/ Resolve \/ ConnectFails \/ NoAddressLeft
    PROVE  pc \in Early /\ pc' # "preamble" /\ UNCHANGED <<sent, peer>>
<1>1. pc \in Early
  <2>1. pc \in {"load", "options", "dispatch", "menu", "resolve", "connect"}
    BY Zenon DEF SkipComment, AddEntry, LoadFails, FileLoaded, SetAddress, SetShown, OpenStream,
       OptionFails, Option, OptionsParsed, Dispatch, TypeNumber, TypeOther, Resolve,
       ConnectFails, NoAddressLeft
  <2> QED BY <2>1 DEF Early
<1>2. UNCHANGED <<sent, peer>>
  BY Zenon DEF SkipComment, AddEntry, LoadFails, FileLoaded, SetAddress, SetShown, OpenStream,
     OptionFails, Option, OptionsParsed, Dispatch, TypeNumber, TypeOther, Resolve,
     ConnectFails, NoAddressLeft, network
<1>3. pc' # "preamble"
  <2>1. CASE Dispatch
    <3>1. pc' \in {"cleanup", "timer", "menu", "resolve"} BY <2>1, SMT DEF Dispatch
    <3> QED BY <3>1
  <2>2. CASE ~Dispatch
    <3>1. pc' = pc \/ pc' \in {"options", "dispatch", "menu", "resolve", "cleanup", "connect",
                               "connected"}
      BY <2>2, Zenon DEF SkipComment, AddEntry, LoadFails, FileLoaded, SetAddress, SetShown,
         OpenStream, OptionFails, Option, OptionsParsed, TypeNumber, TypeOther, Resolve,
         ConnectFails, NoAddressLeft, Abend
    <3> QED BY <1>1, <3>1 DEF Early
  <2> QED BY <2>1, <2>2
<1> QED BY <1>1, <1>2, <1>3

\* A connection that is there is open, and one that is not fails the test.
LEMMA ConnectingKeepsHello ==
    ASSUME HelloInv, DescriptorInv, Connect \/ CheckSocket
    PROVE  HelloInv'
<1>1. CASE Connect
  <2> DEFINE fd == NewFd
  <2>1. /\ pc = "connect" /\ pc' = "connected" /\ UNCHANGED sent
        /\ session' = [session EXCEPT !.socket_fd = fd] /\ open' = open \cup {fd}
    BY <1>1, Zenon DEF Connect
  <2>2. sent = << >> BY <2>1 DEF HelloInv
  <2> HIDE DEF fd
  <2>3. "socket_fd" \in DOMAIN session BY DEF DescriptorInv, FdFields
  <2>4. session'.socket_fd = fd BY <2>1, <2>3
  <2> QED BY <2>1, <2>2, <2>4, SMT DEF HelloInv
<1>2. CASE CheckSocket
  <2>1. pc = "connected" /\ UNCHANGED <<open, sent, peer>>
    BY <1>2, Zenon DEF CheckSocket, network
  <2>2. sent = << >> BY <2>1 DEF HelloInv
  <2>3. CASE session.socket_fd \in open
    <3>1. pc' = "preamble" /\ session' = session
      BY <1>2, <2>3, Zenon DEF CheckSocket, IsValidFd
    <3> QED BY <2>1, <2>2, <2>3, <3>1, SMT DEF HelloInv
  <2>4. CASE session.socket_fd \notin open
    <3>1. pc' = "cleanup" BY <1>2, <2>4, Zenon DEF CheckSocket, IsValidFd, Abend
    <3>2. ~peer BY <2>1, <2>4 DEF HelloInv
    <3> QED BY <2>1, <2>2, <3>1, <3>2, SMT DEF HelloInv
  <2> QED BY <2>3, <2>4
<1> QED BY <1>1, <1>2

\* A host that is there is greeted: the write fails only when it has gone.
LEMMA PreambleKeepsHello ==
    ASSUME HelloInv, SendPreamble
    PROVE  HelloInv'
<1>1. /\ pc = "preamble" /\ UNCHANGED <<loading, session, open, peer>>
      /\ \/ pc' = "timer" /\ sent' = IF peer THEN sent \o Preamble ELSE sent
         \/ WriteFails /\ UNCHANGED sent /\ pc' = "cleanup"
  BY Zenon DEF SendPreamble, Write, Abend
<1>2. sent = << >> /\ session.socket_fd \in open BY <1>1 DEF HelloInv
<1>3. Preamble' = Preamble
  <2>1. root' = root /\ session' = session BY <1>1 DEF loading
  <2> QED BY <2>1, AmblesAreKept
<1> DEFINE P == Preamble
<1>4. P' = P BY <1>3
<1> HIDE DEF P
<1>5. CASE pc' = "timer" /\ sent' = (IF peer THEN sent \o P ELSE sent)
  <2>1. \/ sent' = << >> /\ ~peer'
        \/ sent' = << >> \o P /\ session'.socket_fd \in open'
    BY <1>1, <1>2, <1>5
  <2>2. \/ sent' = << >> /\ ~peer'
        \/ sent' = << >> \o Preamble' /\ session'.socket_fd \in open'
    BY <1>4, <2>1 DEF P
  <2> QED BY <1>5, <2>2, Zenon DEF HelloInv
<1>6. CASE WriteFails /\ UNCHANGED sent /\ pc' = "cleanup"
  <2>1. ~peer' /\ sent' = << >> BY <1>1, <1>2, <1>6 DEF WriteFails
  <2> QED BY <1>6, <2>1, Zenon DEF HelloInv
<1> QED BY <1>1, <1>5, <1>6 DEF P

\* The connection of a session stays open until the end: nothing else closes it.
LEMMA LoopsKeepHello ==
    ASSUME HelloInv, pc \in Late, pc' \in Late, UNCHANGED <<root, sent, peer>>,
           session'.selected = session.selected, session'.socket_fd = session.socket_fd,
           open \subseteq open'
    PROVE  HelloInv'
<1>1. Preamble' = Preamble BY AmblesAreKept
<1> DEFINE P == Preamble
<1>2. P' = P BY <1>1
<1>3. pc \in {"timer", "session", "viewer", "cleanup"}
      /\ pc' \in {"timer", "session", "viewer", "cleanup"}
  BY DEF Late
<1>4. \/ sent = << >> /\ ~peer
      \/ sent = << >> \o P /\ session.socket_fd \in open
  BY <1>3, Zenon DEF HelloInv
<1> HIDE DEF P
<1>5. \/ sent' = << >> /\ ~peer'
      \/ sent' = << >> \o P /\ session'.socket_fd \in open'
  BY <1>4, SMT
<1>6. \/ sent' = << >> /\ ~peer'
      \/ sent' = << >> \o Preamble' /\ session'.socket_fd \in open'
  BY <1>2, <1>5 DEF P
<1>7. pc' \notin Early /\ pc' \notin {"connected", "preamble", "exited"}
  BY <1>3 DEF Early
<1> QED BY <1>6, <1>7, SMT DEF HelloInv, Early

\* The timer and the loops leave what was sent and the connection as they are.
LEMMA TimerKeepsHello ==
    ASSUME HelloInv, DescriptorInv, StringsInv, CreateTimer \/ LeaveLoop \/ LoopFails
    PROVE  HelloInv'
<1>1. /\ pc \in {"timer", "session", "viewer"}
      /\ pc' \in {"session", "viewer", "cleanup"}
      /\ UNCHANGED <<loading, network>> /\ open \subseteq open'
  BY Zenon DEF CreateTimer, LeaveLoop, LoopFails, Abend
<1>2. session' = session \/ \E fd : session' = [session EXCEPT !.flash_timer_fd = fd]
  BY Zenon DEF CreateTimer, LeaveLoop, LoopFails
<1>3. session'.selected = session.selected /\ session'.socket_fd = session.socket_fd
  BY <1>2, SMT DEF DescriptorInv, FdFields, StringsInv
<1>4. UNCHANGED <<root, sent, peer>> BY <1>1 DEF loading, network
<1>5. pc \in Late /\ pc' \in Late BY <1>1 DEF Late
<1> QED BY <1>1, <1>3, <1>4, <1>5, LoopsKeepHello

\* vt_cleanup() says goodbye to a host that was greeted and is there.
LEMMA CleanupKeepsHello ==
    ASSUME HelloInv, DescriptorInv, Cleanup
    PROVE  HelloInv'
<1>1. /\ pc = "cleanup" /\ pc' = "exited" /\ UNCHANGED <<loading, session, peer>>
      /\ \/ session.socket_fd = -1 /\ UNCHANGED sent
         \/ Write(Postamble)
         \/ WriteFails /\ UNCHANGED sent
  BY Zenon DEF Cleanup
<1>2. Preamble' = Preamble /\ Postamble' = Postamble
  <2>1. root' = root /\ session' = session BY <1>1 DEF loading
  <2> QED BY <2>1, AmblesAreKept
<1> DEFINE P == << >> \o Preamble
           Q == Postamble
<1>3. P' = P /\ Q' = Q BY <1>2
<1>4. (sent = << >> /\ ~peer) \/ (sent = P /\ session.socket_fd \in open)
  BY <1>1 DEF HelloInv
<1>5. Write(Q) => session.socket_fd \in open /\ sent' = (IF peer THEN sent \o Q ELSE sent)
  BY Zenon DEF Write
<1> HIDE DEF P, Q
<1>6. -1 \notin open BY DEF DescriptorInv
<1>7. peer' => sent' = P \o Q
  <2> SUFFICES ASSUME peer' PROVE sent' = P \o Q OBVIOUS
  <2>1. peer /\ sent = P /\ session.socket_fd \in open BY <1>1, <1>4
  <2>2. ~WriteFails /\ session.socket_fd # -1 BY <1>6, <2>1 DEF WriteFails
  <2>3. Write(Q) BY <1>1, <2>2 DEF Q
  <2> QED BY <1>5, <2>1, <2>3
<1>8. peer' => sent' = << >> \o Preamble' \o Postamble' BY <1>3, <1>7 DEF P, Q
<1> QED BY <1>1, <1>8, SMT DEF HelloInv

\* What surrounds the program sends nothing; the host only goes away.
LEMMA SurroundingsKeepHello ==
    ASSUME HelloInv, KeyNotSent \/ HostCloses \/ Signal \/ UNCHANGED vars
    PROVE  HelloInv'
<1>1. CASE Signal /\ pc = "menu"
  <2>1. UNCHANGED <<sent, peer>> /\ pc' # "preamble" /\ pc \in Early
    <3>1. UNCHANGED network /\ (pc' = pc \/ pc' = "cleanup") BY <1>1, Zenon DEF Signal, Abend
    <3> QED BY <1>1, <3>1 DEF network, Early
  <2> QED BY <2>1, EarlyKeepsHello
<1>2. CASE ~(Signal /\ pc = "menu")
  <2>1. pc' = pc /\ UNCHANGED <<loading, session, open, sent>>
        /\ (peer' = peer \/ peer' = FALSE)
    BY <1>2, Zenon DEF KeyNotSent, HostCloses, Signal, network, vars
  <2>2. root' = root /\ session' = session BY <2>1 DEF loading
  <2>3. Preamble' = Preamble /\ Postamble' = Postamble BY <2>2, AmblesAreKept
  <2>4. peer' => peer BY <2>1
  <2> QED BY <2>1, <2>3, <2>4, Zenon DEF HelloInv
<1> QED BY <1>1, <1>2

\* Every step keeps what the host has been sent.
LEMMA HelloIsKept == HelloInv /\ DescriptorInv /\ StringsInv /\ [Next]_vars => HelloInv'
BY EarlySteps, EarlyKeepsHello, ConnectingKeepsHello, PreambleKeepsHello, TimerKeepsHello,
   CleanupKeepsHello, SurroundingsKeepHello, Zenon DEF Next, Program

\* Nothing is sent at the start.
LEMMA HelloStarts == Init => HelloInv
BY SMT DEF Init, HelloInv

\* The length and the elements of a sequence.
LEMMA SeqElements ==
    ASSUME NEW S, NEW s \in Seq(S)
    PROVE  Len(s) \in Nat /\ \A i \in 1 .. Len(s) : s[i] \in S
OBVIOUS

\* A sequence of some elements is one of more elements.
LEMMA SeqOfMore ==
    ASSUME NEW S, NEW T, S \subseteq T, NEW s \in Seq(S)
    PROVE  s \in Seq(T)
OBVIOUS

\* vt_scan_array() reads every number of a field that is as the man page has it.
LEMMA AmbleIsRead ==
    ASSUME NEW field, IsAmble(field)
    PROVE  ScanArray(field) = Words(field)
<1> DEFINE words == Words(field)
           l == Len(words)
           S == {k \in 0 .. l : k <= MAX_AMBLE_LEN /\ \A i \in 1 .. k : words[i] >= 0}
           n == Max(S)
<1>1. words \in Seq(0 .. 255) /\ l <= MAX_AMBLE_LEN BY DEF IsAmble
<1>2. ScanArray(field) = [i \in 1 .. n |-> words[i] % 256] BY DEF ScanArray
<1> HIDE DEF words
<1>3. l \in Nat /\ \A i \in 1 .. l : words[i] \in 0 .. 255 BY <1>1, SeqElements
<1> HIDE DEF l
<1>4. l \in S
  <2>1. l \in 0 .. l BY <1>3
  <2>2. \A i \in 1 .. l : words[i] >= 0
    <3>1. \A b \in 0 .. 255 : b >= 0 OBVIOUS
    <3> QED BY <1>3, <3>1, Zenon
  <2> QED BY <1>1, <2>1, <2>2, Zenon
<1>5. S \subseteq 0 .. l OBVIOUS
<1> HIDE DEF S
<1>6. n = l
  <2>1. \A k \in S : k <= l /\ k \in Int BY <1>3, <1>5
  <2>2. \A y \in S : l >= y BY <1>3, <2>1
  <2>3. n \in S /\ \A y \in S : n >= y
    <3>1. \E x \in S : \A y \in S : x >= y BY <1>4, <2>2
    <3> QED BY <3>1, Zenon DEF Max
  <2>4. n >= l /\ n <= l /\ n \in Int BY <1>4, <2>1, <2>3
  <2> HIDE DEF n
  <2> QED BY <1>3, <2>4
<1> HIDE DEF n
<1>7. \A i \in 1 .. l : words[i] % 256 = words[i] BY <1>3
<1>8. words = [i \in 1 .. l |-> words[i]] BY <1>1 DEF l
<1> QED BY <1>2, <1>6, <1>7, <1>8 DEF words

\* What the entry chosen has for the host is what its line says.
LEMMA EntryHasAmbles ==
    ASSUME LoadInv, StringsInv, session.selected # 0
    PROVE  LET token == Tokens(ConfigLines[session.selected])
           IN  Len(token) = 5 /\ IsAmble(token[4]) /\ IsAmble(token[5]) =>
                   /\ SelectedEntry.preamble = Words(token[4])
                   /\ SelectedEntry.postamble = Words(token[5])
<1> DEFINE line == ConfigLines[session.selected]
           token == Tokens(line)
<1>1. SelectedEntry \in EntriesOf(line)
  <2>1. Loaded /\ session.selected \in 1 .. rc_data_count BY DEF StringsInv
  <2> QED BY <2>1, EntriesAreLines DEF EntriesMatchFiles, SelectedEntry
<1> HIDE DEF line
<1> SUFFICES ASSUME Len(token) = 5, IsAmble(token[4]), IsAmble(token[5])
             PROVE  /\ SelectedEntry.preamble = Words(token[4])
                    /\ SelectedEntry.postamble = Words(token[5])
  BY DEF line
<1>2. Given(line, 4) /\ Given(line, 5) BY DEF Given
<1>3. /\ SelectedEntry.preamble = ScanArray(token[4])
      /\ SelectedEntry.postamble = ScanArray(token[5])
  BY <1>1, <1>2, SMT DEF EntriesOf
<1>4. ScanArray(token[4]) = Words(token[4]) /\ ScanArray(token[5]) = Words(token[5])
  BY AmbleIsRead
<1> QED BY <1>3, <1>4

\* What was sent is what the line of the host asks for.
LEMMA HelloLogsOff ==
    ASSUME LoadInv, StringsInv, HelloInv
    PROVE  LogsOff
<1> SUFFICES ASSUME pc = "exited", peer, sent # << >> PROVE LogsOff BY DEF LogsOff
<1>1. sent = << >> \o Preamble \o Postamble BY DEF HelloInv
<1>2. CASE session.selected = 0
  <2>1. Preamble = <<START_OF_TEXT>> \o << >> /\ Postamble = DEFAULT_POSTAMBLE
    BY <1>2 DEF Preamble, Postamble
  <2>2. << >> \o (<<START_OF_TEXT>> \o << >>) = <<START_OF_TEXT>>
    BY DEF START_OF_TEXT
  <2>3. sent = <<START_OF_TEXT>> \o DEFAULT_POSTAMBLE BY <1>1, <2>1, <2>2
  <2> QED BY <1>2, <2>3, Zenon DEF LogsOff
<1>3. CASE session.selected # 0
  <2> DEFINE token == Tokens(ConfigLines[session.selected])
             pre == Words(token[4])
             post == Words(token[5])
  <2> SUFFICES ASSUME Len(token) = 5, IsAmble(token[4]), IsAmble(token[5])
               PROVE  sent = <<START_OF_TEXT>> \o pre \o OrDefault(post)
    BY <1>3, Zenon DEF LogsOff
  <2>1. SelectedEntry.preamble = pre /\ SelectedEntry.postamble = post
    BY <1>3, EntryHasAmbles, Zenon
  <2>2. pre \in Seq(Int)
    <3>1. pre \in Seq(0 .. 255) BY DEF IsAmble
    <3>2. 0 .. 255 \subseteq Int OBVIOUS
    <3> HIDE DEF pre
    <3> QED BY <3>1, <3>2, SeqOfMore
  <2>3. Preamble = <<START_OF_TEXT>> \o pre
    BY <1>3, <2>1 DEF Preamble
  <2>4. Postamble = OrDefault(post)
    BY <1>3, <2>1 DEF Postamble, OrDefault
  <2> HIDE DEF pre, post, token
  <2>5. <<START_OF_TEXT>> \o pre \in Seq(Int) BY <2>2 DEF START_OF_TEXT
  <2>6. << >> \o (<<START_OF_TEXT>> \o pre) = <<START_OF_TEXT>> \o pre BY <2>5
  <2> QED BY <1>1, <2>3, <2>4, <2>6
<1> QED BY <1>2, <1>3

\* "logoff will be done automatically" (vidtex.1:92): however a session ends, a host
\* that was greeted and is still there has been sent the preamble and the postamble
\* of its line, for any files and whatever fails on the way.
THEOREM LogoffIsSent == Spec => []LogsOff
<1> DEFINE Inv == LoadInv /\ StringsInv /\ DescriptorInv /\ HelloInv
<1>1. Init => Inv
  BY LoadStarts, StringsStart, DescriptorsStart, HelloStarts
<1>2. Inv /\ [Next]_vars => Inv'
  BY LoadIsKept, StringsAreKept, DescriptorsAreKept, HelloIsKept
<1>3. Inv => LogsOff BY HelloLogsOff
<1> QED BY <1>1, <1>2, <1>3, PTL DEF Spec
=============================================================================
