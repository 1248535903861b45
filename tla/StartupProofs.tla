---------------------------- MODULE StartupProofs ----------------------------
(***************************************************************************)
(* Proofs about module Startup: for every configuration, every number of   *)
(* options and addresses and any size of an entry that is at least two     *)
(* pointers, no pointer is written behind the array of entries, and the    *)
(* descriptors that the session knows are open and no two are the same.    *)
(*                                                                         *)
(* The two parts of the invariant, on memory and on descriptors, have      *)
(* nothing to do with each other and are proved one after the other.       *)
(***************************************************************************)
EXTENDS Startup, FiniteSetTheorems, WellFoundedInduction, TLAPS

-----------------------------------------------------------------------------
(* The array of entries.                                                   *)

\* As many entries as there were are one pointer more: an entry is two pointers
\* at least and the array is not empty.
LEMMA SizeIsEnough ==
    ASSUME NEW n \in Nat \ {0}, NEW pointer \in Nat, NEW entry \in Nat, 2 * pointer <= entry
    PROVE  pointer * (n + 1) <= entry * n
<1>1. (2 * pointer) * n <= entry * n BY SMT
<1>2. pointer <= pointer * n BY SMT
<1>3. pointer * (n + 1) = pointer * n + pointer BY SMT
<1>4. (2 * pointer) * n = pointer * n + pointer * n BY SMT
<1> QED BY <1>1, <1>2, <1>3, <1>4, SMT

\* What is said of the array: its entries are a sequence, of one at least once
\* there is an array, and it has room for a pointer to each.  Without the first
\* realloc() could ask for nothing.
HasRoom(array) ==
    /\ array.entries \in Seq(ToSet(array.entries))
    /\ array # NoArray => Len(array.entries) > 0
    /\ SIZEOF_POINTER * Len(array.entries) <= array.bytes

\* A sequence is one of its own elements.
LEMMA SeqOfElements ==
    ASSUME NEW S, NEW s \in Seq(S)
    PROVE  s \in Seq(ToSet(s))
<1>1. s = [i \in 1 .. Len(s) |-> s[i]] /\ Len(s) \in Nat OBVIOUS
<1>2. \A i \in 1 .. Len(s) : s[i] \in ToSet(s) BY SMT DEF ToSet
<1>3. [i \in 1 .. Len(s) |-> s[i]] \in Seq(ToSet(s)) BY <1>1, <1>2
<1> QED BY <1>1, <1>3, Zenon

\* Adding an entry, wherever the array is then.
LEMMA AddedHasRoom ==
    ASSUME NEW array, HasRoom(array), NEW id, NEW entry
    PROVE  HasRoom(Added(array, id, entry))
<1> DEFINE s == array.entries
           n == Len(s)
           t == Append(s, entry)
           S == ToSet(s) \cup {entry}
<1>1. s \in Seq(S) /\ n \in Nat BY SMT DEF HasRoom
<1>2. t \in Seq(S) /\ Len(t) = n + 1 BY <1>1
<1>3. t \in Seq(ToSet(t)) BY <1>2, SeqOfElements
<1>4. SIZEOF_POINTER * (n + 1) <= Size(array)
  <2>1. CASE array = NoArray
    <3>1. n = 0 BY <2>1 DEF NoArray
    <3> QED BY <2>1, <3>1, RcAssumption, SMT DEF Size
  <2>2. CASE array # NoArray
    <3>1. n \in Nat \ {0} BY <1>1, <2>2 DEF HasRoom
    <3>2. SIZEOF_POINTER * (n + 1) <= SIZEOF_ENTRY * n
      BY <3>1, SizeIsEnough, RcAssumption
    <3> QED BY <2>2, <3>2 DEF Size
  <2> QED BY <2>1, <2>2
<1>5. /\ Added(array, id, entry).entries = t
      /\ Added(array, id, entry).bytes = Size(array)
  BY DEF Added
<1> HIDE DEF t, n, S
<1> QED BY <1>1, <1>2, <1>3, <1>4, <1>5, SMT DEF HasRoom

\* Only another entry changes the array.
LEMMA RoomIsKept ==
    ASSUME HasRoom(root), [Next]_vars
    PROVE  HasRoom(root)'
<1>1. CASE AddEntry
  <2>1. PICK entry, id : root' = Added(root, id, entry)
    BY <1>1, Zenon DEF AddEntry
  <2>2. HasRoom(Added(root, id, entry)) BY AddedHasRoom
  <2> QED BY <2>1, <2>2, Zenon DEF HasRoom
<1>2. ASSUME UNCHANGED root PROVE HasRoom(root)'
  BY <1>2, Zenon DEF HasRoom
<1>3. CASE SkipComment \/ LoadFails \/ FileLoaded
  BY <1>2, <1>3, Zenon DEF SkipComment, LoadFails, FileLoaded, loading
<1>4. CASE SetAddress \/ SetShown \/ OpenStream \/ OptionFails \/ OptionsParsed \/ Dispatch
  BY <1>2, <1>4, Zenon DEF SetAddress, SetShown, OpenStream, OptionFails, OptionsParsed,
     Dispatch, Option, loading
<1>5. CASE Resolve \/ Connect \/ ConnectFails \/ NoAddressLeft \/ CheckSocket \/ SendPreamble
  BY <1>2, <1>5, Zenon DEF Resolve, Connect, ConnectFails, NoAddressLeft, CheckSocket,
     SendPreamble, loading
<1>6. CASE CreateTimer \/ LeaveLoop \/ Cleanup \/ LoopFails \/ KeyNotSent
  BY <1>2, <1>6, Zenon DEF CreateTimer, LeaveLoop, Cleanup, LoopFails, KeyNotSent, loading
<1>7. CASE TypeNumber \/ TypeOther \/ HostCloses \/ Signal
  BY <1>2, <1>7, Zenon DEF TypeNumber, TypeOther, HostCloses, Signal, loading
<1>8. CASE UNCHANGED vars
  BY <1>2, <1>8, Zenon DEF vars, loading
<1> QED BY <1>1, <1>3, <1>4, <1>5, <1>6, <1>7, <1>8, Zenon DEF Next, Program

\* No pointer is written behind the array, whatever the three files are and as
\* long as an entry is not smaller than two pointers (vt_get_rc()).
THEOREM ArrayIsLargeEnough == Spec => []WritesWithinArray
<1>1. Init => HasRoom(root)
  <2>1. << >> \in Seq(ToSet(<< >>)) OBVIOUS
  <2>2. SIZEOF_POINTER * 0 <= 0 BY RcAssumption
  <2> QED BY <2>1, <2>2, SMT DEF Init, HasRoom, NoArray
<1>2. HasRoom(root) /\ [Next]_vars => HasRoom(root)'
  BY RoomIsKept
<1>3. HasRoom(root) => WritesWithinArray
  BY Zenon DEF HasRoom, WritesWithinArray
<1> QED BY <1>1, <1>2, <1>3, PTL DEF Spec

-----------------------------------------------------------------------------
(* The descriptors.                                                        *)

\* Of a set of natural numbers that is not empty Min is one.
LEMMA MinIsElement ==
    ASSUME NEW S, S \subseteq Nat, S # {}
    PROVE  Min(S) \in S
<1>1. PICK x \in S : \A y \in S : <<y, x>> \notin OpToRel(<, Nat)
  BY NatLessThanWellFounded, WFMin
<1>2. \A y \in S : ~(y < x) BY <1>1, Zenon DEF OpToRel
<1>3. \A y \in S : x <= y BY <1>2
<1> QED BY <1>3, Zenon DEF Min

\* The kernel finds a descriptor that is free, however many are open.
LEMMA NewFdIsNew ==
    ASSUME open \subseteq Nat, IsFiniteSet(open)
    PROVE  NewFd \in Nat /\ NewFd \notin open
<1> DEFINE n == Cardinality(open)
           S == {fd \in 3 .. 3 + n : fd \notin open}
<1>1. n \in Nat BY FS_CardinalityType
<1>2. Cardinality(3 .. 3 + n) = n + 1 BY <1>1, FS_Interval
<1>3. S # {}
  <2> SUFFICES ASSUME S = {} PROVE FALSE OBVIOUS
  <2>1. 3 .. 3 + n \subseteq open OBVIOUS
  <2>2. Cardinality(3 .. 3 + n) <= n BY <2>1, FS_Subset
  <2> QED BY <1>1, <1>2, <2>2
<1>4. S \subseteq Nat BY <1>1
<1>5. Min(S) \in S BY <1>3, <1>4, MinIsElement
<1>6. NewFd = Min(S) BY Zenon DEF NewFd
<1> HIDE DEF n
<1>7. \A fd \in S : fd \notin open BY Zenon
<1> HIDE DEF S
<1> QED BY <1>4, <1>5, <1>6, <1>7, Zenon

Streams  == {"dump_fd", "trace_fd", "load_fd", "flash_timer_fd"}
FdFields == {"dump_fd", "trace_fd", "load_fd", "flash_timer_fd", "socket_fd"}

\* No two fields have the same descriptor.
Apart(s) ==
    \A field, other \in FdFields :
        field # other /\ s[field] # -1 => s[other] # s[field]

\* The descriptors of a set of fields are open, or not there.
Own(s, fields) == \A field \in fields : s[field] = -1 \/ s[field] \in open

\* What is true of descriptors.  While vt_connect() tries one address after the
\* other socket_fd may be a number that is closed, but never one of a stream:
\* without that vt_is_valid_fd() would take a stream for the connection.
DescriptorInv ==
    /\ open \subseteq Nat /\ IsFiniteSet(open)
    /\ FdFields \subseteq DOMAIN session
    /\ Apart(session)
    /\ pc # "exited" => Own(session, Streams)
    /\ pc \notin {"connect", "connected", "exited"} => Own(session, {"socket_fd"})

\* The steps that leave session and open alone.
LEMMA OthersKeepDescriptors ==
    ASSUME DescriptorInv, UNCHANGED <<session, open>>,
           pc' \notin {"exited"} => pc # "exited",
           pc' \notin {"connect", "connected", "exited"} =>
               pc \notin {"connect", "connected", "exited"} \/ session.socket_fd \in open
    PROVE  DescriptorInv'
BY SMT DEF DescriptorInv, Apart, Own, FdFields, Streams

\* A field that is set to a descriptor that is not open.
LEMMA NewIsApart ==
    ASSUME NEW s, FdFields \subseteq DOMAIN s, Apart(s), NEW fd \in Nat, NEW field \in FdFields,
           \A other \in FdFields : other # field => s[other] # fd
    PROVE  Apart([s EXCEPT ![field] = fd])
BY SMT DEF Apart, FdFields

\* Opening a descriptor for a field, by any program step that stays out of the
\* loop over the addresses.
LEMMA OpeningKeepsDescriptors ==
    ASSUME DescriptorInv, NEW field \in FdFields,
           session' = [session EXCEPT ![field] = NewFd], open' = open \cup {NewFd},
           pc # "exited", field = "socket_fd" \/ Own(session, {"socket_fd"})
    PROVE  DescriptorInv'
<1> DEFINE fd == NewFd
<1>1. fd \in Nat /\ fd \notin open BY NewFdIsNew DEF DescriptorInv
<1> HIDE DEF fd
<1>2. \A other \in FdFields : other # field => session[other] # fd
  <2> SUFFICES ASSUME NEW other \in FdFields, other # field PROVE session[other] # fd
    OBVIOUS
  <2>1. session[other] = -1 \/ session[other] \in open
    BY SMT DEF DescriptorInv, Own, FdFields, Streams
  <2> QED BY <1>1, <2>1
<1>3. session' = [session EXCEPT ![field] = fd] /\ open' = open \cup {fd} BY DEF fd
<1>4. Apart(session')
  <2>1. Apart(session) /\ FdFields \subseteq DOMAIN session BY Zenon DEF DescriptorInv
  <2>2. Apart([session EXCEPT ![field] = fd]) BY <1>1, <1>2, <2>1, NewIsApart
  <2> QED BY <1>3, <2>2, Zenon
<1>5. open' \subseteq Nat /\ IsFiniteSet(open')
  BY <1>1, <1>3, FS_AddElement DEF DescriptorInv
<1>6. FdFields \subseteq DOMAIN session'
  BY <1>3 DEF DescriptorInv
<1>7. Own(session, Streams) BY Zenon DEF DescriptorInv
<1>8. \A other \in FdFields : session'[other] = -1 \/ session'[other] \in open'
  BY <1>3, <1>7, SMT DEF Own, FdFields, Streams, DescriptorInv
<1> QED BY <1>4, <1>5, <1>6, <1>8, SMT DEF DescriptorInv, Apart, Own, Streams, FdFields

\* Setting a field to -1.
LEMMA ClearingKeepsDescriptors ==
    ASSUME DescriptorInv, NEW field \in FdFields,
           session' = [session EXCEPT ![field] = -1], UNCHANGED open,
           pc # "exited", field = "socket_fd" \/ Own(session, {"socket_fd"})
    PROVE  DescriptorInv'
BY SMT DEF DescriptorInv, Apart, Own, FdFields, Streams

\* Changing other fields of the session.
LEMMA OtherFieldsKeepDescriptors ==
    ASSUME DescriptorInv, UNCHANGED open, DOMAIN session' = DOMAIN session,
           \A field \in FdFields : session'[field] = session[field],
           pc # "exited", pc \notin {"connect", "connected"}
    PROVE  DescriptorInv'
BY SMT DEF DescriptorInv, Apart, Own, FdFields, Streams

\* The options: also with a --file that is opened again and again.
LEMMA OptionsKeepDescriptors ==
    ASSUME DescriptorInv, SetAddress \/ SetShown \/ OpenStream \/ OptionFails
    PROVE  DescriptorInv'
<1>1. pc = "options" BY Zenon DEF SetAddress, SetShown, OpenStream, OptionFails, Option
<1>2. Own(session, {"socket_fd"}) BY <1>1 DEF DescriptorInv
<1>3. CASE SetAddress
  <2>1. UNCHANGED open BY <1>3, Zenon DEF SetAddress
  <2>2. PICK string : \/ session' = [session EXCEPT !.host = string]
                      \/ session' = [session EXCEPT !.port = string]
    BY <1>3, Zenon DEF SetAddress
  <2>3. /\ DOMAIN session' = DOMAIN session
        /\ \A field \in FdFields : session'[field] = session[field]
    BY <2>2, SMT DEF FdFields, DescriptorInv
  <2> QED BY <1>1, <2>1, <2>3, OtherFieldsKeepDescriptors
<1>4. CASE SetShown
  <2>1. UNCHANGED open BY <1>4, Zenon DEF SetShown
  <2>2. PICK shown \in BOOLEAN : \/ session' = [session EXCEPT !.show_menu = shown]
                                 \/ session' = [session EXCEPT !.show_text = shown]
    BY <1>4, Zenon DEF SetShown
  <2>3. /\ DOMAIN session' = DOMAIN session
        /\ \A field \in FdFields : session'[field] = session[field]
    BY <2>2, SMT DEF FdFields, DescriptorInv
  <2> QED BY <1>1, <2>1, <2>3, OtherFieldsKeepDescriptors
<1>5. CASE OpenStream
  <2>1. open' = open \cup {NewFd} BY <1>5, Zenon DEF OpenStream
  <2>2. \/ session' = [session EXCEPT !.dump_fd = NewFd]
        \/ session' = [session EXCEPT !.trace_fd = NewFd]
        \/ session' = [session EXCEPT !.load_fd = NewFd]
    BY <1>5, Zenon DEF OpenStream
  <2>3. PICK field \in FdFields : session' = [session EXCEPT ![field] = NewFd]
    BY <2>2, Zenon DEF FdFields
  <2> QED BY <1>1, <1>2, <2>1, <2>3, OpeningKeepsDescriptors
<1>6. CASE OptionFails
  <2>1. UNCHANGED open BY <1>6, Zenon DEF OptionFails
  <2>2. CASE session' = session
    BY <1>1, <2>1, <2>2, OtherFieldsKeepDescriptors
  <2>3. CASE session' = [session EXCEPT !.load_fd = -1]
    <3>1. "load_fd" \in FdFields BY DEF FdFields
    <3>2. session' = [session EXCEPT !["load_fd"] = -1] BY <2>3
    <3> QED BY <1>1, <1>2, <2>1, <3>1, <3>2, ClearingKeepsDescriptors
  <2> QED BY <1>6, <2>2, <2>3, Zenon DEF OptionFails
<1> QED BY <1>3, <1>4, <1>5, <1>6

\* vt_connect(): a socket that failed leaves its number behind, and a new one
\* may get the same.
LEMMA ConnectingKeepsDescriptors ==
    ASSUME DescriptorInv, Connect \/ ConnectFails \/ CheckSocket
    PROVE  DescriptorInv'
<1>1. "socket_fd" \in FdFields BY DEF FdFields
<1>2. pc # "exited" BY Zenon DEF Connect, ConnectFails, CheckSocket
<1>3. CASE Connect
  <2>1. session' = [session EXCEPT !["socket_fd"] = NewFd] /\ open' = open \cup {NewFd}
    BY <1>3, Zenon DEF Connect
  <2> QED BY <1>1, <1>2, <2>1, OpeningKeepsDescriptors
<1>4. CASE ConnectFails
  <2>1. UNCHANGED <<open, pc>> /\ pc = "connect" BY <1>4, Zenon DEF ConnectFails
  <2>2. CASE session' = [session EXCEPT !.socket_fd = -1]
    BY <1>1, <1>2, <2>1, <2>2, ClearingKeepsDescriptors
  <2>3. CASE session' = [session EXCEPT !.socket_fd = NewFd]
    <3> DEFINE fd == NewFd
    <3>1. fd \in Nat /\ fd \notin open BY NewFdIsNew DEF DescriptorInv
    <3>2. session' = [session EXCEPT !["socket_fd"] = fd] BY <2>3
    <3> HIDE DEF fd
    <3>3. Own(session, Streams) BY <1>2 DEF DescriptorInv
    <3>4. \A other \in FdFields : other # "socket_fd" => session[other] # fd
      BY <3>1, <3>3, SMT DEF Own, FdFields, Streams
    <3>5. Apart(session') BY <1>1, <3>1, <3>2, <3>4, NewIsApart, Zenon DEF DescriptorInv
    <3>6. Own(session', Streams) BY <3>2, <3>3, SMT DEF Own, Streams, FdFields, DescriptorInv
    <3>7. FdFields \subseteq DOMAIN session' BY <3>2 DEF DescriptorInv
    <3> QED BY <2>1, <3>5, <3>6, <3>7, SMT DEF DescriptorInv, Apart, Own
  <2> QED BY <1>4, <2>2, <2>3, Zenon DEF ConnectFails
<1>5. CASE CheckSocket
  <2>1. CASE session.socket_fd \in open
    <3>1. UNCHANGED <<session, open>> /\ pc' = "preamble"
      BY <1>5, <2>1, Zenon DEF CheckSocket, IsValidFd
    <3> QED BY <1>2, <2>1, <3>1, OthersKeepDescriptors
  <2>2. CASE session.socket_fd \notin open
    <3>1. session' = [session EXCEPT !["socket_fd"] = -1] /\ UNCHANGED open
      BY <1>5, <2>2, Zenon DEF CheckSocket, IsValidFd
    <3> QED BY <1>1, <1>2, <3>1, ClearingKeepsDescriptors
  <2> QED BY <2>1, <2>2
<1> QED BY <1>3, <1>4, <1>5


\* At the menu the number typed becomes three other fields.
LEMMA MenuKeepsDescriptors ==
    ASSUME DescriptorInv, TypeNumber
    PROVE  DescriptorInv'
<1>1. pc = "menu" /\ UNCHANGED open BY Zenon DEF TypeNumber
<1>2. PICK n, host, port :
         \/ session' = [session EXCEPT !.selected = n, !.host = host, !.port = port]
         \/ UNCHANGED session
  BY Zenon DEF TypeNumber
<1> DEFINE Same(s) == /\ DOMAIN s = DOMAIN session
                      /\ \A field \in FdFields : s[field] = session[field]
           s1 == [session EXCEPT !.selected = n]
           s2 == [s1 EXCEPT !.host = host]
           s3 == [s2 EXCEPT !.port = port]
<1>3. Same(s3)
  <2>1. Same(s1) BY SMT DEF FdFields, DescriptorInv
  <2> HIDE DEF s1
  <2>2. Same(s2) BY <2>1, SMT DEF FdFields, DescriptorInv
  <2> HIDE DEF s2
  <2> QED BY <2>2, SMT DEF FdFields, DescriptorInv
<1>4. session' = s3 \/ UNCHANGED session BY <1>2
<1> HIDE DEF s3
<1>5. Same(session') BY <1>3, <1>4, Zenon
<1> QED BY <1>1, <1>5, OtherFieldsKeepDescriptors

\* The timer of either loop.
LEMMA TimerKeepsDescriptors ==
    ASSUME DescriptorInv, CreateTimer
    PROVE  DescriptorInv'
<1>1. pc = "timer" BY Zenon DEF CreateTimer
<1>2. "flash_timer_fd" \in FdFields BY DEF FdFields
<1>3. Own(session, {"socket_fd"}) BY <1>1 DEF DescriptorInv
<1>4. CASE session' = [session EXCEPT !.flash_timer_fd = NewFd] /\ open' = open \cup {NewFd}
  <2>1. session' = [session EXCEPT !["flash_timer_fd"] = NewFd] BY <1>4
  <2> QED BY <1>1, <1>2, <1>3, <1>4, <2>1, OpeningKeepsDescriptors
<1>5. CASE UNCHANGED <<session, open>>
  BY <1>1, <1>5, OtherFieldsKeepDescriptors
<1> QED BY <1>4, <1>5, Zenon DEF CreateTimer

\* vt_cleanup() only closes.
LEMMA CleanupKeepsDescriptors ==
    ASSUME DescriptorInv, Cleanup
    PROVE  DescriptorInv'
<1>1. pc' = "exited" /\ UNCHANGED session BY Zenon DEF Cleanup
<1>2. open' \subseteq open BY Zenon DEF Cleanup
<1>3. open' \subseteq Nat /\ IsFiniteSet(open') BY <1>2, FS_Subset DEF DescriptorInv
<1> QED BY <1>1, <1>3, SMT DEF DescriptorInv, Apart

\* Everything else, by place.
LEMMA RestKeepsDescriptors ==
    ASSUME DescriptorInv,
           \/ SkipComment \/ AddEntry \/ LoadFails \/ FileLoaded \/ OptionsParsed \/ Dispatch
           \/ Resolve \/ NoAddressLeft \/ SendPreamble \/ LeaveLoop \/ LoopFails
           \/ KeyNotSent \/ TypeOther \/ HostCloses \/ Signal \/ UNCHANGED vars
    PROVE  DescriptorInv'
<1> DEFINE Outside == {"connect", "connected", "exited"}
<1>1. CASE UNCHANGED <<session, open>> /\ (pc \notin Outside \/ UNCHANGED pc)
  BY <1>1, OthersKeepDescriptors
<1>2. CASE NoAddressLeft
  <2>1. UNCHANGED <<session, open>> /\ pc = "connect" /\ pc' = "connected"
    BY <1>2, Zenon DEF NoAddressLeft
  <2> QED BY <2>1, OthersKeepDescriptors
<1>3. CASE SkipComment \/ AddEntry \/ LoadFails \/ FileLoaded
  <2>1. UNCHANGED <<session, open>> /\ pc = "load"
    BY <1>3, Zenon DEF SkipComment, AddEntry, LoadFails, FileLoaded
  <2> QED BY <1>1, <2>1
<1>4. CASE OptionsParsed \/ Dispatch
  <2>1. UNCHANGED <<session, open>> /\ pc \in {"options", "dispatch"}
    BY <1>4, Zenon DEF OptionsParsed, Dispatch
  <2> QED BY <1>1, <2>1
<1>5. CASE Resolve \/ SendPreamble
  <2>1. UNCHANGED <<session, open>> /\ pc \in {"resolve", "preamble"}
    BY <1>5, Zenon DEF Resolve, SendPreamble
  <2> QED BY <1>1, <2>1
<1>6. CASE LeaveLoop \/ LoopFails \/ KeyNotSent \/ TypeOther
  <2>1. UNCHANGED <<session, open>> /\ pc \in {"session", "viewer", "menu"}
    BY <1>6, Zenon DEF LeaveLoop, LoopFails, KeyNotSent, TypeOther
  <2> QED BY <1>1, <2>1
<1>7. CASE HostCloses \/ UNCHANGED vars
  <2>1. UNCHANGED <<session, open, pc>> BY <1>7, Zenon DEF HostCloses, vars
  <2> QED BY <1>1, <2>1
<1>8. CASE Signal
  <2>1. UNCHANGED <<session, open>> /\ (UNCHANGED pc \/ pc = "menu")
    BY <1>8, Zenon DEF Signal
  <2> QED BY <1>1, <2>1
<1> QED BY <1>2, <1>3, <1>4, <1>5, <1>6, <1>7, <1>8

\* No descriptor is open at the start.
LEMMA DescriptorsStart == Init => DescriptorInv
<1> SUFFICES ASSUME Init PROVE DescriptorInv OBVIOUS
<1>1. IsFiniteSet(open) BY FS_EmptySet DEF Init
<1>2. /\ FdFields \subseteq DOMAIN session
      /\ \A field \in FdFields : session[field] = -1
  BY SMT DEF Init, FdFields
<1>3. open = {} BY Zenon DEF Init
<1> QED BY <1>1, <1>2, <1>3, SMT DEF DescriptorInv, Apart, Own, FdFields, Streams

\* Every step keeps the descriptors that the session knows open and apart.
LEMMA DescriptorsAreKept == DescriptorInv /\ [Next]_vars => DescriptorInv'
BY OptionsKeepDescriptors, ConnectingKeepsDescriptors, MenuKeepsDescriptors,
   TimerKeepsDescriptors, CleanupKeepsDescriptors, RestKeepsDescriptors, Zenon
   DEF Next, Program

\* Whichever steps of the program fail, and however often --file is given, the
\* descriptors of the session are open and its own.
THEOREM DescriptorsAreOpen == Spec => []DescriptorsOpen
<1>1. DescriptorInv => DescriptorsOpen
  BY SMT DEF DescriptorInv, Apart, Own, FdFields, Streams, DescriptorsOpen
<1> QED BY <1>1, DescriptorsStart, DescriptorsAreKept, PTL DEF Spec
=============================================================================
