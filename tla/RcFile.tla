------------------------------- MODULE RcFile -------------------------------
(***************************************************************************)
(* The configuration files of src/rc.c: what a line says, the entry that   *)
(* is made of it and the array of pointers that the entries are kept in.   *)
(*                                                                         *)
(* A line is the sequence of its fields and a field the sequence of its    *)
(* words: a number, blanks (BLANK) or any other text (a number below       *)
(* BLANK).  Lines are taken to fit the buffer of BUFFER_LEN bytes.         *)
(***************************************************************************)
EXTENDS Integers, SequencesExt

CONSTANTS
    MAX_AMBLE_LEN,      \* bytes of a preamble or postamble (10)
    SIZEOF_ENTRY,       \* sizeof(struct vt_rc_entry) (56)
    SIZEOF_POINTER,     \* sizeof(struct vt_rc_entry *) (8)
    Garbage             \* what the ambles of an entry may be before they are set

ASSUME RcAssumption ==
    /\ MAX_AMBLE_LEN \in Nat
    /\ SIZEOF_POINTER \in Nat \ {0}
    /\ SIZEOF_ENTRY \in Nat
    /\ 2 * SIZEOF_POINTER <= SIZEOF_ENTRY
    /\ Garbage \subseteq Seq(0 .. 255) /\ Garbage # {}

BLANK   == -1
Comment == << >>    \* a line that starts with '#'

\* strtok(): fields that are empty do not count.
Tokens(line) == SelectSeq(line, LAMBDA field : field # << >>)

\* vt_rc_duplicate_token(): blanks at the end are removed; << >> stands for NULL.
Duplicate(token) ==
    SubSeq(token, 1, Max({0} \cup {i \in DOMAIN token : token[i] # BLANK}))

\* sscanf() skips blanks.
Words(field) == SelectSeq(field, LAMBDA word : word # BLANK)

\* Mutant of ScanArray: reading stops at a blank.
ScanArrayToBlank(token) ==
    LET n == Max({k \in 0 .. Len(token) : k <= MAX_AMBLE_LEN
                                          /\ \A i \in 1 .. k : token[i] >= 0})
    IN  [i \in 1 .. n |-> token[i] % 256]

\* vt_scan_array(): the numbers up to the first word that is none, as bytes.
ScanArray(token) ==
    LET words == Words(token)
        n == Max({k \in 0 .. Len(words) : k <= MAX_AMBLE_LEN
                                          /\ \A i \in 1 .. k : words[i] >= 0})
    IN  [i \in 1 .. n |-> words[i] % 256]

\* A name, a host and a port are there; the other fields are "optional".
IsEntry(line) ==
    /\ Len(Tokens(line)) >= 3
    /\ \A i \in 1 .. 3 : Duplicate(Tokens(line)[i]) # << >>

Given(line, i) == i <= Len(Tokens(line))

\* The entries that malloc() and a line may give: nothing clears an entry, so
\* the ambles that the line does not have are what its memory held.
EntriesOf(line) ==
    LET token == Tokens(line)
        Amble(i) == IF Given(line, i) THEN {ScanArray(token[i])} ELSE Garbage
    IN  {[name |-> Duplicate(token[1]), host |-> Duplicate(token[2]),
          port |-> Duplicate(token[3]), preamble |-> pre, postamble |-> post] :
            pre \in Amble(4), post \in Amble(5)}

-----------------------------------------------------------------------------
(* The array: where it is (0 is NULL), its size and the entries in it.     *)

NoArray == [id |-> 0, bytes |-> 0, entries |-> << >>]

\* Mutant of Size: the size of a pointer.
SizeOfPointers(array) ==
    IF array = NoArray THEN SIZEOF_POINTER ELSE SIZEOF_POINTER * Len(array.entries)

\* The bytes asked for before another entry is added: the array is one of
\* pointers, its size is counted in entries, and before the addition.
Size(array) ==
    IF array = NoArray THEN SIZEOF_ENTRY ELSE SIZEOF_ENTRY * Len(array.entries)

\* Mutant of Added: the array is started again.
AddedAlone(array, id, entry) ==
    [id |-> id, bytes |-> Size(array), entries |-> <<entry>>]

\* malloc() or realloc() at id, and root[count++] = entry.
Added(array, id, entry) ==
    [id |-> id, bytes |-> Size(array), entries |-> Append(array.entries, entry)]

\* Where the array may be after malloc() or realloc(): where it was, or moved.
MayBeAt(array) == IF array = NoArray THEN {1} ELSE {array.id, array.id + 1}
=============================================================================
