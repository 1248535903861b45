------------------------------ MODULE Startup ------------------------------
(***************************************************************************)
(* The life of the program outside its poll loops: main() of src/main.c    *)
(* loads the configuration files, parses the options, shows a saved frame  *)
(* or a menu, connects, says hello to the host, and ends, from wherever it *)
(* is, in vt_cleanup().  The files are those of module RcFile; the loop of *)
(* a session is one place here and module Session elsewhere.               *)
(*                                                                         *)
(* Memory and descriptors are kept to what free(), close() and write() are *)
(* given: the pointers freed, in order, and the set of open descriptors.   *)
(*                                                                         *)
(* Left out: the handlers of signals cannot fail to be set, HOME is set    *)
(* (strncmp() would be given NULL), and --mono, --bold and --galax, which  *)
(* are constants of Decoder.                                               *)
(***************************************************************************)
EXTENDS RcFile

CONSTANTS
    FileSets,       \* for each run of the program the lines of its three files
    MaxOptions,     \* bound on the options of the command line
    MaxAddresses,   \* bound on the addresses that a host has
    Numbers         \* the numbers that a user may type at the menu

ASSUME StartupAssumption ==
    /\ FileSets \subseteq [1 .. 3 -> Seq(Seq(Seq(Int)))]
    /\ MaxOptions \in Nat /\ MaxAddresses \in Nat \ {0}
    /\ Numbers \subseteq Int

VARIABLES
    pc,                     \* what the program does next
    files, here,            \* the three files; which directory it runs in
    dir, unread,            \* the file being read and its lines left
    root,                   \* the array of entries that is live
    rc_data, rc_data_count, \* what session.rc_state knows of it
    cwd,                    \* session.rc_state.cwd
    session,                \* the rest of struct vt_session_state
    open,                   \* the open descriptors above the standard ones
    freed,                  \* what free(), which does nothing with NULL, was given,
                            \* and the arrays that realloc() has moved
    options,                \* options parsed
    choice, unreadable,     \* the number at the menu; is there no other to read?
    addresses,              \* addresses of the host not yet tried
    sent,                   \* what the host has been sent here
    peer,                   \* has the host not closed the connection?
    terminate_received, socket_closed

config  == <<files, here>>
loading == <<dir, unread, root, rc_data, rc_data_count, cwd>>
asking  == <<options, choice, unreadable>>
network == <<addresses, sent, peer>>
flags   == <<terminate_received, socket_closed>>
vars    == <<pc, config, loading, session, open, freed, asking, network, flags>>

\* session.selected_rc is the number of an entry, from 1, and 0 for NULL.
NULL      == <<"null", 0>>
OptionPointer(n) == <<"option", n>>
ArrayPointer(id) == <<"array", id>>
EntryPointer(field, i) == <<field, i>>
CwdPointer == <<"cwd", 0>>
Strings   == {NULL} \cup {OptionPointer(n) : n \in 0 .. MaxOptions}
             \cup {EntryPointer(field, i) : field \in {"host", "port"}, i \in 1 .. rc_data_count}

Steps == {"load", "options", "dispatch", "menu", "resolve", "connect", "connected",
          "preamble", "timer", "session", "viewer", "cleanup", "exited"}

Init ==
    /\ pc = "load"
    /\ files \in FileSets /\ here \in {"home", "elsewhere", "unknown"}
    /\ dir = 1 /\ unread = files[1]
    /\ root = NoArray /\ rc_data = 0 /\ rc_data_count = 0 /\ cwd = NULL
    /\ session = [selected |-> 0, host |-> NULL, port |-> NULL,
                  show_menu |-> FALSE, show_text |-> FALSE,
                  dump_fd |-> -1, trace_fd |-> -1, load_fd |-> -1,
                  flash_timer_fd |-> -1, socket_fd |-> -1]
    /\ open = {} /\ freed = << >>
    /\ options = 0 /\ choice = -1 /\ unreadable = FALSE
    /\ addresses = 0 /\ sent = << >> /\ peer = FALSE
    /\ terminate_received = FALSE /\ socket_closed = FALSE

\* The lowest descriptor that is free, as the kernel gives it.
NewFd == Min({fd \in 3 .. 3 + Cardinality(open) : fd \notin open})

Abend == pc' = "cleanup"

-----------------------------------------------------------------------------
(* vt_rc_load(): the files of the system, of HOME and of the working       *)
(* directory, unless that is HOME.                                         *)

LinesOf(d) == IF d = 3 /\ here # "elsewhere" THEN << >> ELSE files[d]

SkipComment ==
    /\ pc = "load" /\ unread # << >> /\ Head(unread) = Comment
    /\ unread' = Tail(unread)
    /\ UNCHANGED <<pc, config, dir, root, rc_data, rc_data_count, cwd, session, open, freed>>
    /\ UNCHANGED <<asking, network, flags>>

AddEntry ==
    /\ pc = "load" /\ unread # << >> /\ Head(unread) # Comment /\ IsEntry(Head(unread))
    /\ \E entry \in EntriesOf(Head(unread)), id \in MayBeAt(root) :
          /\ root' = Added(root, id, entry)
          /\ freed' = IF root # NoArray /\ id # root.id
                      THEN Append(freed, ArrayPointer(root.id)) ELSE freed
    /\ unread' = Tail(unread)
    /\ UNCHANGED <<pc, config, dir, rc_data, rc_data_count, cwd, session, open>>
    /\ UNCHANGED <<asking, network, flags>>

\* A line that is neither, or no memory: what this file gave is given up.
LoadFails ==
    /\ pc = "load" /\ unread # << >> /\ Head(unread) # Comment
    /\ Abend
    /\ UNCHANGED <<config, loading, session, open, freed, asking, network, flags>>

\* The end of a file, also of one that is not there: its entries are kept.
FileLoaded ==
    /\ pc = "load" /\ unread = << >>
    /\ rc_data' = root.id /\ rc_data_count' = Len(root.entries)
    /\ dir' = dir + 1
    /\ unread' = IF dir < 3 THEN LinesOf(dir + 1) ELSE << >>
    /\ cwd' = IF dir = 2 /\ here # "unknown" THEN CwdPointer ELSE cwd
    /\ pc' = IF dir < 3 THEN "load" ELSE "options"
    /\ UNCHANGED <<config, root, session, open, freed, asking, network, flags>>

-----------------------------------------------------------------------------
(* vt_parse_options().                                                     *)

Option ==
    /\ pc = "options" /\ options < MaxOptions
    /\ options' = options + 1
    /\ UNCHANGED <<config, loading, freed, choice, unreadable, network, flags>>

\* --host and --port: a blank argument is none.
SetAddress ==
    /\ Option
    /\ \E string \in {OptionPointer(options), NULL} :
          session' \in {[session EXCEPT !.host = string], [session EXCEPT !.port = string]}
    /\ UNCHANGED <<pc, open>>

\* --menu, --help and --version.
SetShown ==
    /\ Option
    /\ session' \in {[session EXCEPT !.show_menu = TRUE], [session EXCEPT !.show_text = TRUE]}
    /\ UNCHANGED <<pc, open>>

\* --dump and --trace may be given once, --file again.
OpenStream ==
    /\ Option
    /\ open' = open \cup {NewFd}
    /\ \/ session.dump_fd = -1 /\ session' = [session EXCEPT !.dump_fd = NewFd]
       \/ session.trace_fd = -1 /\ session' = [session EXCEPT !.trace_fd = NewFd]
       \/ session' = [session EXCEPT !.load_fd = NewFd]
    /\ UNCHANGED pc

\* An option that is not known or was given before, a file that is not opened:
\* fopen() for --file has set load_file to NULL by then.
OptionFails ==
    /\ Option
    /\ session' \in {session, [session EXCEPT !.load_fd = -1]}
    /\ Abend
    /\ UNCHANGED open

OptionsParsed ==
    /\ pc = "options"
    /\ pc' = "dispatch"
    /\ UNCHANGED <<config, loading, session, open, freed, asking, network, flags>>

\* What main() does next: text, a saved frame, the menu, a connection or usage.
Dispatch ==
    /\ pc = "dispatch"
    /\ pc' = CASE session.show_text -> "cleanup"
               [] session.load_fd # -1 /\ ~session.show_text -> "timer"
               [] session.show_menu /\ session.load_fd = -1 /\ ~session.show_text -> "menu"
               [] OTHER -> IF session.host = NULL \/ session.port = NULL
                           THEN "cleanup" ELSE "resolve"
    /\ UNCHANGED <<config, loading, session, open, freed, asking, network, flags>>

-----------------------------------------------------------------------------
(* vt_rc_show_menu(): choice keeps its value when scanf() reads no number, *)
(* and -1, with which it starts, is EOF.                                   *)

\* Mutant of Listed: one number more.
ListedAndNext(n) == n \in 0 .. rc_data_count

Listed(n) == n \in 0 .. rc_data_count - 1

\* A number is typed: 0 for the first entry.
TypeNumber ==
    /\ pc = "menu" /\ ~unreadable
    /\ \E n \in Numbers :
          /\ choice' = n
          /\ IF Listed(n)
             THEN /\ session' = [session EXCEPT !.selected = n + 1,
                                                !.host = EntryPointer("host", n + 1),
                                                !.port = EntryPointer("port", n + 1)]
                  /\ pc' = "resolve"
             ELSE UNCHANGED session /\ pc' = IF n = -1 THEN "cleanup" ELSE "menu"
    /\ UNCHANGED <<config, loading, open, freed, options, unreadable, network, flags>>

\* A word, which stays where it is, or the end of the input.
TypeOther ==
    /\ pc = "menu" /\ ~unreadable
    /\ unreadable' = TRUE
    /\ pc' = IF choice = -1 THEN "cleanup" ELSE "menu"
    /\ UNCHANGED <<config, loading, session, open, freed, options, choice, network, flags>>

-----------------------------------------------------------------------------
(* vt_connect().                                                           *)

Resolve ==
    /\ pc = "resolve"
    /\ \/ addresses' \in 1 .. MaxAddresses /\ pc' = "connect"
       \/ UNCHANGED addresses /\ Abend
    /\ UNCHANGED <<config, loading, session, open, freed, asking, sent, peer, flags>>

Connect ==
    /\ pc = "connect" /\ addresses > 0
    /\ session' = [session EXCEPT !.socket_fd = NewFd]
    /\ open' = open \cup {NewFd}
    /\ peer' = TRUE
    /\ pc' = "connected"
    /\ UNCHANGED <<config, loading, freed, asking, addresses, sent, flags>>

\* socket() fails, or connect(): then the socket is closed and socket_fd keeps
\* its number.
ConnectFails ==
    /\ pc = "connect" /\ addresses > 0
    /\ session' \in {[session EXCEPT !.socket_fd = -1], [session EXCEPT !.socket_fd = NewFd]}
    /\ addresses' = addresses - 1
    /\ UNCHANGED <<pc, config, loading, open, freed, asking, sent, peer, flags>>

NoAddressLeft ==
    /\ pc = "connect" /\ addresses = 0
    /\ pc' = "connected"
    /\ UNCHANGED <<config, loading, session, open, freed, asking, network, flags>>

\* Mutant of IsValidFd: every number is a descriptor.
AnyIsValidFd(fd) == fd # -1

\* vt_is_valid_fd()
IsValidFd(fd) == fd \in open

CheckSocket ==
    /\ pc = "connected"
    /\ IF IsValidFd(session.socket_fd)
       THEN pc' = "preamble" /\ UNCHANGED session
       ELSE Abend /\ session' = [session EXCEPT !.socket_fd = -1]
    /\ UNCHANGED <<config, loading, open, freed, asking, network, flags>>

\* write() of all the bytes succeeds while the host is there, and may when it
\* has just gone.
Write(bytes) ==
    /\ session.socket_fd \in open
    /\ sent' = IF peer THEN sent \o bytes ELSE sent
WriteFails == ~peer \/ session.socket_fd \notin open

SelectedEntry == root.entries[session.selected]
START_OF_TEXT == 22
Preamble ==
    <<START_OF_TEXT>> \o (IF session.selected = 0 THEN << >> ELSE SelectedEntry.preamble)

SendPreamble ==
    /\ pc = "preamble"
    /\ \/ Write(Preamble) /\ pc' = "timer"
       \/ WriteFails /\ UNCHANGED sent /\ Abend
    /\ UNCHANGED <<config, loading, session, open, freed, asking, addresses, peer, flags>>

\* timerfd_create() and timerfd_settime(), of a session or of vt_show_file().
CreateTimer ==
    /\ pc = "timer"
    /\ \/ /\ session' = [session EXCEPT !.flash_timer_fd = NewFd]
          /\ open' = open \cup {NewFd}
          /\ pc' \in {IF session.load_fd # -1 THEN "viewer" ELSE "session", "cleanup"}
       \/ UNCHANGED <<session, open>> /\ Abend
    /\ UNCHANGED <<config, loading, freed, asking, network, flags>>

-----------------------------------------------------------------------------
(* The loops, and the end.                                                 *)

\* Mutant of LeaveLoop: the viewer looks at the flag of the session.
LeaveLoopWhenClosed ==
    /\ \/ pc = "session" /\ (terminate_received \/ socket_closed)
       \/ pc = "viewer" /\ socket_closed
    /\ pc' = "cleanup"
    /\ UNCHANGED <<config, loading, session, open, freed, asking, network, flags>>

\* The flags end a loop; the viewer looks at one of them.
LeaveLoop ==
    /\ \/ pc = "session" /\ (terminate_received \/ socket_closed)
       \/ pc = "viewer" /\ terminate_received
    /\ pc' = "cleanup"
    /\ UNCHANGED <<config, loading, session, open, freed, asking, network, flags>>

\* poll(), or open() or close() for a download, fails.
LoopFails ==
    /\ pc \in {"session", "viewer"}
    /\ Abend
    /\ UNCHANGED <<config, loading, session, open, freed, asking, network, flags>>

\* A key is not delivered, with SIGPIPE or without.
KeyNotSent ==
    /\ pc = "session" /\ ~peer
    /\ socket_closed' = TRUE
    /\ terminate_received' \in {terminate_received, TRUE}
    /\ UNCHANGED <<pc, config, loading, session, open, freed, asking, network>>

DEFAULT_POSTAMBLE == <<42, 57, 48, 95>>     \* '*90_'

Postamble ==
    IF session.selected = 0 \/ SelectedEntry.postamble = << >> THEN DEFAULT_POSTAMBLE
    ELSE SelectedEntry.postamble

\* vt_rc_free(): the strings of every entry, the array and the directory.
EntryFrees ==
    [k \in 1 .. 3 * rc_data_count |->
        EntryPointer(<<"name", "host", "port">>[((k - 1) % 3) + 1], (k - 1) \div 3 + 1)]

RcFrees ==
    (IF rc_data_count = 0 THEN << >> ELSE EntryFrees \o <<ArrayPointer(rc_data)>>)
    \o (IF cwd = NULL THEN << >> ELSE <<cwd>>)

\* Mutant of OptionFrees: the strings of the options and those of the menu alike.
OptionFreesAlways == <<session.host, session.port>>

\* "Otherwise they'll be freed by vt_rc_free()"
OptionFrees == IF session.selected = 0 THEN <<session.host, session.port>> ELSE << >>

StreamsAndTimer ==
    {session.dump_fd, session.trace_fd, session.load_fd, session.flash_timer_fd}

\* vt_cleanup(): the socket stays open if the host has gone.
Cleanup ==
    /\ pc = "cleanup"
    /\ IF session.socket_fd = -1
       THEN open' = open \ StreamsAndTimer /\ UNCHANGED sent
       ELSE \/ Write(Postamble) /\ open' = open \ (StreamsAndTimer \cup {session.socket_fd})
            \/ WriteFails /\ open' = open \ StreamsAndTimer /\ UNCHANGED sent
    /\ freed' = freed \o RcFrees \o OptionFrees
    /\ pc' = "exited"
    /\ UNCHANGED <<config, loading, session, asking, addresses, peer, flags>>

Program ==
    \/ SkipComment \/ AddEntry \/ LoadFails \/ FileLoaded
    \/ SetAddress \/ SetShown \/ OpenStream \/ OptionFails \/ OptionsParsed
    \/ Dispatch
    \/ Resolve \/ Connect \/ ConnectFails \/ NoAddressLeft \/ CheckSocket \/ SendPreamble
    \/ CreateTimer \/ LeaveLoop \/ Cleanup

-----------------------------------------------------------------------------
(* What surrounds the program.                                             *)

HostCloses ==
    /\ peer
    /\ peer' = FALSE
    /\ UNCHANGED <<pc, config, loading, session, open, freed, asking, addresses, sent, flags>>

\* vt_terminate() for SIGINT, SIGTERM, SIGQUIT or SIGHUP.  It makes scanf()
\* give up reading, unless it comes just before.
Signal ==
    /\ pc # "exited"
    /\ terminate_received' = TRUE
    /\ \/ UNCHANGED pc
       \/ pc = "menu" /\ choice = -1 /\ Abend
    /\ UNCHANGED <<config, loading, session, open, freed, asking, network, socket_closed>>

Next ==
    \/ Program
    \/ TypeNumber \/ TypeOther
    \/ LoopFails \/ KeyNotSent \/ HostCloses \/ Signal

\* The program runs; nothing makes the user, the host or a signal act.
Spec == Init /\ [][Next]_vars /\ WF_vars(Program)

-----------------------------------------------------------------------------
(* Invariants.                                                             *)

Loaded == dir = 4

\* The places of the lines that are read and are no comments, each with how many
\* there are up to it, and the lines in that order.
LineAt(p) == LinesOf(p[1])[p[2]]
EntryLines ==
    {p \in UNION {{d} \X DOMAIN LinesOf(d) : d \in 1 .. 3} : LineAt(p) # Comment}
Precedes(p, q) == p[1] < q[1] \/ (p[1] = q[1] /\ p[2] <= q[2])
NumberOf(p) == Cardinality({q \in EntryLines : Precedes(q, p)})
ConfigLines ==
    [k \in 1 .. Cardinality(EntryLines) |->
        LineAt(CHOOSE p \in EntryLines : NumberOf(p) = k)]

Fds == 3 .. 4 + MaxOptions

\* The variables have their types; a choice at the menu is one of the entries.
TypeOK ==
    /\ pc \in Steps /\ dir \in 1 .. 4
    /\ rc_data \in Nat /\ rc_data_count \in Nat /\ cwd \in {NULL, CwdPointer}
    /\ session.selected \in 0 .. rc_data_count
    /\ session.host \in Strings /\ session.port \in Strings
    /\ open \subseteq Fds
    /\ options \in 0 .. MaxOptions /\ choice \in Int /\ addresses \in 0 .. MaxAddresses
    /\ peer \in BOOLEAN /\ terminate_received \in BOOLEAN /\ socket_closed \in BOOLEAN

\* "All will be read and when displaying the menu, all entries will be listed"
\* (vidtex.1:111): over three files and every reallocation, what the menu lists
\* are the entries of all the lines, in order.
EntriesMatchFiles ==
    Loaded =>
        /\ rc_data = root.id
        /\ rc_data_count = Len(ConfigLines)
        /\ \A i \in 1 .. rc_data_count : root.entries[i] \in EntriesOf(ConfigLines[i])

\* No pointer is written behind the array: its size is computed before count is
\* incremented, and is enough because an entry is larger than two pointers.
WritesWithinArray == SIZEOF_POINTER * Len(root.entries) <= root.bytes

\* Once the files are loaded, nothing that they or the options allocated is
\* freed twice, whether host and port belong to an entry or to the options.
FreedOnce ==
    Loaded => \A i, j \in DOMAIN freed : i # j /\ freed[i] # NULL => freed[j] # freed[i]

\* Every descriptor that the session knows is open, and no two are the same,
\* whichever steps failed: what vt_cleanup() writes to and closes is its own.
DescriptorsOpen ==
    pc \notin {"connect", "connected", "exited"} =>
        \A field \in {"dump_fd", "trace_fd", "load_fd", "flash_timer_fd", "socket_fd"} :
            \/ session[field] = -1
            \/ /\ session[field] \in open
               /\ \A other \in {"dump_fd", "trace_fd", "load_fd", "flash_timer_fd", "socket_fd"} :
                     other # field => session[other] # session[field]

\* What a line asks to be sent: "bytes ... in decimal, separated by spaces"
\* (vidtex.1:122), as many as an entry holds.
IsAmble(field) == Words(field) \in Seq(0 .. 255) /\ Len(Words(field)) <= MAX_AMBLE_LEN
OrDefault(bytes) == IF bytes = << >> THEN DEFAULT_POSTAMBLE ELSE bytes

\* "logoff will be done automatically" (vidtex.1:92): whatever made the program
\* end, a host that was greeted and is still there has been sent the preamble
\* and then the postamble of its line, or the default ones without a line.
LogsOff ==
    pc = "exited" /\ peer /\ sent # << >> =>
        IF session.selected = 0 THEN sent = <<START_OF_TEXT>> \o DEFAULT_POSTAMBLE
        ELSE LET token == Tokens(ConfigLines[session.selected])
             IN  Len(token) = 5 /\ IsAmble(token[4]) /\ IsAmble(token[5]) =>
                     sent = <<START_OF_TEXT>> \o Words(token[4])
                                \o OrDefault(Words(token[5]))

-----------------------------------------------------------------------------
(* Liveness.                                                               *)

\* Past the menu a signal ends the program: while it connects, in a session and
\* in the viewer.
SignalEndsProgram ==
    terminate_received /\ pc \notin {"load", "options", "dispatch", "menu"} ~> pc = "exited"
=============================================================================
