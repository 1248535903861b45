------------------------------- MODULE Session -------------------------------
(***************************************************************************)
(* The poll loop of src/main.c, with the telesoftware download that it     *)
(* runs, between a Viewdata host at the other end of a TCP connection, a   *)
(* user at the keyboard, the flash timer and signals.                      *)
(*                                                                         *)
(* Each turn of the loop tests the two flags, waits in poll(), and then    *)
(* serves the socket, the keyboard and the timer, in that order, as far as *)
(* poll() found them ready.  The host, the user, the timer and signals may *)
(* act between any two of these steps.                                     *)
(*                                                                         *)
(* The screen is left out: module Decoder takes the same bytes and keys.   *)
(* A read returns any part of what has arrived, up to a buffer of          *)
(* IO_BUFFER_LEN bytes.                                                    *)
(***************************************************************************)
EXTENDS Telesoft, FiniteSetsExt

CONSTANTS
    Pages,          \* the pages of the host
    HomePage,       \* the one that it shows first
    Transmission,   \* what it sends for a page
    PageAfter,      \* the page that a key leads to from a page
    IO_BUFFER_LEN,  \* bytes read at once (2048)
    Keys            \* what the user may type, as vt_transform_input() returns it

KEY_DOWNLOAD == 7       \* CTRL-g
SCREEN_KEYS  == {2, 6, 18}  \* CTRL-b, CTRL-f and CTRL-r
MORE         == 95      \* '_', the key of the next frame
LOGOFF       == 42      \* '*90_' or the postamble, one key here

ASSUME SessionAssumption ==
    /\ HomePage \in Pages
    /\ Transmission \in [Pages -> Seq(Byte)]
    /\ PageAfter \in [Pages \X Ascii -> Pages]
    /\ IO_BUFFER_LEN \in Nat \ {0}
    /\ Keys \subseteq Ascii

VARIABLES   \* first the program, then, from disk on, what surrounds it
    pc,                 \* what it does next
    revents,            \* what poll() found ready
    buffer,             \* bytes read and not yet decoded
    tele,               \* session.tele_state
    can_download, is_downloading,
    download_fd,        \* the descriptor it writes to, or NoFd
    opened,             \* the descriptors open for downloads: the names of their files
    socket_closed, terminate_received,
    disk,               \* the files downloaded: their content by their name
    to_client, to_host, \* bytes on their way
    host,               \* the page that the host shows
    host_open,          \* has the host not closed the connection?
    typed,              \* keys typed and not yet read
    timer               \* has the flash timer expired and not been read?

download == <<can_download, is_downloading, download_fd, opened>>
program == <<pc, revents, buffer, tele, download>>
flags   == <<socket_closed, terminate_received>>
wire    == <<to_client, to_host>>
outside == <<host, host_open, typed, timer>>
vars    == <<program, flags, disk, wire, outside>>

NoFd    == -1
NoFile  == << >>        \* no file has an empty name
Names   == Seq(Ascii)
Sources == {"socket", "stdin", "timer"}
Places  == {"test", "poll", "socket", "decode", "stdin", "timer", "cleanup", "exited"}

Init ==
    /\ pc = "test" /\ revents = {} /\ buffer = << >>
    /\ tele = TeleReset
    /\ can_download = FALSE /\ is_downloading = FALSE /\ download_fd = NoFd
    /\ socket_closed = FALSE /\ terminate_received = FALSE
    /\ disk = << >> /\ opened = << >>
    /\ to_client = Transmission[HomePage] /\ to_host = << >>
    /\ host = HomePage /\ host_open = TRUE
    /\ typed = << >> /\ timer = FALSE

-----------------------------------------------------------------------------
(* Files.                                                                  *)

\* The name of the file that download_fd is open for.
download_file == IF download_fd \in DOMAIN opened THEN opened[download_fd] ELSE NoFile

\* open() returns the lowest descriptor that is free.  (Those of the rest of the
\* program are not counted.)
NewFd == Min({fd \in 0 .. Cardinality(DOMAIN opened) : fd \notin DOMAIN opened})

\* close(download_fd)
Closed == [fd \in DOMAIN opened \ {download_fd} |-> opened[fd]]

-----------------------------------------------------------------------------
(* The program.                                                            *)

\* while (!(terminate_received || socket_closed))
Test ==
    /\ pc = "test"
    /\ pc' = IF terminate_received \/ socket_closed THEN "cleanup" ELSE "poll"
    /\ UNCHANGED <<revents, buffer, tele, download>>
    /\ UNCHANGED <<flags, disk, wire, outside>>

\* Mutant of Ready: the timer is not watched.
ReadyWithoutTimer ==
    {s \in Sources : \/ s = "socket" /\ (to_client # << >> \/ ~host_open)
                     \/ s = "stdin" /\ typed # << >>}

\* What poll() would report.  At the end of the connection a socket is readable.
Ready ==
    {s \in Sources : \/ s = "socket" /\ (to_client # << >> \/ ~host_open)
                     \/ s = "stdin" /\ typed # << >>
                     \/ s = "timer" /\ timer}

Poll ==
    /\ pc = "poll"
    /\ Ready # {}
    /\ revents' = Ready
    /\ pc' = "socket"
    /\ UNCHANGED <<buffer, tele, download>>
    /\ UNCHANGED <<flags, disk, wire, outside>>

\* Send one byte.  When the host has closed the connection the first byte is
\* still accepted; a later one fails, with SIGPIPE or without.
Write(key) ==
    \/ /\ host_open
       /\ to_host' = Append(to_host, key)
       /\ UNCHANGED flags
    \/ /\ ~host_open
       /\ \/ UNCHANGED flags
          \/ socket_closed' = TRUE /\ terminate_received' \in {terminate_received, TRUE}
       /\ UNCHANGED to_host

\* read() finds bytes.
ReadSocket ==
    /\ pc = "socket"
    /\ "socket" \in revents /\ to_client # << >>
    /\ \E n \in 1 .. Len(to_client) :
          /\ n <= IO_BUFFER_LEN
          /\ buffer' = SubSeq(to_client, 1, n)
          /\ to_client' = SubSeq(to_client, n + 1, Len(to_client))
    /\ tele' = TeleStart(tele)
    /\ pc' = "decode"
    /\ UNCHANGED <<revents, download>>
    /\ UNCHANGED <<flags, disk, to_host, outside>>

\* The socket is not ready, or read() returns 0 and nothing is done about it.
SkipSocket ==
    /\ pc = "socket"
    /\ "socket" \notin revents \/ to_client = << >>
    /\ pc' = "stdin"
    /\ UNCHANGED <<revents, buffer, tele, download>>
    /\ UNCHANGED <<flags, disk, wire, outside>>

\* One turn of the loop of vt_tele_decode(), called to look for a header when
\* nothing is being downloaded: then fd_out is -1.
DecodeByte ==
    /\ pc = "decode" /\ buffer # << >>
    /\ tele' = TeleByte(tele, Head(buffer))
    /\ disk' = IF ~is_downloading THEN disk
               ELSE [disk EXCEPT ![download_file] =
                        disk[download_file] \o TeleOutput(tele, Head(buffer))]
    /\ buffer' = Tail(buffer)
    /\ UNCHANGED <<pc, revents, download>>
    /\ UNCHANGED <<flags, wire, outside>>

Decoded == pc = "decode" /\ buffer = << >>

HeaderLookedFor ==
    /\ Decoded /\ ~is_downloading
    /\ can_download' = HeaderDecoded(tele)
    /\ pc' = "stdin"
    /\ UNCHANGED <<revents, buffer, tele, is_downloading, download_fd, opened>>
    /\ UNCHANGED <<flags, disk, wire, outside>>

\* Part of a frame, or a whole one: then ask for the next.
FrameContinues ==
    /\ Decoded /\ is_downloading /\ ~tele.end_of_file
    /\ IF tele.end_of_frame THEN Write(MORE) ELSE UNCHANGED <<to_host, flags>>
    /\ pc' = "stdin"
    /\ UNCHANGED <<revents, buffer, tele, download>>
    /\ UNCHANGED <<disk, to_client, outside>>

\* Mutants of FileEnds: the file is not closed, and the download goes on.
FileEndsWithoutClose ==
    /\ Decoded /\ is_downloading /\ tele.end_of_file
    /\ is_downloading' = FALSE /\ can_download' = FALSE
    /\ tele' = TeleReset
    /\ download_fd' = NoFd
    /\ Write(MORE)
    /\ pc' = "stdin"
    /\ UNCHANGED <<revents, buffer, opened, disk, to_client, outside>>
FileEndsWhileDownloading ==
    /\ Decoded /\ is_downloading /\ tele.end_of_file
    /\ tele' = TeleReset
    /\ opened' = Closed /\ download_fd' = NoFd
    /\ Write(MORE)
    /\ pc' = "stdin"
    /\ UNCHANGED <<revents, buffer, can_download, is_downloading, disk, to_client, outside>>

\* The file is complete: close it and leave the last frame.
FileEnds ==
    /\ Decoded /\ is_downloading /\ tele.end_of_file
    /\ is_downloading' = FALSE /\ can_download' = FALSE
    /\ tele' = TeleReset
    /\ opened' = Closed /\ download_fd' = NoFd
    /\ Write(MORE)
    /\ pc' = "stdin"
    /\ UNCHANGED <<revents, buffer, disk, to_client, outside>>

\* close() fails, with the descriptor free or not: the program gives up, with
\* download_fd as it was.
CloseFails ==
    /\ Decoded /\ is_downloading /\ tele.end_of_file
    /\ opened' \in {opened, Closed}
    /\ pc' = "cleanup"
    /\ UNCHANGED <<revents, buffer, tele, can_download, is_downloading, download_fd>>
    /\ UNCHANGED <<flags, disk, wire, outside>>

KeyReady == pc = "stdin" /\ "stdin" \in revents /\ typed # << >>
ReadKey  == typed' = Tail(typed)

SkipKey ==
    /\ pc = "stdin" /\ "stdin" \notin revents
    /\ pc' = "timer"
    /\ UNCHANGED <<revents, buffer, tele, download>>
    /\ UNCHANGED <<flags, disk, wire, outside>>

\* Mutant of StartDownload: the first frame is not asked for.
StartDownloadSilently ==
    /\ KeyReady /\ Head(typed) = KEY_DOWNLOAD /\ can_download
    /\ tele.filename # << >>
    /\ is_downloading' = TRUE
    /\ download_fd' = NewFd
    /\ opened' = [fd \in DOMAIN opened \cup {NewFd} |->
                     IF fd = NewFd THEN tele.filename ELSE opened[fd]]
    /\ disk' = [name \in DOMAIN disk \cup {tele.filename} |->
                   IF name = tele.filename THEN << >> ELSE disk[name]]
    /\ ReadKey
    /\ pc' = "timer"
    /\ UNCHANGED <<revents, buffer, tele, can_download>>
    /\ UNCHANGED <<flags, wire, host, host_open, timer>>

\* CTRL-g, whether a file is being downloaded already or not: the file is
\* created, or emptied if it exists, and a descriptor in download_fd is
\* overwritten without a close().
StartDownload ==
    /\ KeyReady /\ Head(typed) = KEY_DOWNLOAD /\ can_download
    /\ tele.filename # << >>
    /\ is_downloading' = TRUE
    /\ download_fd' = NewFd
    /\ opened' = [fd \in DOMAIN opened \cup {NewFd} |->
                     IF fd = NewFd THEN tele.filename ELSE opened[fd]]
    /\ disk' = [name \in DOMAIN disk \cup {tele.filename} |->
                   IF name = tele.filename THEN << >> ELSE disk[name]]
    /\ Write(MORE)
    /\ ReadKey
    /\ pc' = "timer"
    /\ UNCHANGED <<revents, buffer, tele, can_download>>
    /\ UNCHANGED <<to_client, host, host_open, timer>>

\* open() fails: always for the empty name, perhaps for others.
OpenFails ==
    /\ KeyReady /\ Head(typed) = KEY_DOWNLOAD /\ can_download
    /\ is_downloading' = TRUE
    /\ download_fd' = NoFd
    /\ ReadKey
    /\ pc' = "cleanup"
    /\ UNCHANGED <<revents, buffer, tele, can_download, opened>>
    /\ UNCHANGED <<flags, disk, wire, host, host_open, timer>>

\* Keys of the screen, and CTRL-g when there is nothing to download.
KeepKey ==
    /\ KeyReady
    /\ \/ Head(typed) \in SCREEN_KEYS
       \/ Head(typed) = KEY_DOWNLOAD /\ ~can_download
    /\ ReadKey
    /\ pc' = "timer"
    /\ UNCHANGED <<revents, buffer, tele, download>>
    /\ UNCHANGED <<flags, disk, wire, host, host_open, timer>>

\* Any other key is sent to the host.
SendKey ==
    /\ KeyReady /\ Head(typed) \notin SCREEN_KEYS \cup {KEY_DOWNLOAD}
    /\ Write(Head(typed))
    /\ ReadKey
    /\ pc' = "timer"
    /\ UNCHANGED <<revents, buffer, tele, download>>
    /\ UNCHANGED <<disk, to_client, host, host_open, timer>>

ServeTimer ==
    /\ pc = "timer"
    /\ timer' = IF "timer" \in revents THEN FALSE ELSE timer
    /\ pc' = "test"
    /\ UNCHANGED <<revents, buffer, tele, download>>
    /\ UNCHANGED <<flags, disk, wire, host, host_open, typed>>

\* vt_cleanup(): log off and close the file of download_fd, if there is one.
Cleanup ==
    /\ pc = "cleanup"
    /\ to_host' = IF host_open THEN Append(to_host, LOGOFF) ELSE to_host
    /\ opened' = Closed
    /\ pc' = "exited"
    /\ UNCHANGED <<revents, buffer, tele, can_download, is_downloading, download_fd>>
    /\ UNCHANGED <<flags, disk, to_client, outside>>

Program ==
    \/ Test \/ Poll
    \/ ReadSocket \/ SkipSocket \/ DecodeByte
    \/ HeaderLookedFor \/ FrameContinues \/ FileEnds \/ CloseFails
    \/ SkipKey \/ StartDownload \/ OpenFails \/ KeepKey \/ SendKey
    \/ ServeTimer \/ Cleanup

-----------------------------------------------------------------------------
(* What surrounds the program.                                             *)

\* The host answers a key with a page, and a logoff by closing.
HostAnswers ==
    /\ host_open /\ to_host # << >>
    /\ IF Head(to_host) = LOGOFF
       THEN host_open' = FALSE /\ UNCHANGED <<host, to_client>>
       ELSE /\ host' = PageAfter[<<host, Head(to_host)>>]
            /\ to_client' = to_client \o Transmission[host']
            /\ UNCHANGED host_open
    /\ to_host' = Tail(to_host)
    /\ UNCHANGED <<program, flags, disk, typed, timer>>

\* The host or the network ends the connection.
HostCloses ==
    /\ host_open
    /\ host_open' = FALSE
    /\ to_host' = << >>
    /\ UNCHANGED <<program, flags, disk, to_client, host, typed, timer>>

TypeKey(key) ==
    /\ typed' = Append(typed, key)
    /\ UNCHANGED <<program, flags, disk, wire, host, host_open, timer>>

TimerExpires ==
    /\ ~timer
    /\ timer' = TRUE
    /\ UNCHANGED <<program, flags, disk, wire, host, host_open, typed>>

\* SIGINT, SIGTERM, SIGQUIT or SIGHUP: vt_terminate().  It interrupts poll(),
\* or comes between the test of the flags and poll(), which then waits.
Signal ==
    /\ pc # "exited"
    /\ terminate_received' = TRUE
    /\ \/ UNCHANGED pc
       \/ pc = "poll" /\ pc' = "test"
    /\ UNCHANGED <<revents, buffer, tele, download>>
    /\ UNCHANGED <<socket_closed, disk, wire, outside>>

Next ==
    \/ Program
    \/ HostAnswers \/ HostCloses
    \/ \E key \in Keys : TypeKey(key)
    \/ TimerExpires \/ Signal

\* The program runs, the timer is periodic and the host answers.  Nothing
\* makes the user type or a signal come.
Fairness == WF_vars(Program) /\ WF_vars(TimerExpires) /\ WF_vars(HostAnswers)

Spec == Init /\ [][Next]_vars /\ Fairness

-----------------------------------------------------------------------------
(* Invariants, whatever the user does.                                     *)

\* The variables have their types.  Of vt_tele_decode(): only |G and |Z wait
\* for more bytes than their code, one and three.
TypeOK ==
    /\ pc \in Places /\ revents \subseteq Sources
    /\ buffer \in Seq(Byte)
    /\ tele \in TeleStates /\ Waits(tele)
    /\ can_download \in BOOLEAN /\ is_downloading \in BOOLEAN
    /\ download_fd \in Nat \cup {NoFd}
    /\ DOMAIN opened \subseteq Nat /\ IsFiniteSet(DOMAIN opened)
    /\ \A fd \in DOMAIN opened : opened[fd] \in Names
    /\ socket_closed \in BOOLEAN /\ terminate_received \in BOOLEAN
    /\ DOMAIN disk \subseteq Names
    /\ \A name \in DOMAIN disk : disk[name] \in Seq(Byte)
    /\ to_client \in Seq(Byte) /\ to_host \in Seq(Ascii)
    /\ host \in Pages /\ host_open \in BOOLEAN /\ typed \in Seq(Ascii) /\ timer \in BOOLEAN

\* Whatever the host sends and however often CTRL-g is typed, is_downloading
\* and download_fd agree: the decoder writes to a descriptor that is open for a
\* file, and without a download there is none for vt_cleanup() to close.
DecodesIntoOpenFile ==
    pc \notin {"cleanup", "exited"} =>
        /\ is_downloading =>
               download_fd \in DOMAIN opened /\ opened[download_fd] \in DOMAIN disk
        /\ ~is_downloading => download_fd = NoFd

\* Nothing closes a descriptor that download_fd no longer holds.
Lost == DOMAIN opened \ {download_fd}

\* A descriptor is lost, and open until the program ends, only when CTRL-g is typed
\* while a file is being downloaded (main.c:246): a download that comes to its end,
\* one that is cut off and an open() that fails lose none.
LosesFileOnlyToRestart ==
    [][\/ Lost' \subseteq Lost
       \/ is_downloading /\ KeyReady /\ Head(typed) = KEY_DOWNLOAD]_vars

-----------------------------------------------------------------------------
(* Liveness.                                                               *)

\* A signal ends the session, even one that comes between the test of the
\* flags and poll(): the flash timer wakes the loop.
SignalEndsSession == terminate_received ~> pc = "exited"
=============================================================================
