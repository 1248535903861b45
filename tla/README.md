# vidtex in TLA+

vidtex is a terminal client for Viewdata (Prestel-like) services: it connects to
a host over TCP, decodes the bytes that it sends into a 24 by 40 screen of
curses, sends keys back, saves frames and downloads telesoftware. These modules
model its decoder, its saved frames, its telesoftware decoder, its session loop,
and the way from its configuration files through menu and connection to its end.
TLC checks them on small instances and TLAPS proves the main invariants
for every value of the constants.

## The system

| Component | Code | State | Operations |
|---|---|---|---|
| Viewdata decoder | `decoder.c`, `decoder.h` | cursor, flags, after_flags, `dheight_low_row`, cells, frame buffer, flash and reveal phase, curses window | init, decode a byte, toggle flash, toggle reveal, save |
| Fonts | `bedstead.c`, `galax.c` | none | code to code point |
| Saved frames | `vt_save`, `vt_decoder_save`, `vt_show_file` | the file | save, show |
| Telesoftware decoder | `telesoft.c` | `struct vt_tele_state` | reset, decode a byte, look for a header |
| Session loop | `main`, `vt_terminate`, `vt_cleanup` | `can_download`, `is_downloading`, `download_fd`, `terminate_received`, `socket_closed` | wait, serve socket, keyboard and timer, clean up |
| Connection | `vt_connect`, `vt_is_valid_fd` | `socket_fd` | connect, send the preamble |
| Startup, options | `main`, `vt_parse_options` | the session's resources | load, parse, menu, viewer or connection |
| Configuration | `rc.c` | array of entries | load up to three files, menu, free |
| Colour pairs | `vt_init_colors` | table of curses | fill |
| Trace, dump, log | `vt_trace`, `vt_dump`, `log.h` | files | write text |

How they interact. `main` is one thread around `poll()`. Bytes read from the
socket go to the Viewdata decoder and then to the telesoftware decoder, which
writes to a file while a download runs; the loop answers every end of a frame
with `_`. Keys go to the decoder (reveal, bold), to a file (save), to the
download, or to the host. A timer of one second toggles the flash phase. Signal
handlers set two flags that the loop tests. `vt_cleanup` runs at exit and works
on whatever the session holds by then.

What is hard here:

- The decoder is a machine with a lot of memory between bytes: set-at and
  set-after attributes, held mosaics, double height that draws on another row
  and makes a later row be ignored, cursor controls that leave all of it as it
  is. The timer and the keys act between any two bytes and redraw a part.
- A saved frame is decoded again from a fresh start, so nothing of what came
  before the frame may matter.
- The telesoftware decoder sees frames split at any byte, and the session must
  ask for each next frame once. Its flags live on across pages and downloads.
- The host, the user, signals and the timer interleave with every step of the
  loop; `poll()` has no timeout, the host may close at any moment.
- Every step of `main` may fail, and `vt_cleanup` finds what was done by then:
  an array that three files grew, strings that belong to an entry or to the
  options, descriptors that were closed on the way, a host that was greeted.

What makes each component correct is stated by the properties below. The list of
hazards, with their lines and the properties that cover them or the reason why
none does, is in `PROJECT.json`.

## Modules

| Module | What it is |
|---|---|
| `CharMap` | both fonts, as functions on all codes |
| `Decoder` | the Viewdata decoder, its invariants and its refinement of `ScreenCursor` |
| `ScreenCursor` | abstract: a cursor on the ring of all positions |
| `SerialAttributes` | reference definition of what the codes of a row ask for |
| `FrameFile` | a live decoder, the file of CTRL-f and the decoder of `--file` |
| `Telesoft` | the telesoftware decoder |
| `Session` | the loop of `main` with its downloads, and what surrounds it |
| `ViewdataHost` | external: a host with telesoftware pages, and what a user gets from it |
| `RcFile` | lines of a configuration file, their entries and the array of entries |
| `Startup` | `main` outside its loops, with `rc.c`, options, menu, `vt_connect` and `vt_cleanup` |
| `SessionClaims`, `SerialClaims`, `StartupClaims` | statements of comments and the man page that the code does not meet |
| `DecoderProofs`, `CursorProofs`, `RowProofs`, `ReplayProofs`, `SessionProofs`, `DownloadProofs`, `StartupProofs`, `ConfigProofs` | theorems |
| `MCDecoder`, `MCSerialAttributes`, `MCFrameFile`, `MCSession`, `MCStartup` | instances for TLC |

**Decoder.** `struct vt_decoder_state` is one record, `decoder`; each C function
that takes a pointer to it is an operator from record to record. `Receive(b)` is
a whole turn of the loop of `vt_decoder_decode` (`Decode`: store the byte, then
`DecodeByte`). A displayed code is `Advance(SetAfter(DrawCode(SetAt(..))))`, in
the order of the C code: set-at attributes, drawing, after_flags, cursor.
`after_flags` itself is not a variable, since every path resets it before the
next byte. `vt_put_char` is `PutChars` on a set of positions, which changes the
cells and the window together. `InitDecoder` follows the order of
`vt_decoder_init`, which computes `state->space` too late for the first frame.
`ColorsOfPair` is what curses knows of colour pairs: all of `vt_init_colors` if the
terminal has colours and `COLOR_PAIRS` is at least 64, and else pair 0 only, since
`vt_decoder_init` then does not call it. `AttrOf` uses the numbers of pairs on
`has_colors` alone, as `vt_set_attr` does.

**SerialAttributes.** Says of the codes of a row, without any state, what each
position shows: the last code at or before it that matters, held mosaics, double
height, ignored rows. Where a comment gives the rule, the definition is that of the
comment and not of the code: `HeldAt` is `decoder.h:78-82` (the last mosaic with bit
6, a space again on a change of mode or size and not on reinforcement) and
`MayBeTall` is `decoder.c:202` (any row but the last and a lower half). Where the
program is known to do otherwise, the module says so: `HoldDiffers` (a capital is held;
a normal height code on normal height resets; a double height code does not reset)
and `HeightDiffers` (a double height code on the row above the last). Those cells,
and for `HeightDiffers` the last two rows, are all that `RowsMatchReference`
leaves out; the run ClaimHeldMosaic shows one of the cases of `HoldDiffers`. The
state machine is restricted to frames of displayed codes (`Displayed`: no cursor control and no escape) after a form feed, and to
screens that the frame buffer holds whole (`FrameAssumption`), since the definition
reads the frame from that buffer.

**FrameFile.** Three stages: live, saved, viewing. `ReadFile` decodes a byte of
the file with a second decoder that starts as `vt_decoder_init` leaves it.
`original` is a history variable: the live decoder when it saved.

**Telesoft.** `TeleByte` is a turn of the loop of `vt_tele_decode` and
`TeleOutput` what that turn writes to `fd_out`. The fields that check a frame
(parity, the running and the received checksum, the letter) are the record
`check`: nothing else depends on them, so `Taken` is the byte without its checks
and `Summed` its checks.

**Session.** `pc` follows the loop: test the flags, poll, socket, decode byte by
byte, stdin, timer. Each of these is a step, so that the host, the user, the
timer and signals come between any two; a read returns any part of what has
arrived. `Write` accepts a byte after the host has closed or fails, with SIGPIPE
or without. `disk` maps the names of downloaded files to their content. `download_fd`
is a descriptor and `opened` says which descriptors are open and for which file:
`open()` returns the lowest that is free among them, CTRL-g during a download
overwrites `download_fd` and closes nothing (`main.c:246`), and `vt_cleanup` closes the
one in `download_fd` only. A `close()` that fails may leave it open or not.

**ViewdataHost** says what a host sends, in the format that `telesoft.c` decodes:
header frame, shifts, `|E`, three quarters for a space, `|L`, `|F`, `|Z` and three
digits, with even parity. Its checksum is defined apart from the decoder's: a bit
is set if it is in an odd number of the bytes. `Content` are the files and `Ends`
says how much of a file each of its frames holds. `IsTransmission` is the format as
a predicate on the bytes of a page, and `HostAssumption` asks it of every page, so
that theorems speak of all hosts that keep to it; `MCSession` builds the pages of
an instance, `TeleTransmission`, of which TLC checks the assumption. `PatientSpec` is
`Session` with the user of `Patient`.

A page of text may have any bytes, bars (0x7C) included: the screen shows them, and
`vt_tele_decode` takes the byte after one for a code, outside a frame as well as in
one. There is at least one data frame behind a header. `IsText` asks that this code
is not in `LastingCodes`, those that begin or end a frame or a file, wait for a
letter or digits, or shift what follows, and that a page does not end with a bar.
Codes that set `ignore` or write a character may be there: `|L`, `|E`, `|}`,
`|I`, `|D`, `|T`, `|0` and the unknown ones. A page with a lasting code would be the
beginning of a frame to the decoder, which nothing in the format tells from a true
one.

**RcFile** and **Startup.** A line is a sequence of fields and a field a sequence
of words: a number, a blank, any other text. `EntriesOf` gives all the entries
that a line may become, since `malloc()` leaves the fields that the line does not
set as they were (`Garbage`). The array is where it is (0 for NULL), its size in
bytes and its entries; `realloc()` may move it, which frees the old pointer.
`Startup` has `pc` for the place in `main`: load, options, dispatch, menu,
resolve, connect, connected, preamble, timer, then session or viewer, cleanup and
exited. Every failure goes to cleanup, which is one step. `open` is the set of
open descriptors, of which the kernel gives the lowest free one, and `freed` the
pointers that `free()` and `realloc()` were given. The session loop is one place
that the flags or a failure leave; `Session` is what happens in it.

## Runs

| Run | Instance and bounds | Checks |
|---|---|---|
| Decoder | 3 by 3 screen, Galax, colour; three hosts with 8 to 15 bytes each, 5 bytes or keys, timer at any moment | `TypeOK`, `LowerHalfOnScreen`, `HeldMosaicOnlyInMosaics`, `ColorsAreShown`, `WindowShowsCells`, `CursorSpec`, `LowerRowTakesHalvesOnly` |
| SerialReference | 4 rows of 6, eight colour pairs; frames of three kinds: at most 4 codes of 14 attributes and characters, a row of 6 of hold, mosaic, capital, colour and both heights, 4 rows with both heights, colour and mosaic in their last two places | `RowsMatchReference`, `ColorsAreShown` |
| FrameFile | 3 by 3 screen, 4 live steps, frames of up to 3 bytes | `ReplayShowsSavedFrame` |
| Download | two programs of two and one frames, a patient user with 4 keys, reads of any size | `FilesAreFaithful`, `AsksBetweenFrames`, `ChecksAgree`, `DownloadFinishes` |
| Session | one program, 3 keys at any moment, reads of at most 3 bytes, two bars in the page of text | `TypeOK`, `DecodesIntoOpenFile`, `TextStaysOut`, `LosesFileOnlyToRestart`, `SignalEndsSession` |
| Startup | six sets of three files of up to two lines, three options, two addresses, numbers -1, 0, 2 and 9 at the menu | `TypeOK`, `EntriesMatchFiles`, `WritesWithinArray`, `FreedOnce`, `DescriptorsOpen`, `LogsOff`, `SignalEndsProgram` |

Why the bounds are enough. Double height needs three rows, and a row below it to
wrap to; with 3 by 3 every edge of the screen is one or two bytes away, and the
longest chain of codes that a flag survives (double height, move, new frame, draw)
fits in five bytes. In the four rows of SerialReference a row may be upper, lower, lower of a refused one, or
last. Four codes in a row hold a colour, a mosaic, hold and a change; the six of
held mosaics also let the size change and be set again. Eight
pairs is what a terminal of eight colours has without 64 of them. The files of
Download need every kind of symbol of the format: plain, under a shift, bar, space
under a shift, end of line; two frames are the least with a frame between header and
last. Reads of at most 3 bytes split every control sequence, `|Z` and its digits
included. The flash timer is not bounded: its state is a bit. The screens of the
proofs have any size, so the size of 24 by 40 is covered where a theorem exists. The
lines of Startup are one of each kind that the format tells apart: three fields,
five, a blank preamble, an empty one (which makes the postamble the preamble),
numbers above 255 and text behind them, too few fields, a blank host, an empty line,
a comment; ambles are of two bytes so that one too many is short. Three entries make
the array move twice. Three options hold every pair of strings and files that can
collide, and the second address is reached after the first has left a number in
`socket_fd`.

`CHECK_DEADLOCK FALSE` is said for the sessions and the program, which end: after
`exited` and with the connection closed nothing need happen.

What is assumed of the user. In Download and in `DownloadProofs`, `Patient`: a key
is typed when the page has arrived and no download runs, and CTRL-g on a header
only. The user may browse the frames of a file with `_` first, its `|F` included.
Without it `FilesAreFaithful` does not hold, since keys during a download are sent
to the host and its answer goes into the file. Session has no such assumption. What
it checks of the files, and `TextKeptOut` proves, is `TextStaysOut`: the characters
of a file are such as frames carry, the contents of the host's files or what a
header writes when it is decoded as data, or one of the three that a code of a page
of text writes when the page is decoded during a download (CR, the bar and three
quarters). The page of text of the instance has a bar with an unknown code and one
with `E`.

CTRL-g during a download loses a descriptor, and with three keys TLC reaches such
states. `LosesFileOnlyToRestart` says that nothing else does: no end of a download, no
failing `open()` outside one, no cleanup. `DecodesIntoOpenFile` says of `download_fd`
that the descriptor in it is open and, without a download, that there is none; it
says nothing of those that are lost, which stay open until the program ends.

Fairness. `WF(Program)`, also in Startup: the process is scheduled, and
`getaddrinfo()` and `connect()`, which have timeouts of their own, return; there,
`Program` does not hold the steps that wait for the user at the menu, nor the
failures of a loop. `WF(TimerExpires)`: the timer is periodic (`timerfd_settime`
with an interval of one second), and since `poll()` has no timeout it is what
rescues a signal that comes between the test of the flags and `poll()`.
`WF(HostAnswers)`: a host that does not close the connection answers, which only
`DownloadFinishes` needs. Nothing makes the user type, a signal come or the host
close.

### Where documentation and code differ

Six runs check one statement each of a comment, a message or the man page, which
TLC refutes:

- `ClaimOfferHasName`: half a header offers a file without a name
  (`telesoft.c:17`); CTRL-g then ends the program.
- `ClaimHeaderOffers`: a second header offers nothing (`vidtex.1:88`), since
  `frame_number` is only reset by a completed download.
- `ClaimHostClose`: the end of the connection is not noticed (`main.c:282`).
  The run states fairness of the program, the timer and the host.
- `ClaimOptionalAmble`: a line without the optional preamble (`rc.c:188`,
  `vidtex.1:121`) makes `vt_connect` send what the memory of the entry held.
- `ClaimHeldMosaic`: a normal height code on text of normal height resets the held
  mosaic (`decoder.c:198`), which `decoder.h:81` says reinforcement of the existing size
  does not.
- `ClaimMenuQuit`: CTRL-c does not quit (`vidtex.1:92`) at the menu once a number was
  refused. The property speaks of a signal that comes while the menu waits for
  another number, and in the trace it comes there: `choice` keeps the refused number,
  the loop does not look at the flag and `scanf()` is called again. Nothing makes the
  user type a valid number; the one of the trace types invalid ones for ever.

Others were met and have no run of their own:

- The ignored row of double height (`decoder.h:132`) is recoloured by CR and RS,
  which fill it to its end (`decoder.c:138`). Its characters are safe:
  `LowerRowTakesHalvesOnly`.
- The other cases of `HoldDiffers`: a double height code, which changes the size, does
  not reset the held mosaic (`decoder.c:497`, against `decoder.h:81`), and capitals
  displayed in mosaics mode are held (`decoder.c:294`, against the bit 6 of
  `decoder.h:79`).
- `HeightDiffers`: "double height (but not on last row)" (`decoder.c:202`) is refused on
  the row above the last as well (`decoder.c:204`).
- A code that is not known makes the decoder "Ignore everything until |I is found"
  (`telesoft.c:202`), but only data is ignored: `|E`, `|L` and `|}` write to the file
  all the same, so that a page of text with `|?|E`, decoded during a download, leaves
  a bar in it. `TextStaysOut` allows that character.
- A colour terminal with fewer than 64 pairs gets none of them (`decoder.c:32`), but
  its cells have their numbers (`decoder.c:539`). No comment says what it should
  show; `ColorsAreShown` in the run SerialReference says which cells are shown as asked,
  and which have the number of a pair that was never initialised. What curses shows
  for such a number is not modelled.
- A mosaic held in the first frame is NUL instead of a space, since `decoder.c:39`
  comes before `decoder.c:40`. `ReplayShowsSavedFrame` takes the two for the same,
  and holds.
- `vidtex.1:122` speaks of 20 bytes of preamble, `rc.h:5` keeps 10.
- `decoder.c:553`, "Never redefine color pair 0": black on black is given number 0
  too (`decoder.c:603`). No attribute selects black as a foreground, which
  `ColorsAreShown` needs and `ColorsAreCorrect` proves, so no cell is affected;
  whether curses accepts the call is taken to be no.
- After `|F` the state is reset before `|Z` and the checksum are read, if they come
  in a later read: `invalid_checksum` is then set for a correct frame. Nothing reads
  it. `ChecksAgree` leaves the case out.

## Proofs

`DecoderProofs` shows `Spec => []IInv` from `DecoderAssumption` alone (positive
screen, any font, any set of bytes). `IInv` is `Sound(decoder)`: the types, the
bound of the frame buffer, `LowerHalf`, `HeldBlank` and `WindowOf`, each said of
any record so that the operators, which go from record to record, have lemmas of
their own. They are proved together because every conjunct needs the types, and
so that each operator is taken apart once: a lemma says what it returns, one per
group of bytes that it preserves `Sound`. From it follow `TypeCorrect`,
`LowerHalfIsOnScreen`, `HeldMosaicIsInMosaics`, `WindowIsFaithful` and
`ColorsAreCorrect`, which needs of the types that foregrounds are `Foregrounds`,
without black: then the table gives every pair that a cell can have its colours if
there are 64 pairs, and no colours but white on black if there are fewer.
`PutChars` ignores positions outside the screen, where the C code would write
outside `cells`: that this never happens is `LowerHalfOnScreen` and the types of
the row and the column.

`CursorProofs` shows `Spec => CursorSpec`: with `pos` for
`row * MAX_COLS + col`, every byte moves the cursor as `ScreenCursor` says or
not at all. It rests on `Invariance` and on lemmas about what each operator
does to the row and the column.

It also shows `Spec => LowerRowTakesHalvesOnly`, from the same invariant: every byte
but a form feed leaves the characters of the screen as they are (`CursorOpsText`,
`FillEndText`) or draws one while the cursor is not on the ignored row, in its own
place and, at double height, below it (`DrawHalves`). What was the ignored row
before a byte may stop being so within it, which is why the lemmas carry the place
of the cursor and the flag back to the state before the byte.

`RowProofs` shows `FrameSpec => []RowsMatchReference`, from `DecoderAssumption` and
`FrameAssumption`: for every screen, both fonts, with and without colours, the cells
that `vt_decoder_decode` draws byte by byte are those that a look back over the whole
row asks for by the rules of the comments, but where `HoldDiffers` and `HeightDiffers`
except them. `RowsMatchReference` compares cells only, and a cell drawn later depends
on what the decoder carries to it. `RowInv` adds that: the cursor is at the end of the
frame; every field of the flags is what the definition says of the codes of the row so
far (`FlagsAt`); double height, the ignored row below it and `IsLower` of the
definition agree (`LowState`); and nothing is bold or escaped. The argument has four
parts:

- What a position shows depends only on the codes up to it (`CellsSerial`), so that
  a byte that is appended disturbs no cell but its own and the one below it.
- One code later, each set-at and set-after attribute of the definition changes as
  `SetAt` and `SetAfter` change the flag (`SetAtMatches`, `SetAfterMatches`, on top
  of one lemma for each attribute). The held mosaic is the one of the definition
  only after drawing, which is why there are two predicates, `FlagsOn` and
  `FlagsAt`, for before and after it.
- The bytes of a row are a piece of the frame buffer (`CodesAppend`), and the end of
  a row is the start of the next with fresh flags.
- The cell drawn, and at double height the one below it, is what the definition says
  there (`Painted`).

All of this is done for `CellByCode`, a definition of `RowProofs` that looks back over
the row as `SerialAttributes` does but resets held mosaics and refuses rows as the
code does. `CellsAgree` then shows that it and `CellAt`, by the rules of the comments,
draw the same cell wherever `Differs` is false: between the last mosaic and the
position shown nothing changes the size or sets it again (`HoldAgrees`), and up to the
row above the last the lower halves are the same (`LowerAgrees`).

The definition uses `Max` and a recursive function, `IsLower`. Induction with a
predicate as a parameter is out of the provers' reach, but induction over a set of
numbers is not: `Induction` and `GreatestOf` are derived from `WFMin` and
`NatLessThanWellFounded` of the library, and give all that is needed about both.

`ReplayProofs` shows `FileSpec => []ReplayShowsSavedFrame`, for frames of any length
that the buffer keeps whole. Two decoders are `Alike` if they agree on all that the
bytes of a frame determine: the place, the flags but the one of the hardware
cursor, and what each cell shows. The argument is a congruence: every byte takes
decoders that are alike to decoders that are alike (`DecodeAlike`), whatever the
flash and the reveal phase of each are; a form feed makes one that is like a fresh
one of any other (`NewFrameAlike`), which is where every flag that an earlier
frame could leave behind would show; keys and timer leave a decoder like itself
(`TogglesAlike`). Every kind of byte is one lemma. The invariant `FileInv` has the
decoders that a fresh one goes through on a frame as a sequence (`IsReplay`), so
that no recursion is needed: the live decoder is like the last of them for its
frame buffer, the saved decoder like the last for the file, and the viewer like the
one at the byte that it has read to. The mosaic held in a first frame is NUL instead of a
space, which `LikeHeld` takes for the same: both are blank where they are drawn.

`SessionProofs` shows `Spec => []IInv` with `IInv == TypeOK /\ DecodesIntoOpenFile`,
from `SessionAssumption` (any host, keys and size of the buffer). The types need the
other conjunct: decoding a byte appends to the file that `download_fd` is open for,
and `disk` keeps its type because that file exists. The checks of a frame have
lemmas of their own (`SummedType`, `XorType`), and so have descriptors: `open()`
finds a number that is free among finitely many (`NewFdIsNew`), and opening and
closing keep the types (`FdsOK`). `FilesLostToRestarts` follows from the invariant
step by step (`NextLoses`): without a download `download_fd` is -1, so that CTRL-g
has nothing to overwrite, and what is closed is never added to `Lost`.

`StartupProofs` shows two invariants of `Startup`, from `RcAssumption` and
`StartupAssumption`: any files, any bounds on options and addresses, any size of an
entry that holds two pointers.

- `ArrayIsLargeEnough`: `WritesWithinArray` follows from `HasRoom`, which says of
  the array that it is large enough for its entries and, unless NULL, not empty. The step
  that adds one needs `SIZEOF_ENTRY * n >= SIZEOF_POINTER * (n + 1)` for n >= 1,
  which is where the assumption on the sizes is used (`SizeIsEnough`); 10 bytes of
  preamble and three pointers give it by far.
- `DescriptorsAreOpen`: `DescriptorsOpen` is not inductive, since it says nothing
  at "connect" and "connected", where `socket_fd` may be the number of a closed
  socket. `DescriptorInv` adds that the fields are distinct there too, that the
  files and the timer are open at every place before the exit, and that `open` is
  a finite set of numbers, so that `NewFd` exists and is new (`MinIsElement`,
  `NewFdIsNew`).

`ConfigProofs` shows the other invariants of `Startup`, for any three files of any
length and any failures, with one invariant for each part of the state:

- `EntriesMatch`, from `LoadInv`: what is unread is the end of the file, and the
  array has an entry of every entry line before it, in order. `EntryLines` are
  positions in the three files and `NumberOf` counts the positions up to one, so
  that no induction over a file is needed: a line that is read adds one position to
  `ReadTo`, the last one, and its number is the new number of entries
  (`EntryKeepsLoad`, `FileKeepsLoad`).
- `EverythingFreedOnce`, from `StringsInv` and `FreedInv`: before the end only
  arrays with lower numbers than the live one are freed, each once; `host` and
  `port` are two different strings of the options while no entry is chosen, and of
  the entry otherwise. What `vt_cleanup` frees is then one sequence without
  repetitions after another, and no two of them share a pointer (`OnceOf`, `Differ`,
  `ConcatOnce`).
- `StartupTypeCorrect`: beside the parts above it takes `BoundInv`, that the open
  descriptors are among the first `options + Level(pc)`. Since the kernel gives the
  lowest free number, that bound is kept although descriptors are closed in between.
- `LogoffIsSent`, from `HelloInv`: while the host is there and a loop is reached, it
  was sent the preamble, once, and `socket_fd` is still open, for which
  `DescriptorInv` is needed: no failing step has closed it or given its number to
  something else. The preamble is that of the line because the entry chosen is one of
  that line (`EntriesMatch`) and a field of at most `MAX_AMBLE_LEN` bytes is read as
  it is (`AmbleIsRead`). Which words of a field are bytes is not looked into:
  `Words` picks them and is the same in the property and in the model.

`DownloadProofs` shows what a patient user gets, `FilesFaithful`,
`FramesAskedInTurn` and `FramesPassTheirChecks`, for any host of `HostAssumption`, any
`IO_BUFFER_LEN` and any keys. None of these properties says anything of a frame that is
half decoded, so the invariant `PInv` has two cases for the bytes that are read or on
their way:

- `Follows`: they are what is left of the page that the host shows, from place `pos`
  on, and `m` characters of its piece have been written. `TeleAt` is what the
  decoder has made of the first `pos` bytes: in a page of text, behind a bar of it
  or not (`TextAt`), at the head of a frame, in the data of a header, within the
  encoding of a character, at `|F`, at `|Z` and its digits. `FileAt` is what the
  file holds then: the pieces before, and `m` characters. `DownloadAt` and `KeysAt`
  say who may have asked for the next page by then.
- `Leaves`: `|F` has ended the download and reset the decoder in a read that did not
  hold the rest of the frame. That rest, `|Z` and digits, is still to come, perhaps
  with a page of text behind it, and the decoder must make nothing of it.

Every byte leads from one place to the next (`TextStep`, `HeadStep`, `HeaderStep`,
`PieceStep`, `EndStep`, together `TeleStep`), so that there is no induction over a
frame: the encoding of a piece is a function that gives the place where each
character ends (`IsEncoding`, `Cut`), which is increasing and all that the step
needs. A character is encoded in one to six bytes; the lemmas under "How a character
is decoded" follow the state of the decoder through them and find that one
character, the right one, is written. `Counted` and `Named` are what browsing leaves
behind: after an `|F` that no download ended with, `frame_number` is above 1, so
that CTRL-g does not start a download with a stale `end_of_file`. The invariant
takes `OfferInv` too, since `can_download` is only computed after a read.

`FramesPassTheirChecks` adds `SumInv` to it: from `|A` on and as long as the frame is
counted, `SumAt` gives the running sum at the place that is left to read (`here`), and
what has come of the three digits. The sum of the first `n` characters is taken bit by
bit, each bit the parity of a count (`OddOf`), as `Checksum` of the host takes it. One
more character adds at most one position to each count (`OddGrows`, `SumGrows`), which
is what `Xor` does to the decoder's sum (`BitsOf`), so that this needs no induction
either; that the decoder sums a bar only with the code after it is the one place where
the two are apart, by the character of state 1. `FrameSumIs` shows that the digits sent
are those of the sum at the end, and `EvenParity` that the eighth bit is the right one.

`TextKeptOut` is about any user, who types during a download and before a page has
arrived, so that `Follows` does not hold: many pages may be on their way, and the
decoder may be reset in the middle of one, by the `end_of_file` of a frame that was
only browsed. Its invariant `HInv` takes from the session the bytes on their way,
`is_downloading` and `OfferInv`, and says with `OnWay`:

- The bytes are those of pages, one page after the other. `Stream` labels each byte
  with its page and its place there; a byte that is decoded takes its label along
  (`StreamStep`), and a page that is sent brings its own (`StreamMore`).
- `PlaceAt` is the decoder's place in the page whose bytes come next. Between pages it
  is `Quiet`, and in a page of text `TextAt`: out of a frame, with no shift, and behind
  a bar or not. A byte that is no code writes nothing there, and a code that has no
  lasting effect leaves the decoder there and writes one of `CodeCharacters` at most
  (`PassingCode`).
- Within a frame `WithinAt` compares the decoder with a second one that has taken the
  bytes of the frame from its start and is where `PartAt` says, as for a patient user.
  Either the two are `Alike`, all but for what they
  ignore and how many frames they have counted (`AlikeStep`), and what the one writes
  is nothing or what the other writes (`FrameWrites`); or the first
  `Strays` after a reset, while nothing is downloaded: it is not in data until the
  next `|A` (`StrayStep`).
- A stray decoder has `frame_number` 0, and a download starts only when
  `can_download` was found with `frame_number` 1, which `OfferInv` keeps. So a download
  never starts with a stray decoder (`PlaceCounted`), and the reset that makes one
  ends the download (`PlaceReset`).

Only checked by TLC: the liveness properties `DownloadFinishes`, `SignalEndsSession`
and `SignalEndsProgram`, which the provers do not handle.

## What is not modelled

- What curses sends to the terminal, and so when a change becomes visible; the
  hardware cursor; the trace, the dump and messages; file names of frames; the
  clock.
- Failing writes to files. A failing `poll()` is a step of `Startup`, failures of
  `close()` and `open()` for a download are steps of `Session`.
- The bound of the array `filename`; a NUL within a file name.
- Function keys, which `getch()` returns as numbers above 255.
- Of the configuration: lines longer than the buffer of 1023 bytes, paths that do
  not fit theirs, HOME unset (`rc.c:41` gives NULL to `strncmp()`), and what is in
  an entry that is given up. After a file with an error `rc_data` may point to an
  array that `realloc()` has freed (`rc.c:225`); what `free()` does then is
  undefined, so `FreedOnce` and `EntriesMatchFiles` speak of loads that succeed.
- The poll loop of the viewer, whose race of a signal with `poll()` (`main.c:500`) is
  that of the session loop; in `Startup` the viewer is one place that the flag leaves.
- Codes with a lasting effect in a page of text (`LastingCodes`).
- What the kernel does when the process has ended, as closing the descriptors that were
  lost.
- Of the start: a `sigaction()` that fails; `--mono`, `--bold` and `--galax`, which
  are constants of `Decoder`; `errno` (`main.c:623`); the descriptor of a
  download, which is in `Session`.
- `endwin()`, `shutdown()`, and whether `close()` fails in `vt_cleanup`, after
  which nothing depends on it.

## Plan

Done: the decoder with its proofs, the reference of serial attributes and the proof
that the decoder meets it, colour pairs, saved frames, the telesoftware decoder with
its checks, the session loop with its proofs, the configuration files, and the start
and end of the program with its proofs.

What could still be added, in this order:

1. A user who does not wait: what a file holds when keys are typed during a
   download, beyond `TextStaysOut`, and `end_of_file` left over from
   browsing.
2. `Startup` with `Session` in the place of its loop, for the descriptor of a
   download.

New questions share an instance with a run where they can.
