--------------------------- MODULE StartupClaims ---------------------------
(***************************************************************************)
(* What a comment and the man page say of the start of the program and its *)
(* code does not do.  Each property is checked alone and TLC finds a run   *)
(* of the program that breaks it.                                          *)
(***************************************************************************)
EXTENDS MCStartup

\* rc.c:188, "optional", of the preamble: a host whose line has none is sent
\* the start of text alone.  The length of the preamble is not set then, and
\* what memory held before is sent.
OptionalAmble ==
    /\ pc = "timer" /\ session.selected # 0 /\ peer
    /\ ~Given(ConfigLines[session.selected], 4)
    => sent = <<START_OF_TEXT>>

\* The menu has refused a number and waits for another.
NumberRefused == pc = "menu" /\ choice # -1

\* vidtex.1:92, "Use CTRL-c to quit": a signal that comes while the menu waits
\* for another number, one having been refused, ends the program.  choice keeps
\* the refused number when the signal interrupts scanf(), and the loop of the
\* menu does not look at the flag: scanf() is called again.
MenuCanBeQuit ==
    /\ NumberRefused /\ ~terminate_received
    /\ <>(NumberRefused /\ terminate_received)
    ~> pc = "exited"
=============================================================================
