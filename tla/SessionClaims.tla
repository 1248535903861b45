--------------------------- MODULE SessionClaims ---------------------------
(***************************************************************************)
(* What a comment, a message and the man page say of a session and its     *)
(* code does not do.  Each property is checked alone and TLC finds a run   *)
(* of the session that breaks it.                                          *)
(***************************************************************************)
EXTENDS MCSession

\* telesoft.c:17, "If we have a state->filename and the frame number is 1, then
\* we assume that we have correctly decoded a header": a read that ends between
\* the |A of a header and the name leaves a download without a name on offer.
OfferHasName == can_download => tele.filename # << >>

\* vidtex.1:88, "navigate to the header frame for the download and press
\* CTRL-g": the frames of a page are counted from the first header of the
\* session, so a second header that is looked at is not taken for one.
OnHeader ==
    /\ host.frame = 1 /\ to_host = << >> /\ to_client = << >>
    /\ pc \in {"test", "poll"} /\ ~is_downloading
HeaderOffersDownload == OnHeader => can_download

\* main.c:282, "Connection closed by host": read() returns 0 from then on,
\* which the loop takes for nothing to do, and unless a key is typed or a
\* signal comes the session goes on.
HostCloseIsNoticed == ~host_open ~> pc = "exited"
=============================================================================
