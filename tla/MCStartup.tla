----------------------------- MODULE MCStartup -----------------------------
(***************************************************************************)
(* Instances of Startup for TLC: three files with the lines that the       *)
(* format tells apart.                                                     *)
(***************************************************************************)
EXTENDS Startup


\* Names are numbers below BLANK, and amble bytes are themselves.
Name == <<-2, BLANK>>
Host == <<-3>>
Port == <<-4>>

\* Three fields; five; five with a number that is too large, one too many and
\* text behind them; a blank for a preamble; and an empty preamble, which makes
\* the postamble one.
Plain    == <<Name, Host, Port>>
Full     == <<Name, Host, Port, <<5, BLANK, 1>>, <<42, BLANK, 95>>>>
Odd      == <<Name, Host, Port, <<300, BLANK, 1, BLANK, 5>>, <<42, -5, 7>>>>
NoHello  == <<Name, Host, Port, <<BLANK>>, <<42>>>>
Shifted  == <<Name, Host, Port, << >>, <<9>>>>

\* Two fields, a blank host and an empty line.
Short    == <<Name, Host>>
Nameless == <<Name, <<BLANK>>, Port>>
Empty    == << << >> >>

\* The files of the system, of HOME and of the working directory.
SomeFiles ==
    { << <<Comment, Full>>, <<NoHello>>, <<Plain>> >>,
      << <<Shifted>>, <<Comment>>, <<Odd>> >>,
      << <<Full>>, <<Plain, Nameless>>, << >> >>,
      << << >>, <<Full, Short>>, << >> >>,
      << << >>, << >>, <<Full, Empty>> >>,
      << << >>, << >>, << >> >> }

AnyAmble == {<< >>, <<7>>}
SomeNumbers == {-1, 0, 2, 9}
=============================================================================
