---------------------------- MODULE MCCommandLine ----------------------------
(***************************************************************************)
(* Lines of up to four characters against a name of two bytes: names on    *)
(* both sides of their limit, arguments up to theirs, and every way a line *)
(* can leave text behind in the buffer.                                    *)
(***************************************************************************)
EXTENDS CommandLine

MCStale == {[j \in 0..(BUFSIZE - 1) |-> NUL]}

===============================================================================
