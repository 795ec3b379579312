------------------------------- MODULE MCProcess -------------------------------
(***************************************************************************)
(* An image with a shell, a second program, a text file, the directory and *)
(* the RTC.  MAX_PROCESSES < MAX_FILES, as in the source (6 and 8), so     *)
(* that a new process does not clear its whole descriptor table.           *)
(***************************************************************************)
EXTENDS Process, TLC

MCBlocks == (0 :> <<"E", "s">>) @@ (1 :> <<"E", "p">>) @@ (2 :> <<"t", "x">>)
MCInodes ==
    (0 :> [len |-> 2, data |-> <<0>>]) @@ (1 :> [len |-> 2, data |-> <<1>>])
    @@ (2 :> [len |-> 1, data |-> <<2>>])
MCDirs ==
    (0 :> [name |-> <<".">>, ft |-> FtDir, ind |-> 0])
    @@ (1 :> [name |-> Shell, ft |-> FtFile, ind |-> 0])
    @@ (2 :> [name |-> <<"p">>, ft |-> FtFile, ind |-> 1])
    @@ (3 :> [name |-> <<"t">>, ft |-> FtFile, ind |-> 2])
    @@ (4 :> [name |-> <<"r">>, ft |-> FtRtc, ind |-> 0])
    @@ (5 :> [name |-> <<>>, ft |-> FtRtc, ind |-> 0])
MCModulus == 16
MCExe == <<"E">>
P == <<"p">>
\* the empty command, quit, a missing file, a file that is no program, the programs
MCCommands == {<<>>, Quit, <<"n">>, <<"t">>, P}
MCOpenText == {<<"t">>, <<"n">>}
MCOpenAny == {<<".">>, <<"t">>, <<"r">>, <<"n">>}
MCArgs == {<<>>, <<"x">>}
NoArgs == {<<>>}
\* addresses: a user page of 8 bytes at 8, and around its bounds
MCAddrs == {7, 8, 12, 13, 16, 17}
None == {}
JustP == {P}
MCFds == -1..3
MCTreeFds == -1..4
MCFarFds == {-1}
MCSizes == {-1, 1, 4}
===============================================================================
