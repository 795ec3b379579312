------------------------------- MODULE MCSyserr -------------------------------
(***************************************************************************)
(* The image of MCProcess with syserr as a third program.  Entries of the  *)
(* descriptor table are 4 of 64 bytes of addresses, of which the entries   *)
(* -1 to 4 are mapped: descriptor 15 wraps to entry -1, descriptor -15 to  *)
(* entry 1, as BIG_FD and NEG_FD do with 16 of 2^32.                       *)
(***************************************************************************)
EXTENDS Syserr

MCBlocks == (0 :> <<"E", "s">>) @@ (1 :> <<"E", "p">>) @@ (2 :> <<"t", "x">>) @@ (3 :> <<"E", "e">>)
MCInodes ==
    (0 :> [len |-> 2, data |-> <<0>>]) @@ (1 :> [len |-> 2, data |-> <<1>>])
    @@ (2 :> [len |-> 1, data |-> <<2>>]) @@ (3 :> [len |-> 2, data |-> <<3>>])
MCDirs ==
    (0 :> [name |-> <<".">>, ft |-> FtDir, ind |-> 0])
    @@ (1 :> [name |-> Shell, ft |-> FtFile, ind |-> 0])
    @@ (2 :> [name |-> <<"p">>, ft |-> FtFile, ind |-> 1])
    @@ (3 :> [name |-> <<"t">>, ft |-> FtFile, ind |-> 2])
    @@ (4 :> [name |-> <<"e">>, ft |-> FtFile, ind |-> 3])
    @@ (5 :> [name |-> <<"r">>, ft |-> FtRtc, ind |-> 0])
    @@ (6 :> [name |-> <<>>, ft |-> FtRtc, ind |-> 0])
MCModulus == 128
MCExe == <<"E">>
MCCommands == {<<"p">>, <<"e">>}
NoArgs == {<<>>}
MCOpenAny == {<<".">>, <<"t">>, <<"r">>, <<"n">>}
\* a name with a character too many, one with a character too few, none
MCBadNames == <<<<"p", "x">>, <<"s">>, <<>>>>
MCAddrs == {7, 8, 12, 13, 16, 17}
MCSizes == {-1, 4}
MCFds == -2..3
EntryOf(fd) == LET w == (4 * fd) % 64 IN IF w < 32 THEN w \div 4 ELSE (w - 64) \div 4
MCFarFds == {fd \in {-15, 15} \cup MCFds : EntryOf(fd) \notin -1..4}
MCNeg == -15
===============================================================================
