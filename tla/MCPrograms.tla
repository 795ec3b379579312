------------------------------ MODULE MCPrograms ------------------------------
(***************************************************************************)
(* An image with every text of up to four characters out of a letter, a    *)
(* blank and a newline, every one of five characters out of a letter and a *)
(* newline, three that fill grep's buffer of three bytes twice, two with a *)
(* NUL in them, and one of many rows, in blocks of two bytes that are      *)
(* stored once for all files; the directory, the clock and a name of full  *)
(* width.  A frame of fish is one column wide.                             *)
(***************************************************************************)
EXTENDS Programs, SequencesExt

CONSTANTS
    MaxText, MaxLong,   \* lengths of the texts above
    MaxFrame,           \* length of fish's frames, but for the one of many rows
    MaxRows             \* empty rows of that one

\* All strings of length n over the characters of the sequence A, one after the other.
Strings(A, n) ==
    [k \in 1..(Len(A) ^ n) |-> [j \in 1..n |-> A[(((k - 1) \div (Len(A) ^ (j - 1))) % Len(A)) + 1]]]
TextSeq ==
    FlattenSeq([n \in 1..(MaxText + 1) |-> Strings(<<"a", " ", NL>>, n - 1)])
    \o FlattenSeq([n \in 1..(MaxLong - MaxText) |-> Strings(<<"a", NL>>, n + MaxText)])
    \o <<<<"a", "a", NL, "a", "a", NL>>, <<NL, "a", "a", "a", NL, "a">>, <<"a", "a", "a", NL, "a", "a">>>>
    \o <<<<"a", NL, NUL, "a", NL, "a">>, <<NL, "a", NUL, "a">>>>
    \o <<[i \in 1..(MaxRows + 3) |-> IF i <= MaxRows THEN NL ELSE "a"]>>

MCBlocks == [p \in {"a", " ", NL, NUL} \X {"a", " ", NL, NUL} |-> p]
\* A last block that is half used is filled up with blanks.
BlockOf(t, k) == <<t[2 * k - 1], IF 2 * k <= Len(t) THEN t[2 * k] ELSE " ">>
MCInodes ==
    [nd \in 0..(Len(TextSeq) - 1) |->
        LET t == TextSeq[nd + 1] IN
        [len |-> Len(t), data |-> [k \in 1..((Len(t) + 1) \div 2) |-> BlockOf(t, k)]]]
MCnnod == Len(TextSeq)

\* The entries before the text files; the one of full width has a text of its own.
Special == <<[name |-> <<".">>, ft |-> FtDir, ind |-> 0], [name |-> <<"r">>, ft |-> FtRtc, ind |-> 0],
             [name |-> <<"q", "q">>, ft |-> FtFile, ind |-> 1]>>
NameOf(nd) == <<ToString(nd)>>
MCnent == Len(Special) + MCnnod
MCDirs ==
    [k \in 0..MCnent |->
        IF k < Len(Special) THEN Special[k + 1]
        ELSE IF k < MCnent THEN [name |-> NameOf(k - Len(Special)), ft |-> FtFile, ind |-> k - Len(Special)]
        ELSE [name |-> <<>>, ft |-> FtRtc, ind |-> 0]]

MCModulus == 1024
MCSearches == {<<>>, <<"a">>, <<"a", "a">>, <<" ", "a">>}
\* fish's frames: two short texts, of which the first may be one character longer when the
\* second is a single one, and the one of many rows.
TextsUpTo(n) == {NameOf(nd) : nd \in {k \in 0..(MCnnod - 1) : Len(TextSeq[k + 1]) <= n}}
ManyRows == NameOf(MCnnod - 1)
MCFrames ==
    (TextsUpTo(MaxFrame) \X TextsUpTo(1)) \cup (TextsUpTo(MaxFrame - 1) \X TextsUpTo(MaxFrame - 1))
    \cup (TextsUpTo(MaxFrame - 1) \X {ManyRows})
    \cup {<<ManyRows, ManyRows>>, <<<<"1">>, <<"n", "o">>>>}
MCLiveScreen == [cell \in 0..(CELLS - 1) |-> "#"]
===============================================================================
