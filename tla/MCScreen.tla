------------------------------ MODULE MCScreen ------------------------------
(***************************************************************************)
(* A screen of three rows of three columns, with tabs of two and lines of  *)
(* two characters.  Programs print a word, a line, a tab or go back.       *)
(* Eleven bytes of memory, so that a block may begin and end inside a word *)
(* with a whole one between, and words of 8 bits with their edges.         *)
(***************************************************************************)
EXTENDS Lib

MCOutputs == {<<"a", "b">>, <<NL>>, <<"b", Tab>>, <<CR, Bs, Nul>>}

\* all short formats over every kind of character, and longer ones of fewer kinds
MCFormats ==
    UNION {[1..m -> {"%", "#", "x", "u", "d", "c", "s", "q"}] : m \in 0..3}
    \cup [1..4 -> {"%", "#", "x", "d"}]
    \cup {<<"%", "#", "x", "%", "d">>, <<"%", "s", "%", "c", "%", "u">>}
MCWords == {0, 1, 9, 10, 15, 16, 99, 100, 127, 128, 255}
MCStrings == {<<>>, <<"%", "x">>}

===============================================================================
