----------------------------- MODULE CommandLine -----------------------------
(***************************************************************************)
(* The way of a typed line to a program's name and arguments: the shell    *)
(* (ece391shell.c) reads it into one buffer it uses for every line, and    *)
(* sys_execute (syscall.c) parses that buffer in place.                    *)
(***************************************************************************)
EXTENDS Integers, Sequences, FiniteSetsExt

CONSTANTS
    BUFSIZE,    \* bytes of the shell's buffer (1024)
    NameMax,    \* bytes of a command name sys_execute takes (32)
    ArgEnd,     \* place in the buffer where arguments are cut off (128)
    Letters,    \* what can be typed besides spaces
    MaxLine,    \* characters of a line, without its newline (127)
    Stale       \* what the buffer may hold when the shell starts: it is not initialised

NUL == "NUL"
NL == "NL"
SP == " "
Exit == <<"e">>     \* "exit"
Quit == <<"q">>     \* "quit"
Lines == UNION {[1..n -> Letters \cup {SP}] : n \in 0..MaxLine}

\* The buffer has room for the longest line, its terminator and a parser that stops; no
\* key puts a NUL into a line, and the newline ends it (keyboard_handler).
ASSUME CommandAssumption ==
    /\ BUFSIZE \in Nat /\ NameMax \in Nat \ {0} /\ ArgEnd \in Nat /\ MaxLine \in Nat
    /\ Letters \cap {NL, NUL} = {}
    /\ MaxLine < ArgEnd /\ ArgEnd < BUFSIZE /\ NameMax < BUFSIZE
    /\ \A b \in Stale : DOMAIN b = 0..(BUFSIZE - 1) /\ b[BUFSIZE - 1] = NUL

VARIABLES
    buf,        \* the shell's buffer
    line,       \* the line just typed
    pc,         \* "prompt", "read", "execute", "ran", or "halted"
    cmd         \* what sys_execute made of the buffer

vars == <<buf, line, pc, cmd>>

-------------------------------------------------------------------------------
\* A loop that begins at from ends at the first of its stopping places.
First(from, stops) == Min({j \in stops : j >= from})

\* The bytes b[from] to b[to - 1], and the string that begins a sequence of bytes.
Slice(b, from, to) == [j \in 1..(to - from) |-> b[from + j - 1]]
CString(s) ==
    LET nuls == {j \in 1..Len(s) : s[j] = NUL}
    IN  IF nuls = {} THEN s ELSE SubSeq(s, 1, Min(nuls) - 1)

\* The shell ends the line where its newline was.
Terminate(b, cnt) ==
    LET n == IF cnt > 0 /\ b[cnt - 1] = NL THEN cnt - 1 ELSE cnt IN [b EXCEPT ![n] = NUL]

\* read copies the line and its newline to the front of the buffer; the rest stays.
ReadLine(l) ==
    LET cnt == Len(l) + 1 IN
    /\ pc = "prompt" /\ pc' = "read"
    /\ line' = l
    /\ buf' = Terminate([j \in DOMAIN buf |-> IF j < Len(l) THEN l[j + 1]
                                             ELSE IF j = Len(l) THEN NL ELSE buf[j]], cnt)
    /\ UNCHANGED cmd

\* exit ends the shell, an empty line is skipped, all else is executed.
Dispatch ==
    /\ pc = "read"
    /\ pc' = IF CString(Slice(buf, 0, BUFSIZE)) = Exit THEN "halted"
             ELSE IF buf[0] = NUL THEN "prompt" ELSE "execute"
    /\ UNCHANGED <<buf, line, cmd>>

\* Mutant: one byte is kept for a terminator.
NameEnd_Short(b) == First(0, {j \in DOMAIN b : b[j] \in {NL, SP} \/ j = NameMax - 1})

\* The name ends at a newline, a space or its longest length; a NUL does not end it.
NameEnd(b) == First(0, {j \in DOMAIN b : b[j] \in {NL, SP} \/ j = NameMax})

\* Mutant: only one space is skipped.
ArgStart_OneSpace(b, i) == i + 1

\* The spaces after the name are skipped.
ArgStart(b, i) == First(i, {j \in DOMAIN b : b[j] # SP})

\* The arguments end at a newline, a NUL or where they are cut off.
Arguments(b, i) ==
    IF b[i] # SP THEN <<>>
    ELSE LET k == ArgStart(b, i)
             e == First(k, {j \in DOMAIN b : b[j] \in {NL, NUL} \/ j >= ArgEnd})
         IN  Slice(b, k, e)

IsQuit(name) == Len(Quit) <= Len(name) /\ SubSeq(name, 1, Len(Quit)) = Quit

\* The head of sys_execute: the empty command, quit, or a name to look up.
ParseCommand ==
    /\ pc = "execute"
    /\ LET i == NameEnd(buf)
           name == CString(Slice(buf, 0, i)) IN
       \/ name = <<>> /\ pc' = "prompt" /\ UNCHANGED cmd
       \/ IsQuit(name) /\ pc' = "halted" /\ UNCHANGED cmd
       \/ /\ name # <<>> /\ ~IsQuit(name) /\ pc' = "ran"
          /\ cmd' = [name |-> name, args |-> CString(Arguments(buf, i))]
    /\ UNCHANGED <<buf, line>>

\* The program ends and execute returns to the shell's loop.
ReturnToShell ==
    /\ pc = "ran" /\ pc' = "prompt"
    /\ UNCHANGED <<buf, line, cmd>>

\* The shell that ends is started again, with its buffer elsewhere on a new stack.
Restart ==
    /\ pc = "halted" /\ pc' = "prompt"
    /\ buf' \in Stale
    /\ UNCHANGED <<line, cmd>>

Init ==
    /\ buf \in Stale /\ pc = "prompt" /\ line = <<>>
    /\ cmd = [name |-> <<>>, args |-> <<>>]

Next == (\E l \in Lines : ReadLine(l)) \/ Dispatch \/ ParseCommand \/ ReturnToShell \/ Restart

Spec == Init /\ [][Next]_vars

-------------------------------------------------------------------------------
\* A line as its reader sees it: its words are the runs between spaces.
Spaces(l) == {j \in 1..Len(l) : l[j] = SP}
FirstWord(l) == IF Spaces(l) = {} THEN l ELSE SubSeq(l, 1, Min(Spaces(l)) - 1)
AfterWord(l) ==
    LET rest == {j \in (Len(FirstWord(l)) + 1)..Len(l) : l[j] # SP}
    IN  IF rest = {} THEN <<>> ELSE SubSeq(l, Min(rest), Len(l))

\* The program looked up is the first word of the line, cut at NameMax, whatever earlier
\* and longer lines left in the buffer behind it.
NameIsFirstWord ==
    pc = "ran" => LET w == FirstWord(line) IN
                  cmd.name = IF Len(w) <= NameMax THEN w ELSE SubSeq(w, 1, NameMax)

\* Arguments that were typed after a name that is not too long reach the program as they
\* were typed: whole, and with nothing of an earlier line behind them.
TypedArgsArrive ==
    pc = "ran" /\ AfterWord(line) # <<>> /\ Len(FirstWord(line)) <= NameMax =>
        cmd.args = AfterWord(line)

\* syscall.c:107: "copy command into a buffer until /0 or /n is reached": a program gets
\* no arguments when none were typed.
NoStaleArgs == pc = "ran" /\ AfterWord(line) = <<>> => cmd.args = <<>>

===============================================================================
