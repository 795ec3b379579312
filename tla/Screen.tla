------------------------------- MODULE Screen -------------------------------
(***************************************************************************)
(* The text screen (lib.c): its video memory and cursor, written to by     *)
(* programs through terminal_write (terminal.c) and by the echo of the     *)
(* keyboard's interrupt handler (keyboard.c).  Video memory is a row-major *)
(* array that scrolls; the checks compare it with the text printed.  Of    *)
(* terminal_read only the memset is here: it wipes the buffer Backspace    *)
(* looks at, byte by byte between keys.                                    *)
(***************************************************************************)
EXTENDS Integers, Sequences

CONSTANTS
    NUM_ROWS, NUM_COLS,     \* 25 and 80
    TAB,                    \* columns a tab moves the cursor (4)
    SIZE,                   \* KEYBOARD_BUFFER_SIZE (128)
    Letters,                \* printable characters
    Outputs,                \* what a program hands to one terminal_write
    MaxText                 \* bound on the characters printed since the last clear

Blank == " "
NL == "NL"
CR == "CR"
Tab == "TAB"
Bs == "BS"
Esc == "ESC"                \* any other character below ' ' that a key stands for
Nul == "NUL"                \* what the keymaps give for keys that stand for nothing
Chars == Letters \cup {NL, CR, Tab, Bs, Esc, Nul}

\* A whole line, even one of tabs, fits above the bottom row.
ASSUME ScreenAssumption ==
    /\ NUM_ROWS \in Nat \ {0, 1} /\ NUM_COLS \in Nat \ {0} /\ TAB \in Nat \ {0}
    /\ SIZE \in Nat \ {0} /\ TAB * (SIZE - 1) <= (NUM_ROWS - 1) * NUM_COLS
    /\ Outputs \subseteq Seq(Chars) \ {<<>>}
    /\ Letters \cap {Blank, NL, CR, Tab, Bs, Esc, Nul} = {}

Cells == 0..(NUM_ROWS * NUM_COLS - 1)

VARIABLES
    scr,    \* [x, y, mem]: screen_x, screen_y and the cells of video memory
    line,   \* the characters typed since the last Enter, as many as the buffer's index
    wiped,  \* places of the line, from 1, whose tab a read has set to 0 in the buffer
    wipe,   \* the byte of the buffer a read clears next, from 0; SIZE - 1, the place of the
            \* newline, if no line waits to be read
    text,   \* history: the characters printed since the last clear and not erased
    top,    \* history: how many rows of that text have scrolled off
    own,    \* history: how many characters at the end of text are the line's
    clean   \* history: the cursor never left its row, nor was other text erased

vars == <<scr, line, wiped, wipe, text, top, own, clean>>

-------------------------------------------------------------------------------
clear_term == [x |-> 0, y |-> 0, mem |-> [p \in Cells |-> Blank]]

\* A place behind the last cell, which tabs can lead to, is not on the screen.
PutCell(s, c) ==
    LET p == NUM_COLS * s.y + s.x IN
    [s EXCEPT !.mem = [q \in Cells |-> IF q = p THEN c ELSE @[q]]]

\* Mutant: the row that comes free keeps its text.
scroll_term_NoBlank(s) ==
    [s EXCEPT !.mem = [p \in Cells |-> IF p + NUM_COLS \in Cells THEN @[p + NUM_COLS] ELSE @[p]]]

scroll_term(s) ==
    [s EXCEPT !.mem = [p \in Cells |-> IF p + NUM_COLS \in Cells THEN @[p + NUM_COLS] ELSE Blank]]

backspace_pressed(s) ==
    PutCell(IF s.x > 0 THEN [s EXCEPT !.x = @ - 1]
            ELSE IF s.y > 0 THEN [s EXCEPT !.x = NUM_COLS - 1, !.y = @ - 1] ELSE s, Blank)

\* A printed character takes its cell; past the last column the row ends at once.
Printed(s, c) ==
    LET t == [PutCell(s, c) EXCEPT !.x = @ + 1] IN
    [(IF t.x < NUM_COLS THEN t
      ELSE IF t.y = NUM_ROWS - 1 THEN scroll_term(t) ELSE [t EXCEPT !.y = @ + 1])
     EXCEPT !.x = @ % NUM_COLS]

\* Mutant: the last row is one further down.
BelowScreen_Late(s) == s.y > NUM_ROWS

BelowScreen(s) == s.y >= NUM_ROWS

putc_term(s, c) ==
    LET t == CASE c = Bs  -> backspace_pressed(s)
               [] c = Tab -> [s EXCEPT !.x = @ + TAB]
               [] c = CR  -> [s EXCEPT !.x = 0]
               [] c = NL  -> [s EXCEPT !.x = 0, !.y = @ + 1]
               [] c \in Letters -> Printed(s, c)
               [] OTHER   -> s
    IN  IF BelowScreen(t) THEN [scroll_term(t) EXCEPT !.y = NUM_ROWS - 1] ELSE t

\* The screen after each of the characters of str.
Puts(s, str) ==
    LET after[k \in 0..Len(str)] ==
            IF k = 0 THEN s ELSE putc_term(after[k - 1], str[k])
    IN  after

-------------------------------------------------------------------------------
\* The reference: where on an endless paper of NUM_COLS columns the k-th character of t
\* puts the cursor, and what stands in each of the paper's cells.
Positions(t) ==
    LET pos[k \in 0..Len(t)] ==
            IF k = 0 THEN 0
            ELSE CASE t[k] = NL  -> (pos[k - 1] \div NUM_COLS + 1) * NUM_COLS
                   [] t[k] = Tab -> pos[k - 1] + TAB
                   [] OTHER      -> pos[k - 1] + 1
    IN  pos
PaperCell(t, p) ==
    LET at == {k \in 1..Len(t) : t[k] \in Letters /\ Positions(t)[k - 1] = p}
    IN  IF at = {} THEN Blank ELSE t[CHOOSE k \in at : TRUE]

\* The text t after each of the characters of str; some take no place on the screen.
Written(t, str) ==
    LET after[k \in 0..Len(str)] ==
            IF k = 0 THEN t
            ELSE IF str[k] \in {Esc, Nul} THEN after[k - 1] ELSE Append(after[k - 1], str[k])
    IN  after

\* The history of printing string s: BS and CR from a program move the cursor over text,
\* which the reference does not follow.
Recorded(s) ==
    /\ text' = Written(text, s)[Len(s)]
    /\ LET row == Positions(text')[Len(text')] \div NUM_COLS - (NUM_ROWS - 1)
       IN  top' = IF row > top THEN row ELSE top
    /\ clean' = (clean /\ \A j \in DOMAIN s :
                    /\ s[j] \notin {Bs, CR}
                    /\ Puts(scr, s)[j].x < NUM_COLS)

\* terminal_write: interrupts are off, so a whole buffer is printed in one step.
terminal_write(s) ==
    /\ Len(text) + Len(s) <= MaxText
    /\ scr' = Puts(scr, s)[Len(s)]
    /\ Recorded(s)
    /\ own' = 0
    /\ UNCHANGED <<line, wiped, wipe>>

\* A key is echoed while the line has room for it, and kept if it stands for a character,
\* also for one that takes no place on the screen.  A newline is echoed again when it ends
\* up, or is refused, in the last place of the buffer; it lets a read go on.
TypeKey(c) ==
    /\ c \in Letters \cup {NL, Tab, Esc, Nul}
    /\ LET room == Len(line) < SIZE - 1
           kept == IF room /\ c # Nul THEN Append(line, c) ELSE line
           echo == (IF room THEN <<c>> ELSE <<>>)
                   \o (IF c = NL /\ Len(kept) = SIZE - 1 THEN <<NL>> ELSE <<>>) IN
       /\ Len(text) + Len(echo) <= MaxText
       /\ scr' = Puts(scr, echo)[Len(echo)]
       /\ Recorded(echo)
       /\ line' = IF c = NL THEN <<>> ELSE kept
       /\ wiped' = IF c = NL THEN {} ELSE wiped
       /\ wipe' = IF c = NL /\ wipe = SIZE - 1 THEN 0 ELSE wipe
       /\ own' = IF c = NL THEN 0 ELSE IF c = Esc THEN own ELSE own + Len(kept) - Len(line)

\* A tab is erased by as many backspaces as it had columns.
EraseTab(s) ==
    LET after[k \in 0..TAB] == IF k = 0 THEN s ELSE backspace_pressed(after[k - 1])
    IN  after[TAB]

\* Backspace takes the last character of the line, if there is one, off the screen; for
\* one that took no place, the character before it.  A tab that a read has wiped in the
\* buffer is not known as one any more and goes back a single column.
Backspace ==
    /\ line # <<>>
    /\ LET n == Len(line)
           tab == line[n] = Tab /\ n \notin wiped IN
       /\ scr' = IF tab THEN EraseTab(scr) ELSE putc_term(scr, Bs)
       /\ line' = SubSeq(line, 1, n - 1) /\ wiped' = wiped \ {n}
       /\ \/ /\ own > 0 /\ line[n] # Esc /\ n \notin wiped
             /\ text' = SubSeq(text, 1, Len(text) - 1) /\ own' = own - 1 /\ UNCHANGED clean
          \/ /\ own > 0 /\ n \in wiped
             /\ own' = own - 1 /\ clean' = FALSE /\ UNCHANGED text
          \/ /\ own = 0 \/ line[n] = Esc
             /\ clean' = (clean /\ text = <<>>) /\ UNCHANGED <<text, own>>
    /\ UNCHANGED <<top, wipe>>

\* One byte of terminal_read's memset of the buffer, whose index stays where it is; after
\* the last one enterpress is reset.  Only for a tab does the byte matter afterwards.
Wipe ==
    /\ wipe < SIZE - 1
    /\ wipe' = wipe + 1
    /\ wiped' = wiped \cup {j \in DOMAIN line : j = wipe + 1 /\ line[j] = Tab}
    /\ UNCHANGED <<scr, line, text, top, own, clean>>

\* Control-L clears the screen and leaves the line as it is.
ClearKey ==
    /\ scr' = clear_term
    /\ text' = <<>> /\ top' = 0 /\ own' = 0 /\ clean' = TRUE
    /\ UNCHANGED <<line, wiped, wipe>>

Init ==
    /\ scr = clear_term /\ line = <<>> /\ wiped = {} /\ wipe = SIZE - 1
    /\ text = <<>> /\ top = 0 /\ own = 0 /\ clean = TRUE

Next ==
    \/ \E s \in Outputs : terminal_write(s)
    \/ \E c \in Chars : TypeKey(c)
    \/ Backspace
    \/ Wipe
    \/ ClearKey

Spec == Init /\ [][Next]_vars

-------------------------------------------------------------------------------
\* The cursor's row is a row of the screen after every call; its column may run past the
\* last one after tabs, and video memory holds only printable characters.
TypeOK ==
    /\ scr.y \in 0..(NUM_ROWS - 1) /\ scr.x \in Nat
    /\ scr.mem \in [Cells -> Letters \cup {Blank}]
    /\ line \in Seq(Letters \cup {Tab, Esc}) /\ Len(line) < SIZE
    /\ wiped \subseteq DOMAIN line /\ wipe \in 0..(SIZE - 1)
    /\ text \in Seq(Chars) /\ top \in Nat /\ own \in 0..Len(line) /\ clean \in BOOLEAN

\* Wrapping, scrolling and erasing agree: as long as no tab ran past the last column,
\* nothing but the echo of the line was erased and no tab was erased after a read had
\* wiped it, the screen shows the last rows of the text printed so far, wrapped at
\* NUM_COLS, with the cursor behind its last character.  Characters that are no tabs may be
\* wiped at any time before they are erased.
ShowsText ==
    clean =>
        /\ NUM_COLS * (scr.y + top) + scr.x = Positions(text)[Len(text)]
        /\ \A p \in Cells : scr.mem[p] = PaperCell(text, p + NUM_COLS * top)

===============================================================================
