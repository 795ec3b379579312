--------------------------------- MODULE Fish ---------------------------------
(***************************************************************************)
(* The program fish as a whole: add_frames reads two text files side by    *)
(* side and adds a blinking character for every place where one of them    *)
(* has a visible one, then main lets them blink, adds, synchronises and    *)
(* removes one more.  The operations on the blinking characters are those  *)
(* of Blink; a read of the clock returns at the next tick.                 *)
(***************************************************************************)
EXTENDS Grep, Blink

CONSTANTS
    NUM_COLS,   \* cells of a row (80)
    Offset,     \* the column the frames begin in (40)
    Cell,       \* the place of the character main adds (6 * 80 + 60)
    WAIT,       \* ticks between two changes (100)
    PHASE,      \* ticks the frames are shown in turn (15)
    Frames      \* pairs of file names fish is built with

\* The character of a frame in row r and column k, counted from 0, blank outside of it.
CharAt(lines, r, k) ==
    IF r < Len(lines) /\ k < Len(lines[r + 1]) THEN lines[r + 1][k + 1] ELSE " "

Before(p, q) == p[1] < q[1] \/ (p[1] = q[1] /\ p[2] < q[2])

\* The places <<row, column>> where one of two frames has a visible character.
Visible(lines) ==
    {p \in UNION {UNION {{<<r - 1, j - 1>> : j \in 1..Len(lines[k][r])} :
                         r \in 1..Len(lines[k])} : k \in 1..2} :
        \E k \in 1..2 : CharAt(lines[k], p[1], p[2]) # " "}

\* The cell of such a place, in the unsigned short a location is.
CellOf(p) == (p[1] * NUM_COLS + Offset + p[2]) % USHORT

\* No visible character is at location 0, which would mark its structure free again.
ASSUME FishAssumption ==
    /\ NUM_COLS \in Nat /\ Offset \in 1..(NUM_COLS - 1) /\ Cell \in 1..(CELLS - 1)
    /\ WAIT \in Nat \ {0} /\ PHASE \in Nat \ {0}
    /\ \A p \in Frames, k \in 1..2 :
          Matches(p[k]) # {} => read_dentry_by_name(p[k]).ft = FtFile
    /\ \A p \in Frames :
          (\A k \in 1..2 : Matches(p[k]) # {}) =>
              \A q \in Visible([k \in 1..2 |-> LinesOf(Content(read_dentry_by_name(p[k]).ind))]) :
                  CellOf(q) # 0

VARIABLES
    fpc,        \* "open", "chars", "row", "wait", "done", "failed"
    frames,     \* the names of the two files
    f,          \* their descriptors, with the flag that says they are open
    c,          \* the last character of each (c0, c1)
    eof,        \* whether each has ended (eof0, eof1)
    row, col,
    stage,      \* which of the four waits of main is on
    waited      \* ticks of it that have passed

fishVars == <<fpc, frames, f, c, eof, row, col, stage, waited, blinkVars>>

FishStart(pc0, names) ==
    /\ fpc = pc0 /\ frames = names
    /\ f = <<[inode |-> 0, file_position |-> 0, flag |-> 0], [inode |-> 0, file_position |-> 0, flag |-> 0]>>
    /\ c = <<"0", "0">> /\ eof = <<FALSE, FALSE>>
    /\ row = 0 /\ col = 0 /\ stage = 1 /\ waited = 0
    /\ BlinkInit

FishIdle == FishStart("idle", <<>>)
FishInit == \E p \in Frames : FishStart("open", p)

\* add_frames opens the two files and halts the program if one is missing.
OpenFrames ==
    /\ fpc = "open"
    /\ IF \E k \in 1..2 : Matches(frames[k]) = {}
       THEN fpc' = "failed" /\ UNCHANGED f
       ELSE /\ fpc' = "chars"
            /\ f' = [k \in 1..2 |-> [inode |-> read_dentry_by_name(frames[k]).ind,
                                     file_position |-> 0, flag |-> 1]]
    /\ UNCHANGED <<frames, c, eof, row, col, stage, waited, blinkVars>>

\* One byte of file k, unless its line has ended: a closed descriptor answers -1 and
\* leaves the character alone, the end of the file is taken for the end of the line.
ReadChar(k) ==
    IF c[k] = NL THEN [ch |-> NL, end |-> eof[k], pos |-> f[k].file_position]
    ELSE IF f[k].flag = 0 THEN [ch |-> c[k], end |-> eof[k], pos |-> f[k].file_position]
    ELSE LET r == file_read(f[k], 1) IN
         IF r.ret = 0 THEN [ch |-> NL, end |-> TRUE, pos |-> r.pos]
         ELSE [ch |-> ByteAt(f[k].inode, f[k].file_position), end |-> eof[k], pos |-> r.pos]

Shown(ch) == IF ch = NL THEN " " ELSE ch

\* Mutant: the next row begins at the left edge.
Location_NoOffset(r, k) == (r * NUM_COLS + k + (IF r = 0 THEN Offset ELSE 0)) % USHORT

\* The location of column k of row r, an unsigned short.
Location(r, k) == (r * NUM_COLS + k + Offset) % USHORT

\* One round of the inner loop: a character of each file, and a blinking character for
\* the two unless both are blank.
NextChars ==
    /\ fpc = "chars"
    /\ LET r == [k \in 1..2 |-> ReadChar(k)] IN
       /\ c' = [k \in 1..2 |-> r[k].ch]
       /\ eof' = [k \in 1..2 |-> r[k].end]
       /\ f' = [k \in 1..2 |-> [f[k] EXCEPT !.file_position = r[k].pos]]
       /\ IF r[1].ch = NL /\ r[2].ch = NL
          THEN fpc' = "row" /\ UNCHANGED <<col, blinkVars>>
          ELSE /\ col' = col + 1 /\ UNCHANGED fpc
               /\ IF \E k \in 1..2 : r[k].ch \notin {" ", NL}
                  THEN mp1_ioctl_add([location |-> Location(row, col),
                                      on_char |-> Shown(r[1].ch), off_char |-> Shown(r[2].ch),
                                      on_length |-> PHASE, off_length |-> PHASE])
                  ELSE UNCHANGED blinkVars
    /\ UNCHANGED <<frames, row, stage, waited>>

\* The end of a row: a file that has ended is closed, in every row that follows again.
EndRow ==
    /\ fpc = "row"
    /\ c' = [k \in 1..2 |-> IF eof[k] THEN NL ELSE "0"]
    /\ f' = [k \in 1..2 |-> IF eof[k] THEN [f[k] EXCEPT !.flag = 0] ELSE f[k]]
    /\ row' = row + 1 /\ col' = 0
    /\ fpc' = IF eof[1] /\ eof[2] THEN "wait" ELSE "chars"
    /\ UNCHANGED <<frames, eof, stage, waited, blinkVars>>

\* The clock is read, then the tasklet runs.
WaitTick ==
    /\ fpc = "wait" /\ waited < WAIT
    /\ waited' = waited + 1
    /\ mp1_rtc_tasklet
    /\ UNCHANGED <<fpc, frames, f, c, eof, row, col, stage>>

\* What main does after each of its waits.
EndStage ==
    /\ fpc = "wait" /\ waited = WAIT
    /\ waited' = 0 /\ stage' = stage + 1
    /\ \/ /\ stage = 1
          /\ mp1_ioctl_add([location |-> Cell, on_char |-> "I", off_char |-> "M",
                            on_length |-> 7, off_length |-> 6])
          /\ UNCHANGED fpc
       \/ stage = 2 /\ mp1_ioctl_sync(Offset, Cell) /\ UNCHANGED fpc
       \/ stage = 3 /\ mp1_ioctl_remove(Cell) /\ UNCHANGED fpc
       \/ stage = 4 /\ fpc' = "done" /\ UNCHANGED blinkVars
    /\ UNCHANGED <<frames, f, c, eof, row, col>>

FishNext == OpenFrames \/ NextChars \/ EndRow \/ WaitTick \/ EndStage

-------------------------------------------------------------------------------
\* The two frames are shown in turn, each for PHASE ticks, wherever their lines and the
\* two files end.  The place <<r, k>> of the files is shown k cells behind the first frame
\* cell of row r: within the row that is the layout of the files, and a line that is too
\* long runs on in the next row, over what belongs there.  Of two places on one cell the
\* later one is seen during the first phase, the earlier one from then on.  A place off
\* the screen is dropped, and so is every place after the SLOTS first that are on it; a
\* cell left over keeps what was on the screen before.  Only the cell main plays with is
\* left out.
FishShowsFrames ==
    fpc \in {"wait", "done"} =>
        LET tick == IF fpc = "done" THEN 4 * WAIT ELSE (stage - 1) * WAIT + waited
            lines == <<LinesOf(Content(f[1].inode)), LinesOf(Content(f[2].inode))>>
            placed == {p \in Visible(lines) : CellOf(p) < CELLS}
            kept == {p \in placed : Cardinality({q \in placed : Before(q, p)}) < SLOTS}
            seen(p, on) == IF tick < PHASE THEN \A q \in on \ {p} : Before(q, p)
                                           ELSE \A q \in on \ {p} : Before(p, q)
        IN  \A cell \in 0..(CELLS - 1) \ {Cell} :
                LET on == {p \in kept : CellOf(p) = cell} IN
                IF on = {} THEN vmem[cell] = LiveScreen[cell]
                ELSE \E p \in on : /\ seen(p, on)
                                   /\ vmem[cell] = CharAt(lines[1 + ((tick \div PHASE) % 2)], p[1], p[2])

===============================================================================
