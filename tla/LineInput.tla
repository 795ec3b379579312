------------------------------ MODULE LineInput ------------------------------
(***************************************************************************)
(* The keyboard interrupt handler (keyboard.c) and terminal_read           *)
(* (terminal.c), which share keyboard_buffer and enterpress.  The handler  *)
(* runs with interrupts off and is one action; terminal_read enables       *)
(* interrupts first, so a key may arrive between any two of its steps.     *)
(* The echo on the screen is not part of this module.                      *)
(***************************************************************************)
EXTENDS Integers, Sequences

CONSTANTS
    SIZE,       \* KEYBOARD_BUFFER_SIZE, and the 128 of terminal_read
    WORD,       \* bytes memset clears between two points where an interrupt is taken
    Keys,       \* keys by what the two keymaps give: [low, up, letter, L]
    Holds,      \* modifiers that act while held: shift, ctrl, alt
    Locks       \* modifiers that toggle: caps, num, scroll

NUL == "NUL"
NL == "NL"
BS == "BS"
Bytes == {k.low : k \in Keys} \cup {k.up : k \in Keys} \cup {NUL, NL}

ASSUME LineAssumption ==
    /\ SIZE \in Nat /\ SIZE >= 2 /\ WORD \in Nat /\ WORD >= 1 /\ SIZE % WORD = 0
    /\ \A k \in Keys : k.letter \in BOOLEAN /\ k.L \in BOOLEAN

VARIABLES
    keyboard_buffer, keyboard_buffer_index, key_status, enterpress,
    \* terminal_read: where it is, its i, the position of strncpy or memset, whether
    \* strncpy is past the end of the string, and the bytes copied
    pc, i, k, pad, buf,
    \* history: the line being typed and the last one ended by Enter and not read; clean
    \* if no read was at work on the buffer meanwhile and nothing was typed over it
    line, last

keyboard == <<keyboard_buffer, keyboard_buffer_index, key_status, enterpress>>
reader == <<pc, i, k, pad, buf>>
history == <<line, last>>
vars == <<keyboard, reader, history>>

-------------------------------------------------------------------------------
\* Shift is inverted by caps lock on letters.
handle_standard_key(key) ==
    LET shifted == IF "caps" \in key_status /\ key.letter THEN "shift" \notin key_status
                   ELSE "shift" \in key_status
    IN  IF shifted THEN key.up ELSE key.low

\* Mutant: no place is kept for the newline.
HasRoom_Full(n) == n < SIZE

\* The last place of the buffer is kept for the newline.
HasRoom(n) == n < SIZE - 1

\* Mutant: the character is erased on the screen only.
AfterErase_Kept(c) == keyboard_buffer_index

\* Backspace takes back one character, and leaves it in the buffer.
AfterErase(c) ==
    IF c = BS /\ keyboard_buffer_index # 0 THEN keyboard_buffer_index - 1
    ELSE keyboard_buffer_index

\* Mutant: a newline in a full buffer is dropped.
StoreNewline_NoEdge(b, n, c) == b

\* The edge case: the newline goes into the last place.
StoreNewline(b, n, c) == IF c = NL /\ n = SIZE - 1 THEN [b EXCEPT ![n] = NL] ELSE b

\* History: what a line editor of SIZE - 1 characters would hold.
Busy == pc \in {"scan", "copy", "clear", "reset"}
NoLine == [text |-> <<>>, clean |-> FALSE]
Record(c) ==
    LET text == IF c = BS THEN SubSeq(line.text, 1, Len(line.text) - 1)
                ELSE IF Len(line.text) < SIZE - 1 THEN Append(line.text, c) ELSE line.text
    IN  IF c = NL
        THEN /\ last' = IF line.clean /\ ~Busy
                        THEN [text |-> Append(line.text, NL), clean |-> TRUE] ELSE NoLine
             /\ line' = [text |-> <<>>, clean |-> TRUE]
        ELSE /\ line' = [text |-> text, clean |-> text = <<>> \/ (line.clean /\ ~Busy)]
             /\ last' = IF enterpress /\ c # BS THEN NoLine ELSE last

\* The part of keyboard_handler that edits the line.
EditLine(c) ==
    LET n == AfterErase(c)
        store == c \notin {NUL, BS} /\ HasRoom(n)
        stored == IF store THEN [keyboard_buffer EXCEPT ![n] = c] ELSE keyboard_buffer
        next == IF store THEN n + 1 ELSE n
    IN  /\ keyboard_buffer' = StoreNewline(stored, next, c)
        /\ keyboard_buffer_index' = IF c = NL THEN 0 ELSE next
        /\ enterpress' = (c = NL \/ enterpress)
        /\ IF c = NUL THEN UNCHANGED history ELSE Record(c)

\* keyboard_handler: a key is pressed; Ctrl+L only clears the screen.
Press(key) ==
    /\ IF "ctrl" \in key_status /\ key.L
       THEN UNCHANGED <<keyboard, history>>
       ELSE EditLine(handle_standard_key(key)) /\ UNCHANGED key_status
    /\ UNCHANGED reader

\* keyboard_handler: a modifier is pressed, or one that acts while held is released.
Modifier(m, down) ==
    /\ key_status' = IF m \in Locks
                     THEN IF ~down THEN key_status
                          ELSE IF m \in key_status THEN key_status \ {m} ELSE key_status \cup {m}
                     ELSE IF down THEN key_status \cup {m} ELSE key_status \ {m}
    /\ UNCHANGED <<keyboard_buffer, keyboard_buffer_index, enterpress, reader, history>>

-------------------------------------------------------------------------------
Keep == UNCHANGED <<keyboard, history>>

\* Mutant: an Enter pressed before the read is discarded.
ReadStart_Discards ==
    /\ pc = "idle" /\ pc' = "wait"
    /\ enterpress' = FALSE
    /\ UNCHANGED <<keyboard_buffer, keyboard_buffer_index, key_status, i, k, pad, buf, history>>

\* terminal_read up to its loop; a null buf would be answered by -1 and change
\* nothing; nbytes is cut to SIZE and not used again.
ReadStart ==
    /\ pc = "idle" /\ pc' = "wait"
    /\ UNCHANGED <<i, k, pad, buf>> /\ Keep

\* while(!enterpress)
Wait ==
    /\ pc = "wait" /\ enterpress
    /\ pc' = "scan"
    /\ UNCHANGED <<i, k, pad, buf>> /\ Keep

\* The search for the newline, one byte at a time.
Scan ==
    /\ pc = "scan"
    /\ IF i < SIZE /\ keyboard_buffer[i] # NL
       THEN i' = i + 1 /\ UNCHANGED pc
       ELSE pc' = "copy" /\ UNCHANGED i
    /\ UNCHANGED <<k, pad, buf>> /\ Keep

\* One byte of strncpy(buf, keyboard_buffer, i + 1): after a NUL the rest is NUL.  The
\* byte after the buffer, which a copy of SIZE + 1 bytes may reach, can be anything.
Copy ==
    /\ pc = "copy"
    /\ IF k <= i
       THEN /\ \E c \in IF pad THEN {NUL} ELSE IF k < SIZE THEN {keyboard_buffer[k]} ELSE Bytes :
                  buf' = Append(buf, c) /\ pad' = (c = NUL)
            /\ k' = k + 1 /\ UNCHANGED pc
       ELSE pc' = "clear" /\ k' = 0 /\ UNCHANGED <<buf, pad>>
    /\ UNCHANGED <<i>> /\ Keep

\* One word of memset(keyboard_buffer, 0, SIZE).
Clear ==
    /\ pc = "clear"
    /\ IF k < SIZE
       THEN /\ keyboard_buffer' = [j \in DOMAIN keyboard_buffer |->
                                    IF j \in k..(k + WORD - 1) THEN NUL ELSE keyboard_buffer[j]]
            /\ k' = k + WORD /\ UNCHANGED pc
            /\ line' = [line EXCEPT !.clean = line.text = <<>>]
       ELSE pc' = "reset" /\ UNCHANGED <<keyboard_buffer, k, line>>
    /\ UNCHANGED <<keyboard_buffer_index, key_status, enterpress, i, pad, buf, last>>

\* enterpress = 0
Reset ==
    /\ pc = "reset" /\ pc' = "cli"
    /\ enterpress' = FALSE /\ last' = NoLine
    /\ UNCHANGED <<keyboard_buffer, keyboard_buffer_index, key_status,
                   i, k, pad, buf, line>>

\* cli() and the return of i + 1; the locals end.
ReadReturn ==
    /\ pc = "cli" /\ pc' = "idle"
    /\ i' = 0 /\ k' = 0 /\ pad' = FALSE /\ buf' = <<>>
    /\ Keep

-------------------------------------------------------------------------------
Init ==
    /\ keyboard_buffer = [j \in 0..(SIZE - 1) |-> NUL]
    /\ keyboard_buffer_index = 0 /\ key_status = {} /\ enterpress = FALSE
    /\ pc = "idle" /\ i = 0 /\ k = 0 /\ pad = FALSE /\ buf = <<>>
    /\ line = [text |-> <<>>, clean |-> TRUE]
    /\ last = NoLine

terminal_read == ReadStart \/ Wait \/ Scan \/ Copy \/ Clear \/ Reset \/ ReadReturn

Next ==
    \/ \E key \in Keys : Press(key)
    \/ \E m \in Holds \cup Locks, down \in BOOLEAN : Modifier(m, down)
    \/ terminal_read

\* A read that has begun goes on: interrupt handlers return to it, and nothing preempts.
ReadSteps == Wait \/ Scan \/ Copy \/ Clear \/ Reset \/ ReadReturn
Spec == Init /\ [][Next]_vars /\ WF_vars(ReadSteps)

-------------------------------------------------------------------------------
TypeOK ==
    /\ keyboard_buffer \in [0..(SIZE - 1) -> Bytes]
    /\ keyboard_buffer_index \in 0..(SIZE - 1)
    /\ key_status \subseteq Holds \cup Locks
    /\ enterpress \in BOOLEAN
    /\ pc \in {"idle", "wait", "scan", "copy", "clear", "reset", "cli"}
    /\ i \in 0..SIZE /\ k \in 0..(SIZE + 1) /\ pad \in BOOLEAN
    /\ buf \in Seq(Bytes)
    /\ line \in [text : Seq(Bytes), clean : BOOLEAN]
    /\ last \in [text : Seq(Bytes), clean : BOOLEAN]

\* Whatever a read wipes or copies meanwhile, the buffer below the index holds the line
\* being typed, a wiped place being NUL, and its last place nothing but a newline: no
\* key ever finds the buffer full, and no old newline can end the new line early.
BufferHoldsLine ==
    /\ keyboard_buffer_index = Len(line.text)
    /\ \A j \in 0..(keyboard_buffer_index - 1) :
          keyboard_buffer[j] \in {line.text[j + 1], NUL} \ (IF line.clean THEN {NUL} ELSE {})
    /\ keyboard_buffer[SIZE - 1] \in {NUL, NL}

\* A line typed while no read is at work and not typed over before it is read is
\* delivered exactly: edited, ended by its newline, neither cut nor mixed with what an
\* earlier line or an erased character left in the buffer.
CleanLineDelivered ==
    pc = "reset" /\ last.clean => buf = last.text /\ i + 1 = Len(last.text)

\* An Enter pressed before a read, or while one waits, makes that read return, whatever is
\* typed over the line and however many keys arrive while the read is at work; if there
\* is no read, it stays pressed for the next one.  An Enter pressed while a read searches,
\* copies or clears (terminal.c:45-54) promises nothing: enterpress = 0 forgets it with the
\* one that was read, and the next read waits for another.
ReadReturns == (enterpress /\ ~Busy) ~> (pc = "cli" \/ [](pc = "idle" /\ enterpress))

\* terminal.c:15: "always add a newline character to the end of the buffer before
\* returning".
ReadEndsInNewline == pc = "reset" => buf[Len(buf)] = NL

===============================================================================
