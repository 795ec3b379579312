--------------------------- MODULE LineInputProofs ---------------------------
(***************************************************************************)
(* For every size of the keyboard buffer, every step of memset and every   *)
(* keyboard: the handler and terminal_read keep the buffer in step with    *)
(* the line being typed, and a line typed while no read is at work arrives *)
(* exactly.                                                                *)
(***************************************************************************)
EXTENDS LineInput, TLAPS

\* memset works through the buffer in whole words.
ClearAligned == pc = "clear" => \E q \in Nat : k = q * WORD

TypeInv == TypeOK /\ ClearAligned

\* The line being typed has no newline in it, and terminal_read's locals are fresh until
\* its loops use them.
LineInv ==
    /\ \A j \in 1..Len(line.text) : line.text[j] \notin {NL, NUL}
    /\ BufferHoldsLine
    /\ pc \in {"idle", "wait"} => i = 0
    /\ pc \in {"idle", "wait", "scan"} => k = 0 /\ pad = FALSE /\ buf = <<>>

\* A line that waits to be read cleanly ends in its only newline, has nothing typed after
\* it, stays in the buffer until the copy is made, and the copy agrees with it so far.
WaitingLine ==
    LET t == last.text
        n == Len(t) IN
    last.clean =>
        /\ enterpress /\ line.text = <<>>
        /\ n \in 1..SIZE /\ t[n] = NL /\ \A j \in 1..(n - 1) : t[j] \notin {NL, NUL}
        /\ pc \notin {"clear", "reset"} => \A j \in 0..(n - 1) : keyboard_buffer[j] = t[j + 1]
        /\ pc = "scan" => i < n
        /\ pc = "copy" => /\ i + 1 = n /\ pad = FALSE /\ k <= n /\ Len(buf) = k
                          /\ \A j \in 1..k : buf[j] = t[j]
        /\ pc \in {"clear", "reset"} => i + 1 = n /\ buf = t

-------------------------------------------------------------------------------
\* What EditLine does, by the kind of character: a key that gives none changes nothing.
LEMMA EditNul ==
    ASSUME TypeOK, EditLine(NUL)
    PROVE  UNCHANGED <<keyboard_buffer, keyboard_buffer_index, enterpress, line, last>>
<1>1. AfterErase(NUL) = keyboard_buffer_index BY DEF AfterErase, NUL, BS
<1>2. StoreNewline(keyboard_buffer, keyboard_buffer_index, NUL) = keyboard_buffer
  BY DEF StoreNewline, NUL, NL
<1>3. NUL # NL BY DEF NUL, NL
<1>4. enterpress' = enterpress BY <1>3 DEF EditLine, TypeOK
<1> QED BY <1>1, <1>2, <1>3, <1>4 DEF EditLine, history

\* A backspace takes back a character and writes nothing.
LEMMA EditBackspace ==
    ASSUME TypeOK, EditLine(BS)
    PROVE  /\ keyboard_buffer' = keyboard_buffer /\ enterpress' = enterpress /\ last' = last
           /\ keyboard_buffer_index' = IF keyboard_buffer_index = 0 THEN 0
                                       ELSE keyboard_buffer_index - 1
           /\ line'.text = SubSeq(line.text, 1, Len(line.text) - 1)
           /\ line' \in [text : Seq(Bytes), clean : BOOLEAN]
           /\ line'.clean => line'.text = <<>> \/ (line.clean /\ ~Busy)
<1> BS # NL /\ BS # NUL BY DEF BS, NL, NUL
<1>1. /\ keyboard_buffer' = keyboard_buffer
      /\ keyboard_buffer_index' = IF keyboard_buffer_index = 0 THEN 0
                                  ELSE keyboard_buffer_index - 1
  BY DEF EditLine, AfterErase, StoreNewline
<1>2. enterpress' = enterpress BY DEF EditLine, TypeOK
<1>3. Record(BS) BY DEF EditLine
<1> DEFINE text == SubSeq(line.text, 1, Len(line.text) - 1)
<1>4. text \in Seq(Bytes)
  <2>1. line.text \in Seq(Bytes) BY DEF TypeOK
  <2> QED BY <2>1
<1>5. /\ last' = last
      /\ line' = [text |-> text, clean |-> text = <<>> \/ (line.clean /\ ~Busy)]
  BY <1>3 DEF Record
<1> HIDE DEF text
<1>6. (text = <<>> \/ (line.clean /\ ~Busy)) \in BOOLEAN OBVIOUS
<1>7. line'.text = text /\ (line'.clean <=> (text = <<>> \/ (line.clean /\ ~Busy)))
  BY <1>5, Zenon
<1>8. line' \in [text : Seq(Bytes), clean : BOOLEAN] BY <1>4, <1>5, <1>6
<1> QED BY <1>1, <1>2, <1>5, <1>7, <1>8 DEF text

\* Enter always finds a place for the newline, after the line.
LEMMA EditEnter ==
    ASSUME TypeOK, EditLine(NL)
    PROVE  /\ keyboard_buffer' \in [0..(SIZE - 1) -> Bytes]
           /\ keyboard_buffer'[keyboard_buffer_index] = NL
           /\ \A j \in 0..(keyboard_buffer_index - 1) : keyboard_buffer'[j] = keyboard_buffer[j]
           /\ keyboard_buffer'[SIZE - 1] \in {keyboard_buffer[SIZE - 1], NL}
           /\ keyboard_buffer_index' = 0 /\ enterpress' = TRUE
           /\ line' = [text |-> <<>>, clean |-> TRUE]
           /\ last' = IF line.clean /\ ~Busy
                      THEN [text |-> Append(line.text, NL), clean |-> TRUE] ELSE NoLine
<1> NL # BS /\ NL # NUL /\ NL \in Bytes BY DEF BS, NL, NUL, Bytes
<1>1. /\ keyboard_buffer_index' = 0 /\ enterpress' = TRUE
      /\ line' = [text |-> <<>>, clean |-> TRUE]
      /\ last' = IF line.clean /\ ~Busy
                 THEN [text |-> Append(line.text, NL), clean |-> TRUE] ELSE NoLine
  BY Zenon DEF EditLine, Record
<1> DEFINE n == keyboard_buffer_index
           stored == [keyboard_buffer EXCEPT ![n] = NL]
<1>2. n \in 0..(SIZE - 1) /\ keyboard_buffer \in [0..(SIZE - 1) -> Bytes] /\ SIZE \in Nat
      /\ SIZE >= 2
  BY LineAssumption DEF TypeOK
<1>3. AfterErase(NL) = n BY DEF AfterErase
<1>4. CASE HasRoom(n)
  <2>1. n < SIZE - 1 BY <1>4 DEF HasRoom
  <2>2. keyboard_buffer' = StoreNewline(stored, n + 1, NL) BY <1>3, <1>4 DEF EditLine
  <2>3. keyboard_buffer' = IF n + 1 = SIZE - 1 THEN [stored EXCEPT ![n + 1] = NL] ELSE stored
    BY <2>2 DEF StoreNewline
  <2>4. /\ stored \in [0..(SIZE - 1) -> Bytes] /\ stored[n] = NL
        /\ \A j \in 0..(SIZE - 1) : j # n => stored[j] = keyboard_buffer[j]
    BY <1>2
  <2> HIDE DEF stored
  <2>5. CASE n + 1 = SIZE - 1
    <3>1. keyboard_buffer' = [stored EXCEPT ![SIZE - 1] = NL] BY <2>3, <2>5, Zenon
    <3>2. /\ keyboard_buffer' \in [0..(SIZE - 1) -> Bytes] /\ keyboard_buffer'[SIZE - 1] = NL
          /\ \A j \in 0..(SIZE - 1) : j # SIZE - 1 => keyboard_buffer'[j] = stored[j]
      BY <1>2, <2>4, <3>1
    <3>3. n \in 0..(SIZE - 1) /\ n # SIZE - 1 /\ SIZE - 1 \in 0..(SIZE - 1)
      BY <1>2, <2>1
    <3>4. keyboard_buffer'[n] = NL BY <2>4, <3>2, <3>3, Zenon
    <3>5. \A j \in 0..(n - 1) : keyboard_buffer'[j] = keyboard_buffer[j]
      <4> SUFFICES ASSUME NEW j \in 0..(n - 1)
                   PROVE  keyboard_buffer'[j] = keyboard_buffer[j] OBVIOUS
      <4>1. j \in 0..(SIZE - 1) /\ j # n /\ j # SIZE - 1 BY <1>2, <2>1
      <4> QED BY <2>4, <3>2, <4>1, Zenon
    <3> QED BY <1>1, <3>2, <3>4, <3>5, Zenon
  <2>6. CASE n + 1 # SIZE - 1 BY <1>1, <1>2, <2>1, <2>3, <2>4, <2>6
  <2> QED BY <2>5, <2>6, Zenon
<1>5. CASE ~HasRoom(n)
  <2>1. n = SIZE - 1 BY <1>2, <1>5 DEF HasRoom
  <2>2. keyboard_buffer' = StoreNewline(keyboard_buffer, n, NL) BY <1>3, <1>5 DEF EditLine
  <2>3. keyboard_buffer' = stored BY <2>1, <2>2 DEF StoreNewline
  <2> QED BY <1>1, <1>2, <2>1, <2>3
<1> QED BY <1>4, <1>5, Zenon

\* Any other character is appended while there is room, and otherwise dropped.
LEMMA EditChar ==
    ASSUME TypeOK, NEW c \in Bytes, c \notin {NUL, BS, NL}, EditLine(c)
    PROVE  LET room == keyboard_buffer_index < SIZE - 1
               full == Len(line.text) >= SIZE - 1 IN
           /\ keyboard_buffer' = IF room THEN [keyboard_buffer EXCEPT ![keyboard_buffer_index] = c]
                                 ELSE keyboard_buffer
           /\ keyboard_buffer_index' = IF room THEN keyboard_buffer_index + 1
                                       ELSE keyboard_buffer_index
           /\ enterpress' = enterpress /\ last' = IF enterpress THEN NoLine ELSE last
           /\ line'.text = IF full THEN line.text ELSE Append(line.text, c)
           /\ line' \in [text : Seq(Bytes), clean : BOOLEAN]
           /\ line'.clean => line'.text = <<>> \/ (line.clean /\ ~Busy)
<1>1. AfterErase(c) = keyboard_buffer_index BY DEF AfterErase
<1> DEFINE text == IF Len(line.text) < SIZE - 1 THEN Append(line.text, c) ELSE line.text
<1>2. /\ keyboard_buffer' = IF keyboard_buffer_index < SIZE - 1
                            THEN [keyboard_buffer EXCEPT ![keyboard_buffer_index] = c]
                            ELSE keyboard_buffer
      /\ keyboard_buffer_index' = IF keyboard_buffer_index < SIZE - 1
                                  THEN keyboard_buffer_index + 1 ELSE keyboard_buffer_index
  BY <1>1 DEF EditLine, StoreNewline, HasRoom
<1>3. enterpress' = enterpress BY DEF EditLine, TypeOK
<1>4. Record(c) BY DEF EditLine
<1>5. /\ last' = IF enterpress THEN NoLine ELSE last
      /\ line' = [text |-> text, clean |-> text = <<>> \/ (line.clean /\ ~Busy)]
  BY <1>4 DEF Record
<1>6. line.text \in Seq(Bytes) /\ SIZE \in Nat BY LineAssumption DEF TypeOK
<1>7. text \in Seq(Bytes) /\ text = IF Len(line.text) >= SIZE - 1 THEN line.text
                                    ELSE Append(line.text, c)
  BY <1>6
<1> HIDE DEF text
<1>8. (text = <<>> \/ (line.clean /\ ~Busy)) \in BOOLEAN OBVIOUS
<1>9. line'.text = text /\ (line'.clean <=> (text = <<>> \/ (line.clean /\ ~Busy)))
  BY <1>5, Zenon
<1>10. line' \in [text : Seq(Bytes), clean : BOOLEAN] BY <1>5, <1>7, <1>8
<1> QED BY <1>2, <1>3, <1>5, <1>7, <1>9, <1>10

-------------------------------------------------------------------------------
\* A word of memset never starts inside the buffer and ends outside it.
LEMMA WordsFit ==
    ASSUME NEW q \in Nat, NEW x \in Nat, x = q * WORD, x < SIZE
    PROVE  x + WORD <= SIZE /\ x + WORD = (q + 1) * WORD
<1>1. SIZE \in Nat /\ WORD \in Nat /\ WORD >= 1 /\ SIZE % WORD = 0 BY LineAssumption
<1>2. PICK r \in Int : SIZE = r * WORD
  <2> DEFINE d == SIZE \div WORD
  <2>1. SIZE = WORD * d + (SIZE % WORD) /\ d \in Int BY <1>1
  <2> HIDE DEF d
  <2>2. SIZE = d * WORD BY <1>1, <2>1
  <2> QED BY <2>1, <2>2
<1>3. q < r
  <2>1. SUFFICES ASSUME r <= q PROVE FALSE BY <1>2
  <2>2. (q - r) * WORD >= 0 BY <1>1, <2>1
  <2>3. (q - r) * WORD = q * WORD - r * WORD BY <1>1
  <2> QED BY <1>1, <1>2, <2>2, <2>3
<1>4. (q + 1) * WORD <= r * WORD
  <2>1. r - (q + 1) >= 0 BY <1>3
  <2>2. (r - (q + 1)) * WORD >= 0 BY <1>1, <2>1
  <2>3. (r - (q + 1)) * WORD = r * WORD - (q + 1) * WORD BY <1>1
  <2> QED BY <1>1, <2>2, <2>3
<1> QED BY <1>1, <1>2, <1>4

\* Whatever the keys and the keymaps, handle_standard_key gives one of the bytes.
LEMMA KeyBytes ==
    ASSUME NEW key \in Keys
    PROVE  handle_standard_key(key) \in Bytes
BY DEF handle_standard_key, Bytes

LEMMA PressType ==
    ASSUME TypeInv, NEW c \in Bytes, EditLine(c), UNCHANGED <<key_status, reader>>
    PROVE  TypeInv'
<1> USE DEF TypeInv
<1>0. UNCHANGED <<key_status, pc, i, k, pad, buf>> BY DEF reader
<1>1. ClearAligned' BY <1>0 DEF ClearAligned
<1>2. SIZE \in Nat /\ SIZE >= 2 BY LineAssumption
<1>3. NoLine \in [text : Seq(Bytes), clean : BOOLEAN] BY DEF NoLine
<1>4. SUFFICES /\ keyboard_buffer' \in [0..(SIZE - 1) -> Bytes]
               /\ keyboard_buffer_index' \in 0..(SIZE - 1)
               /\ enterpress' \in BOOLEAN
               /\ line' \in [text : Seq(Bytes), clean : BOOLEAN]
               /\ last' \in [text : Seq(Bytes), clean : BOOLEAN]
  BY <1>0, <1>1 DEF TypeOK
<1>5. CASE c = NUL BY <1>5, EditNul DEF TypeOK
<1>6. CASE c = BS BY <1>2, <1>6, EditBackspace DEF TypeOK
<1>7. CASE c = NL
  <2> EditLine(NL) BY <1>7
  <2>1. line.text \in Seq(Bytes) /\ NL \in Bytes BY DEF TypeOK, Bytes
  <2>2. [text |-> Append(line.text, NL), clean |-> TRUE] \in [text : Seq(Bytes), clean : BOOLEAN]
    BY <2>1
  <2>3. last' \in [text : Seq(Bytes), clean : BOOLEAN] BY <1>3, <2>2, EditEnter, Zenon
  <2>4. line' = [text |-> <<>>, clean |-> TRUE] BY EditEnter
  <2>5. line' \in [text : Seq(Bytes), clean : BOOLEAN] BY <2>4
  <2>6. /\ keyboard_buffer' \in [0..(SIZE - 1) -> Bytes]
        /\ keyboard_buffer_index' = 0 /\ enterpress' = TRUE
    BY EditEnter
  <2> QED BY <1>2, <2>3, <2>5, <2>6
<1>8. CASE c \notin {NUL, BS, NL}
  <2>1. last' \in [text : Seq(Bytes), clean : BOOLEAN]
    <3>1. last \in [text : Seq(Bytes), clean : BOOLEAN] BY DEF TypeOK
    <3>2. last' = IF enterpress THEN NoLine ELSE last BY <1>8, EditChar, Zenon
    <3> QED BY <1>3, <3>1, <3>2, Zenon
  <2>2. line' \in [text : Seq(Bytes), clean : BOOLEAN] /\ enterpress' = enterpress
    BY <1>8, EditChar
  <2>3. /\ keyboard_buffer' = IF keyboard_buffer_index < SIZE - 1
                              THEN [keyboard_buffer EXCEPT ![keyboard_buffer_index] = c]
                              ELSE keyboard_buffer
        /\ keyboard_buffer_index' = IF keyboard_buffer_index < SIZE - 1
                                    THEN keyboard_buffer_index + 1 ELSE keyboard_buffer_index
    BY <1>8, EditChar
  <2>4. /\ keyboard_buffer' \in [0..(SIZE - 1) -> Bytes]
        /\ keyboard_buffer_index' \in 0..(SIZE - 1)
    BY <1>2, <2>3 DEF TypeOK
  <2> QED BY <2>1, <2>2, <2>4 DEF TypeOK
<1> QED BY <1>5, <1>6, <1>7, <1>8

\* The copy makes at most SIZE + 1 bytes and memset stays inside the buffer.
LEMMA ReadType ==
    ASSUME TypeInv, terminal_read
    PROVE  TypeInv'
<1> USE DEF TypeInv, keyboard, history, Keep
<1>0. SIZE \in Nat /\ SIZE >= 2 /\ WORD \in Nat /\ WORD >= 1 BY LineAssumption
<1>1. CASE ReadStart BY <1>1 DEF ReadStart, TypeOK, ClearAligned
<1>2. CASE Wait BY <1>2 DEF Wait, TypeOK, ClearAligned
<1>3. CASE Scan
  <2>1. ClearAligned' BY <1>3 DEF Scan, ClearAligned
  <2>2. i' \in 0..SIZE BY <1>0, <1>3 DEF Scan, TypeOK
  <2>3. pc' \in {"scan", "copy"} BY <1>3 DEF Scan
  <2> QED BY <1>3, <2>1, <2>2, <2>3 DEF Scan, TypeOK
<1>4. CASE Copy
  <2>1. CASE k <= i
    <3>1. PICK c \in IF pad THEN {NUL} ELSE IF k < SIZE THEN {keyboard_buffer[k]} ELSE Bytes :
             buf' = Append(buf, c) /\ pad' = (c = NUL)
      BY <1>4, <2>1 DEF Copy
    <3>2. NUL \in Bytes BY DEF Bytes
    <3>3. k < SIZE => keyboard_buffer[k] \in Bytes BY <1>0 DEF TypeOK
    <3>4. c \in Bytes BY <3>1, <3>2, <3>3
    <3>5. buf' \in Seq(Bytes) BY <3>1, <3>4 DEF TypeOK
    <3>6. pad' \in BOOLEAN BY <3>1
    <3>7. k' \in 0..(SIZE + 1) BY <1>0, <1>4, <2>1 DEF Copy, TypeOK
    <3>8. ClearAligned' BY <1>4, <2>1 DEF Copy, ClearAligned
    <3> QED BY <1>4, <2>1, <3>5, <3>6, <3>7, <3>8 DEF Copy, TypeOK
  <2>2. CASE ~(k <= i)
    <3>1. k' = 0 /\ 0 = 0 * WORD BY <1>0, <1>4, <2>2 DEF Copy
    <3>2. ClearAligned' BY <3>1 DEF ClearAligned
    <3> QED BY <1>0, <1>4, <2>2, <3>1, <3>2 DEF Copy, TypeOK
  <2> QED BY <2>1, <2>2
<1>5. CASE Clear
  <2>1. CASE k < SIZE
    <3>1. PICK q \in Nat : k = q * WORD BY <1>5 DEF Clear, ClearAligned
    <3>2. k + WORD <= SIZE /\ k + WORD = (q + 1) * WORD
      BY <2>1, <3>1, WordsFit DEF TypeOK
    <3>3. k' = k + WORD BY <1>5, <2>1 DEF Clear
    <3>4. ClearAligned' BY <3>2, <3>3 DEF ClearAligned
    <3>5. k' \in 0..(SIZE + 1) BY <1>0, <3>2, <3>3 DEF TypeOK
    <3>6. keyboard_buffer' \in [0..(SIZE - 1) -> Bytes]
      BY <1>0, <1>5, <2>1, Zenon DEF Clear, TypeOK, Bytes
    <3>7. line' \in [text : Seq(Bytes), clean : BOOLEAN]
      <4>1. line' = [line EXCEPT !.clean = (line.text = <<>>)] BY <1>5, <2>1 DEF Clear
      <4>2. (line.text = <<>>) \in BOOLEAN OBVIOUS
      <4> QED BY <4>1, <4>2, Zenon DEF TypeOK
    <3> QED BY <1>5, <2>1, <3>4, <3>5, <3>6, <3>7 DEF Clear, TypeOK
  <2>2. CASE ~(k < SIZE) BY <1>5, <2>2 DEF Clear, TypeOK, ClearAligned
  <2> QED BY <2>1, <2>2
<1>6. CASE Reset
  <2>1. NoLine \in [text : Seq(Bytes), clean : BOOLEAN] BY DEF NoLine
  <2> QED BY <1>6, <2>1, Zenon DEF Reset, TypeOK, ClearAligned
<1>7. CASE ReadReturn
  <2>1. ClearAligned' BY <1>7 DEF ReadReturn, ClearAligned
  <2>2. pc' = "idle" /\ i' = 0 /\ k' = 0 /\ pad' = FALSE /\ buf' = <<>>
    BY <1>7 DEF ReadReturn
  <2>3. buf' \in Seq(Bytes) BY <2>2
  <2>4. i' \in 0..SIZE /\ k' \in 0..(SIZE + 1) BY <1>0, <2>2
  <2> QED BY <1>7, <2>1, <2>2, <2>3, <2>4, Zenon DEF ReadReturn, TypeOK
<1> QED BY <1>1, <1>2, <1>3, <1>4, <1>5, <1>6, <1>7 DEF terminal_read

LEMMA TypeInit == Init => TypeInv
<1> SUFFICES ASSUME Init PROVE TypeInv OBVIOUS
<1>1. NoLine \in [text : Seq(Bytes), clean : BOOLEAN] BY DEF NoLine
<1>2. line \in [text : Seq(Bytes), clean : BOOLEAN] BY DEF Init
<1>3. keyboard_buffer \in [0..(SIZE - 1) -> Bytes] BY DEF Init, Bytes
<1>4. buf \in Seq(Bytes) /\ i \in 0..SIZE /\ k \in 0..(SIZE + 1) /\ keyboard_buffer_index \in 0..(SIZE - 1)
  BY LineAssumption DEF Init
<1> QED BY <1>1, <1>2, <1>3, <1>4, Zenon DEF Init, TypeInv, TypeOK, ClearAligned

LEMMA TypeNext == TypeInv /\ [Next]_vars => TypeInv'
<1> SUFFICES ASSUME TypeInv, [Next]_vars PROVE TypeInv' OBVIOUS
<1>1. ASSUME NEW key \in Keys, Press(key) PROVE TypeInv'
  <2>1. CASE "ctrl" \in key_status /\ key.L
    BY <1>1, <2>1 DEF Press, keyboard, history, reader, TypeInv, TypeOK, ClearAligned
  <2>2. CASE ~("ctrl" \in key_status /\ key.L)
    BY <1>1, <2>2, KeyBytes, PressType DEF Press
  <2> QED BY <2>1, <2>2
<1>2. ASSUME NEW m \in Holds \cup Locks, NEW down \in BOOLEAN, Modifier(m, down) PROVE TypeInv'
  <2>1. key_status' \subseteq Holds \cup Locks BY <1>2 DEF Modifier, TypeInv, TypeOK
  <2> QED BY <1>2, <2>1 DEF Modifier, history, reader, TypeInv, TypeOK, ClearAligned
<1>3. CASE UNCHANGED vars
  BY <1>3 DEF vars, keyboard, history, reader, TypeInv, TypeOK, ClearAligned
<1> QED BY <1>1, <1>2, <1>3, ReadType DEF Next

\* terminal_read and the keyboard handler keep every index inside the buffer, whatever
\* its size: the index of the line, the search and the copy, and memset, which stops at
\* the end of the buffer exactly.
THEOREM TypeCorrect == Spec => []TypeOK
<1>1. TypeInv => TypeOK BY DEF TypeInv
<1> QED BY <1>1, TypeInit, TypeNext, PTL DEF Spec

-------------------------------------------------------------------------------
\* BufferHoldsLine as its single facts.
LEMMA HoldsLine ==
    BufferHoldsLine <=>
        /\ keyboard_buffer_index = Len(line.text)
        /\ \A j \in 0..(keyboard_buffer_index - 1) :
              /\ keyboard_buffer[j] \in {line.text[j + 1], NUL}
              /\ line.clean => keyboard_buffer[j] # NUL
        /\ keyboard_buffer[SIZE - 1] \in {NUL, NL}
BY DEF BufferHoldsLine

LEMMA HoldsLineNext ==
    BufferHoldsLine' <=>
        /\ keyboard_buffer_index' = Len(line'.text)
        /\ \A j \in 0..(keyboard_buffer_index' - 1) :
              /\ keyboard_buffer'[j] \in {line'.text[j + 1], NUL}
              /\ line'.clean => keyboard_buffer'[j] # NUL
        /\ keyboard_buffer'[SIZE - 1] \in {NUL, NL}
BY DEF BufferHoldsLine

\* Editing keeps the buffer in step with the line.
LEMMA PressLine ==
    ASSUME TypeInv, LineInv, NEW c \in Bytes, EditLine(c), UNCHANGED reader
    PROVE  LineInv'
<1>0. UNCHANGED <<pc, i, k, pad, buf>> BY DEF reader
<1>1. SIZE \in Nat /\ SIZE >= 2 /\ NL # NUL BY LineAssumption DEF NL, NUL
<1>2. TypeOK /\ line.text \in Seq(Bytes) /\ line.clean \in BOOLEAN BY DEF TypeInv, TypeOK
<1>3. /\ keyboard_buffer_index = Len(line.text)
      /\ \A j \in 0..(keyboard_buffer_index - 1) :
            /\ keyboard_buffer[j] \in {line.text[j + 1], NUL}
            /\ line.clean => keyboard_buffer[j] # NUL
      /\ keyboard_buffer[SIZE - 1] \in {NUL, NL}
  BY HoldsLine DEF LineInv
<1>4. \A j \in 1..Len(line.text) : line.text[j] \notin {NL, NUL} BY DEF LineInv
<1>5. /\ keyboard_buffer \in [0..(SIZE - 1) -> Bytes]
      /\ keyboard_buffer_index \in 0..(SIZE - 1)
  BY <1>2 DEF TypeOK
<1>6. SUFFICES /\ \A j \in 1..Len(line'.text) : line'.text[j] \notin {NL, NUL}
               /\ keyboard_buffer_index' = Len(line'.text)
               /\ \A j \in 0..(keyboard_buffer_index' - 1) :
                     /\ keyboard_buffer'[j] \in {line'.text[j + 1], NUL}
                     /\ line'.clean => keyboard_buffer'[j] # NUL
               /\ keyboard_buffer'[SIZE - 1] \in {NUL, NL}
  BY <1>0, HoldsLineNext DEF LineInv
<1>7. CASE c = NUL
  <2>1. UNCHANGED <<keyboard_buffer, keyboard_buffer_index, line>> BY <1>2, <1>7, EditNul
  <2> QED BY <1>3, <1>4, <2>1
<1>8. CASE c = BS
  <2>1. /\ keyboard_buffer' = keyboard_buffer
        /\ keyboard_buffer_index' = IF keyboard_buffer_index = 0 THEN 0
                                    ELSE keyboard_buffer_index - 1
        /\ line'.text = SubSeq(line.text, 1, Len(line.text) - 1)
        /\ line'.clean => line'.text = <<>> \/ line.clean
    BY <1>2, <1>8, EditBackspace
  <2>2. /\ Len(line'.text) = keyboard_buffer_index'
        /\ \A j \in 1..Len(line'.text) : line'.text[j] = line.text[j]
    <3>1. CASE Len(line.text) = 0 BY <1>2, <1>3, <2>1, <3>1
    <3>2. CASE Len(line.text) # 0 BY <1>2, <1>3, <2>1, <3>2
    <3> QED BY <3>1, <3>2
  <2>3. \A j \in 1..Len(line'.text) : line'.text[j] \notin {NL, NUL}
    BY <1>2, <1>3, <1>4, <1>5, <2>1, <2>2
  <2>4. ASSUME NEW j \in 0..(keyboard_buffer_index' - 1)
        PROVE  /\ keyboard_buffer'[j] \in {line'.text[j + 1], NUL}
               /\ line'.clean => keyboard_buffer'[j] # NUL
    <3>1. j \in 0..(keyboard_buffer_index - 1) /\ j + 1 \in 1..Len(line'.text)
      BY <1>5, <2>1, <2>2
    <3>2. line'.text[j + 1] = line.text[j + 1] BY <2>2, <3>1
    <3>3. line'.text # <<>> BY <3>1
    <3> QED BY <1>3, <2>1, <3>1, <3>2, <3>3
  <2> QED BY <1>3, <2>1, <2>2, <2>3, <2>4
<1>9. CASE c = NL
  <2>1. /\ keyboard_buffer'[SIZE - 1] \in {keyboard_buffer[SIZE - 1], NL}
        /\ keyboard_buffer_index' = 0 /\ line' = [text |-> <<>>, clean |-> TRUE]
    BY <1>2, <1>9, EditEnter
  <2>2. line'.text = <<>> BY <2>1
  <2> QED BY <1>3, <2>1, <2>2
<1>10. CASE c \notin {NUL, BS, NL}
  <2>1. /\ keyboard_buffer' = IF keyboard_buffer_index < SIZE - 1
                              THEN [keyboard_buffer EXCEPT ![keyboard_buffer_index] = c]
                              ELSE keyboard_buffer
        /\ keyboard_buffer_index' = IF keyboard_buffer_index < SIZE - 1
                                    THEN keyboard_buffer_index + 1 ELSE keyboard_buffer_index
        /\ line'.text = IF Len(line.text) >= SIZE - 1 THEN line.text ELSE Append(line.text, c)
        /\ line'.clean => line'.text = <<>> \/ line.clean
    BY <1>2, <1>10, EditChar
  <2>2. CASE keyboard_buffer_index < SIZE - 1
    <3>1. line'.text = Append(line.text, c) BY <1>1, <1>3, <1>5, <2>1, <2>2
    <3>2. /\ Len(line'.text) = Len(line.text) + 1 /\ line'.text # <<>>
          /\ line'.text[Len(line.text) + 1] = c
          /\ \A j \in 1..Len(line.text) : line'.text[j] = line.text[j]
      BY <1>2, <3>1
    <3>3. /\ keyboard_buffer' = [keyboard_buffer EXCEPT ![keyboard_buffer_index] = c]
          /\ keyboard_buffer_index' = keyboard_buffer_index + 1
      BY <2>1, <2>2
    <3>4. /\ keyboard_buffer'[keyboard_buffer_index] = c
          /\ \A j \in 0..(SIZE - 1) : j # keyboard_buffer_index =>
                keyboard_buffer'[j] = keyboard_buffer[j]
      BY <1>5, <3>3
    <3>5. \A j \in 1..Len(line'.text) : line'.text[j] \notin {NL, NUL}
      BY <1>2, <1>4, <1>10, <3>2
    <3>6. keyboard_buffer'[SIZE - 1] \in {NUL, NL} BY <1>1, <1>3, <1>5, <2>2, <3>4
    <3>7. ASSUME NEW j \in 0..(keyboard_buffer_index' - 1)
          PROVE  /\ keyboard_buffer'[j] \in {line'.text[j + 1], NUL}
                 /\ line'.clean => keyboard_buffer'[j] # NUL
      <4>1. CASE j = keyboard_buffer_index BY <1>3, <1>10, <3>2, <3>4, <4>1
      <4>2. CASE j # keyboard_buffer_index
        <5>1. j \in 0..(keyboard_buffer_index - 1) /\ j + 1 \in 1..Len(line.text)
              /\ j \in 0..(SIZE - 1)
          BY <1>1, <1>3, <1>5, <3>3, <4>2
        <5>2. keyboard_buffer'[j] = keyboard_buffer[j] /\ line'.text[j + 1] = line.text[j + 1]
          BY <3>2, <3>4, <4>2, <5>1
        <5> QED BY <1>3, <2>1, <3>2, <5>1, <5>2
      <4> QED BY <4>1, <4>2
    <3> QED BY <1>3, <3>2, <3>3, <3>5, <3>6, <3>7
  <2>3. CASE ~(keyboard_buffer_index < SIZE - 1)
    <3>1. /\ UNCHANGED <<keyboard_buffer, keyboard_buffer_index>> /\ line'.text = line.text
          /\ line.text # <<>>
      BY <1>1, <1>2, <1>3, <1>5, <2>1, <2>3
    <3> QED BY <1>3, <1>4, <2>1, <3>1, Zenon
  <2> QED BY <2>2, <2>3
<1> QED BY <1>7, <1>8, <1>9, <1>10

\* A read that wipes the buffer marks the line being typed as no longer clean.
LEMMA ReadLine ==
    ASSUME TypeInv, LineInv, terminal_read
    PROVE  LineInv'
<1> USE DEF keyboard, history, Keep
<1>0. SIZE \in Nat /\ SIZE >= 2 BY LineAssumption
<1>1. CASE ReadStart BY <1>1 DEF ReadStart, LineInv, BufferHoldsLine
<1>2. CASE Wait BY <1>2 DEF Wait, LineInv, BufferHoldsLine
<1>3. CASE Scan BY <1>3 DEF Scan, LineInv, BufferHoldsLine
<1>4. CASE Copy BY <1>4 DEF Copy, LineInv, BufferHoldsLine
<1>5. CASE Clear
  <2>1. CASE k < SIZE
    <3>1. /\ keyboard_buffer \in [0..(SIZE - 1) -> Bytes]
          /\ keyboard_buffer_index \in 0..(SIZE - 1)
          /\ line \in [text : Seq(Bytes), clean : BOOLEAN]
      BY DEF TypeInv, TypeOK
    <3>2. /\ keyboard_buffer_index = Len(line.text)
          /\ \A j \in 0..(keyboard_buffer_index - 1) :
                /\ keyboard_buffer[j] \in {line.text[j + 1], NUL}
                /\ line.clean => keyboard_buffer[j] # NUL
          /\ keyboard_buffer[SIZE - 1] \in {NUL, NL}
      BY HoldsLine DEF LineInv
    <3>3. \A j \in 0..(SIZE - 1) : keyboard_buffer'[j] \in {keyboard_buffer[j], NUL}
      BY <1>5, <2>1, <3>1 DEF Clear
    <3>4. line' = [line EXCEPT !.clean = (line.text = <<>>)] BY <1>5, <2>1 DEF Clear
    <3>5. line'.text = line.text /\ (line'.clean <=> line.text = <<>>) BY <3>1, <3>4, Zenon
    <3>6. UNCHANGED <<pc, keyboard_buffer_index, i, pad, buf>> /\ pc = "clear"
      BY <1>5, <2>1 DEF Clear
    <3>7. ASSUME NEW j \in 0..(keyboard_buffer_index' - 1)
          PROVE  /\ keyboard_buffer'[j] \in {line'.text[j + 1], NUL}
                 /\ line'.clean => keyboard_buffer'[j] # NUL
      <4>1. j \in 0..(keyboard_buffer_index - 1) /\ j \in 0..(SIZE - 1)
        BY <1>0, <3>1, <3>6
      <4>2. line.text # <<>> BY <3>2, <4>1
      <4> QED BY <3>2, <3>3, <3>5, <4>1, <4>2
    <3>8. keyboard_buffer'[SIZE - 1] \in {NUL, NL} BY <1>0, <3>2, <3>3
    <3>9. BufferHoldsLine' BY <3>2, <3>5, <3>6, <3>7, <3>8, HoldsLineNext
    <3> QED BY <3>5, <3>6, <3>9 DEF LineInv
  <2>2. CASE ~(k < SIZE) BY <1>5, <2>2 DEF Clear, LineInv, BufferHoldsLine
  <2> QED BY <2>1, <2>2
<1>6. CASE Reset BY <1>6 DEF Reset, LineInv, BufferHoldsLine
<1>7. CASE ReadReturn BY <1>7 DEF ReadReturn, LineInv, BufferHoldsLine
<1> QED BY <1>1, <1>2, <1>3, <1>4, <1>5, <1>6, <1>7 DEF terminal_read

LEMMA LineInit == Init => LineInv
<1> SUFFICES ASSUME Init PROVE LineInv OBVIOUS
<1>1. line.text = <<>> /\ keyboard_buffer[SIZE - 1] = NUL BY LineAssumption DEF Init
<1> QED BY <1>1 DEF Init, LineInv, BufferHoldsLine

LEMMA LineNext == TypeInv /\ LineInv /\ [Next]_vars => LineInv'
<1> SUFFICES ASSUME TypeInv, LineInv, [Next]_vars PROVE LineInv' OBVIOUS
<1>1. ASSUME NEW key \in Keys, Press(key) PROVE LineInv'
  <2>1. CASE "ctrl" \in key_status /\ key.L
    BY <1>1, <2>1 DEF Press, keyboard, history, reader, LineInv, BufferHoldsLine
  <2>2. CASE ~("ctrl" \in key_status /\ key.L)
    BY <1>1, <2>2, KeyBytes, PressLine DEF Press
  <2> QED BY <2>1, <2>2
<1>2. ASSUME NEW m \in Holds \cup Locks, NEW down \in BOOLEAN, Modifier(m, down) PROVE LineInv'
  BY <1>2 DEF Modifier, history, reader, LineInv, BufferHoldsLine
<1>3. CASE UNCHANGED vars
  BY <1>3 DEF vars, keyboard, history, reader, LineInv, BufferHoldsLine
<1> QED BY <1>1, <1>2, <1>3, ReadLine DEF Next

\* The buffer below the index holds the line being typed, for every size of it and every
\* interleaving of keys with the steps of a read, and its last place nothing but a
\* newline.
THEOREM BufferInStep == Spec => []BufferHoldsLine
<1>1. LineInv => BufferHoldsLine BY DEF LineInv
<1> QED BY <1>1, TypeInit, TypeNext, LineInit, LineNext, PTL DEF Spec

-------------------------------------------------------------------------------
\* Keys typed while a line waits either leave it and the buffer alone or give it up; only
\* Enter makes a line wait.
LEMMA PressWaiting ==
    ASSUME TypeInv, LineInv, WaitingLine, NEW c \in Bytes, EditLine(c), UNCHANGED reader
    PROVE  WaitingLine'
<1>0. UNCHANGED <<pc, i, k, pad, buf>> BY DEF reader
<1>1. TypeOK /\ SIZE \in Nat /\ SIZE >= 2 /\ line.text \in Seq(Bytes)
  BY LineAssumption DEF TypeInv, TypeOK
<1>2. SUFFICES ASSUME last'.clean PROVE WaitingLine' BY Zenon DEF WaitingLine
<1>3. ~NoLine.clean BY DEF NoLine
<1>4. CASE c = NUL
  BY <1>0, <1>1, <1>4, EditNul DEF WaitingLine
<1>5. CASE c = BS
  <2>1. /\ keyboard_buffer' = keyboard_buffer /\ enterpress' = enterpress /\ last' = last
        /\ line'.text = SubSeq(line.text, 1, Len(line.text) - 1)
    BY <1>1, <1>5, EditBackspace
  <2>2. line.text = <<>> BY <1>2, <2>1 DEF WaitingLine
  <2>3. line'.text = <<>> BY <1>1, <2>1, <2>2
  <2> QED BY <1>0, <2>1, <2>3 DEF WaitingLine
<1>6. CASE c = NL
  <2> DEFINE t == line.text
             m == keyboard_buffer_index
  <2>1. /\ keyboard_buffer'[m] = NL
        /\ \A j \in 0..(m - 1) : keyboard_buffer'[j] = keyboard_buffer[j]
        /\ enterpress' = TRUE
        /\ line' = [text |-> <<>>, clean |-> TRUE]
        /\ last' = IF line.clean /\ ~Busy
                   THEN [text |-> Append(line.text, NL), clean |-> TRUE] ELSE NoLine
    BY <1>1, <1>6, EditEnter
  <2>2. line.clean /\ ~Busy /\ last' = [text |-> Append(t, NL), clean |-> TRUE]
    BY <1>2, <1>3, <2>1
  <2>3. last'.text = Append(t, NL) /\ line'.text = <<>> BY <2>1, <2>2
  <2>4. /\ m = Len(t) /\ m \in 0..(SIZE - 1)
        /\ \A j \in 0..(m - 1) : keyboard_buffer[j] = t[j + 1]
        /\ \A j \in 1..m : t[j] \notin {NL, NUL}
    <3>1. m \in 0..(SIZE - 1) BY <1>1, Zenon DEF TypeOK
    <3>2. BufferHoldsLine /\ \A j \in 1..Len(t) : t[j] \notin {NL, NUL}
      BY <1>1, Zenon DEF LineInv
    <3>3. m = Len(t) /\ \A j \in 0..(m - 1) : keyboard_buffer[j] = t[j + 1]
      BY <2>2, <3>2, HoldsLine
    <3> QED BY <3>1, <3>2, <3>3, Zenon
  <2>5. /\ Len(last'.text) = m + 1 /\ last'.text[m + 1] = NL
        /\ \A j \in 1..m : last'.text[j] = t[j]
    BY <1>1, <2>3, <2>4
  <2> HIDE DEF t, m
  <2>6. Len(last'.text) \in 1..SIZE BY <1>1, <2>4, <2>5
  <2>7. \A j \in 1..(Len(last'.text) - 1) : last'.text[j] \notin {NL, NUL}
    BY <2>4, <2>5
  <2>8. ASSUME NEW j \in 0..(Len(last'.text) - 1)
        PROVE  keyboard_buffer'[j] = last'.text[j + 1]
    <3>1. CASE j = m BY <2>1, <2>5, <3>1
    <3>2. CASE j # m
      <4>1. j \in 0..(m - 1) /\ j + 1 \in 1..m BY <2>4, <2>5, <3>2
      <4> QED BY <2>1, <2>4, <2>5, <4>1
    <3> QED BY <3>1, <3>2
  <2>9. pc' \notin {"scan", "copy", "clear", "reset"} BY <1>0, <2>2 DEF Busy
  <2>10. last'.text[Len(last'.text)] = NL BY <2>5
  <2> QED BY <2>1, <2>3, <2>6, <2>7, <2>8, <2>9, <2>10 DEF WaitingLine
<1>7. CASE c \notin {NUL, BS, NL}
  <2>1. last' = IF enterpress THEN NoLine ELSE last BY <1>1, <1>7, EditChar
  <2> QED BY <1>2, <1>3, <2>1 DEF WaitingLine
<1> QED BY <1>4, <1>5, <1>6, <1>7

\* The search stops at the newline of the waiting line and the copy takes exactly it.
LEMMA ReadWaiting ==
    ASSUME TypeInv, LineInv, WaitingLine, terminal_read
    PROVE  WaitingLine'
<1> USE DEF keyboard, history, Keep
<1>0. SIZE \in Nat /\ SIZE >= 2 /\ NL # NUL BY LineAssumption DEF NL, NUL
<1>1. SUFFICES ASSUME last'.clean PROVE WaitingLine' BY Zenon DEF WaitingLine
<1>2. last' = last /\ last.clean /\ ~Reset
  BY <1>1 DEF terminal_read, ReadStart, Wait, Scan, Copy, Clear, Reset, ReadReturn, NoLine
<1> DEFINE t == last.text
           n == Len(t)
<1>3. /\ enterpress /\ line.text = <<>>
      /\ n \in 1..SIZE /\ t[n] = NL /\ \A j \in 1..(n - 1) : t[j] \notin {NL, NUL}
      /\ pc \notin {"clear", "reset"} => \A j \in 0..(n - 1) : keyboard_buffer[j] = t[j + 1]
      /\ pc = "scan" => i < n
      /\ pc = "copy" => /\ i + 1 = n /\ pad = FALSE /\ k <= n /\ Len(buf) = k
                        /\ \A j \in 1..k : buf[j] = t[j]
      /\ pc \in {"clear", "reset"} => i + 1 = n /\ buf = t
  BY <1>2 DEF WaitingLine
<1>4. i \in 0..SIZE /\ k \in 0..(SIZE + 1) /\ t \in Seq(Bytes) /\ buf \in Seq(Bytes)
  BY DEF TypeInv, TypeOK
<1>5. CASE ReadStart BY <1>2, <1>5 DEF ReadStart, WaitingLine
<1>6. CASE Wait
  <2>1. i = 0 BY <1>6 DEF Wait, LineInv
  <2>2. i' < n BY <1>3, <1>6, <2>1 DEF Wait
  <2> QED BY <1>2, <1>6, <2>2 DEF Wait, WaitingLine
<1>7. CASE Scan
  <2>1. i \in 0..(n - 1) /\ keyboard_buffer[i] = t[i + 1] /\ i < SIZE
    BY <1>0, <1>3, <1>4, <1>7 DEF Scan
  <2>2. k = 0 /\ pad = FALSE /\ buf = <<>> BY <1>7 DEF Scan, LineInv
  <2>3. CASE i = n - 1
    <3>1. keyboard_buffer[i] = NL BY <1>3, <2>1, <2>3
    <3>2. pc' = "copy" /\ i' + 1 = n BY <1>3, <1>7, <2>3, <3>1 DEF Scan
    <3>3. Len(buf') = k' /\ k' = 0 /\ pad' = FALSE BY <1>7, <2>2 DEF Scan
    <3> QED BY <1>2, <1>3, <1>7, <3>2, <3>3 DEF Scan, WaitingLine
  <2>4. CASE i # n - 1
    <3>1. keyboard_buffer[i] # NL BY <1>3, <2>1, <2>4
    <3>2. pc' = "scan" /\ i' < n BY <1>3, <1>7, <2>1, <2>4, <3>1 DEF Scan
    <3> QED BY <1>2, <1>7, <3>2 DEF Scan, WaitingLine
  <2> QED BY <2>3, <2>4
<1>8. CASE Copy
  <2>1. /\ i + 1 = n /\ pad = FALSE /\ k <= n /\ Len(buf) = k /\ \A j \in 1..k : buf[j] = t[j]
    BY <1>3, <1>8 DEF Copy
  <2>2. CASE k <= i
    <3>1. k \in 0..(n - 1) /\ k < SIZE /\ keyboard_buffer[k] = t[k + 1] /\ t[k + 1] # NUL
      <4>1. k \in 0..(n - 1) /\ k < SIZE BY <1>0, <1>3, <1>4, <2>1, <2>2
      <4>2. keyboard_buffer[k] = t[k + 1] BY <1>3, <1>8, <4>1 DEF Copy
      <4>3. CASE k + 1 = n BY <1>0, <1>3, <4>1, <4>2, <4>3
      <4>4. CASE k + 1 # n
        <5>1. k + 1 \in 1..(n - 1) BY <1>3, <4>1, <4>4
        <5> QED BY <1>3, <4>1, <4>2, <5>1
      <4> QED BY <4>3, <4>4
    <3>2. PICK c \in IF pad THEN {NUL} ELSE IF k < SIZE THEN {keyboard_buffer[k]} ELSE Bytes :
             buf' = Append(buf, c) /\ pad' = (c = NUL)
      BY <1>8, <2>2 DEF Copy
    <3>3. c = t[k + 1] BY <2>1, <3>1, <3>2
    <3>4. pad' = FALSE BY <3>1, <3>2, <3>3, Zenon
    <3>5. Len(buf') = k + 1 /\ \A j \in 1..(k + 1) : buf'[j] = t[j]
      <4>1. c \in Bytes BY <1>4, <3>1, <3>3
      <4>2. /\ Len(buf') = Len(buf) + 1 /\ buf'[Len(buf) + 1] = c
            /\ \A j \in 1..Len(buf) : buf'[j] = buf[j]
        BY <1>4, <3>2, <4>1
      <4> QED BY <1>4, <2>1, <3>3, <4>2
    <3>6. k' = k + 1 /\ k' <= n /\ pc' = "copy" /\ i' = i
      BY <1>3, <1>4, <1>8, <2>1, <2>2, <3>1 DEF Copy
    <3> QED BY <1>2, <1>8, <2>1, <3>4, <3>5, <3>6 DEF Copy, WaitingLine
  <2>3. CASE ~(k <= i)
    <3>1. k = n BY <1>3, <1>4, <2>1, <2>3
    <3>2. buf = t BY <1>4, <2>1, <3>1
    <3>3. pc' = "clear" /\ UNCHANGED <<buf, i>> BY <1>8, <2>3 DEF Copy
    <3> QED BY <1>2, <1>8, <2>1, <3>2, <3>3 DEF Copy, WaitingLine
  <2> QED BY <2>2, <2>3
<1>9. CASE Clear
  <2>1. line'.text = line.text BY <1>9 DEF Clear, TypeInv, TypeOK
  <2>2. pc = "clear" /\ pc' \in {"clear", "reset"} /\ UNCHANGED <<i, buf, enterpress>>
    BY <1>9 DEF Clear
  <2> QED BY <1>2, <2>1, <2>2 DEF WaitingLine
<1>10. CASE ReadReturn BY <1>2, <1>10 DEF ReadReturn, WaitingLine
<1> QED BY <1>2, <1>5, <1>6, <1>7, <1>8, <1>9, <1>10 DEF terminal_read

LEMMA WaitingInit == Init => WaitingLine
BY DEF Init, NoLine, WaitingLine

LEMMA WaitingNext == TypeInv /\ LineInv /\ WaitingLine /\ [Next]_vars => WaitingLine'
<1> SUFFICES ASSUME TypeInv, LineInv, WaitingLine, [Next]_vars PROVE WaitingLine' OBVIOUS
<1>1. ASSUME NEW key \in Keys, Press(key) PROVE WaitingLine'
  <2>1. CASE "ctrl" \in key_status /\ key.L
    BY <1>1, <2>1 DEF Press, keyboard, history, reader, WaitingLine
  <2>2. CASE ~("ctrl" \in key_status /\ key.L)
    BY <1>1, <2>2, KeyBytes, PressWaiting DEF Press
  <2> QED BY <2>1, <2>2
<1>2. ASSUME NEW m \in Holds \cup Locks, NEW down \in BOOLEAN, Modifier(m, down)
      PROVE  WaitingLine'
  BY <1>2 DEF Modifier, history, reader, WaitingLine
<1>3. CASE UNCHANGED vars BY <1>3 DEF vars, keyboard, history, reader, WaitingLine
<1> QED BY <1>1, <1>2, <1>3, ReadWaiting DEF Next

\* terminal_read delivers a line exactly, newline included, when it was typed while no
\* read was at work and not typed over: for every size of the buffer, whatever was erased
\* in it, and whatever an earlier line left behind.
THEOREM LineDelivered == Spec => []CleanLineDelivered
<1>1. WaitingLine => CleanLineDelivered BY DEF WaitingLine, CleanLineDelivered
<1> QED
  BY <1>1, TypeInit, TypeNext, LineInit, LineNext, WaitingInit, WaitingNext, PTL DEF Spec

===============================================================================
