-------------------------- MODULE CommandLineProofs --------------------------
(***************************************************************************)
(* For every length of lines, names and buffers and any text left in the   *)
(* shell's buffer: what sys_execute takes for the name and the arguments   *)
(* is what was typed.                                                      *)
(***************************************************************************)
EXTENDS CommandLine, WellFoundedInduction, TLAPS

\* The buffer keeps a NUL at its end, and from the read until the parse it begins with the
\* line and its terminator, whatever lies behind.
BufferInv ==
    /\ DOMAIN buf = 0..(BUFSIZE - 1) /\ buf[BUFSIZE - 1] = NUL
    /\ pc \in {"read", "execute"} =>
        /\ line \in Lines
        /\ \A j \in 0..(Len(line) - 1) : buf[j] = line[j + 1]
        /\ buf[Len(line)] = NUL

-------------------------------------------------------------------------------
\* A set of numbers has a least one, and Min is it.
LEMMA MinExists ==
    ASSUME NEW S \in SUBSET Nat, S # {}
    PROVE  Min(S) \in S /\ \A y \in S : Min(S) <= y
<1>1. PICK x \in S : \A y \in S : ~(<<y, x>> \in OpToRel(<, Nat))
  BY NatLessThanWellFounded, WFMin, Zenon
<1>2. \A y \in S : x <= y
  <2> SUFFICES ASSUME NEW y \in S PROVE x <= y OBVIOUS
  <2>1. ~(y < x) BY <1>1, Zenon DEF OpToRel
  <2> QED BY <2>1
<1> QED BY <1>1, <1>2, Zenon DEF Min

LEMMA MinIs ==
    ASSUME NEW S \in SUBSET Nat, NEW m \in S, \A y \in S : m <= y
    PROVE  Min(S) = m
<1>1. Min(S) \in S /\ \A y \in S : Min(S) <= y BY MinExists
<1>2. Min(S) \in Nat /\ m \in Nat /\ Min(S) <= m /\ m <= Min(S) BY <1>1, Zenon
<1> QED BY <1>2

-------------------------------------------------------------------------------
\* A typed line, and the buffer that begins with it.
LEMMA LineIs ==
    ASSUME NEW l \in Lines
    PROVE  /\ Len(l) \in 0..MaxLine /\ l \in Seq(Letters \cup {SP})
           /\ \A j \in 1..Len(l) : l[j] \notin {NL, NUL}
<1>1. PICK m \in 0..MaxLine : l \in [1..m -> Letters \cup {SP}] BY DEF Lines
<1>2. m \in Nat BY <1>1, CommandAssumption
<1>3. l \in Seq(Letters \cup {SP}) /\ Len(l) = m BY <1>1, <1>2
<1>4. \A c \in Letters \cup {SP} : c \notin {NL, NUL}
  BY CommandAssumption, Zenon DEF NL, NUL, SP
<1> QED BY <1>1, <1>3, <1>4

\* The first word: it has no space in it, and a space or the end of the line follows.
LEMMA WordIs ==
    ASSUME NEW l \in Lines
    PROVE  LET w == FirstWord(l) IN
           /\ w \in Seq(Letters \cup {SP}) /\ Len(w) \in 0..Len(l)
           /\ \A j \in 1..Len(w) : w[j] = l[j] /\ l[j] # SP
           /\ Len(w) < Len(l) => l[Len(w) + 1] = SP
<1>1. Len(l) \in Nat /\ l \in Seq(Letters \cup {SP}) BY LineIs
<1>2. CASE Spaces(l) = {}
  <2>1. FirstWord(l) = l BY <1>2 DEF FirstWord
  <2> QED BY <1>1, <1>2, <2>1 DEF Spaces
<1>3. CASE Spaces(l) # {}
  <2> DEFINE m == Min(Spaces(l))
  <2>1. Spaces(l) \in SUBSET Nat BY <1>1 DEF Spaces
  <2>2. m \in Spaces(l) /\ \A y \in Spaces(l) : m <= y BY <1>3, <2>1, MinExists
  <2>3. m \in 1..Len(l) /\ l[m] = SP BY <2>2 DEF Spaces
  <2>4. FirstWord(l) = SubSeq(l, 1, m - 1) BY <1>3, Zenon DEF FirstWord
  <2> HIDE DEF m
  <2>5. /\ Len(FirstWord(l)) = m - 1 /\ FirstWord(l) \in Seq(Letters \cup {SP})
        /\ \A j \in 1..(m - 1) : FirstWord(l)[j] = l[j]
    BY <1>1, <2>3, <2>4
  <2>6. \A j \in 1..(m - 1) : l[j] # SP BY <1>1, <2>2, <2>3 DEF Spaces
  <2>7. m - 1 \in 0..Len(l) /\ (m - 1) + 1 = m BY <1>1, <2>3
  <2> QED BY <2>3, <2>5, <2>6, <2>7
<1> QED BY <1>2, <1>3

LEMMA SameSequence ==
    ASSUME NEW T, NEW U, NEW a \in Seq(T), NEW b \in Seq(U), Len(a) = Len(b),
           \A j \in 1..Len(a) : a[j] = b[j]
    PROVE  a = b
OBVIOUS

\* Slice gives a sequence of its bytes.
LEMMA SliceIs ==
    ASSUME NEW b, NEW from \in Nat, NEW to \in Nat, from <= to
    PROVE  /\ Slice(b, from, to) \in Seq({b[j] : j \in from..(to - 1)})
           /\ Len(Slice(b, from, to)) = to - from
           /\ \A j \in 1..(to - from) : Slice(b, from, to)[j] = b[from + j - 1]
<1> DEFINE T == {b[j] : j \in from..(to - 1)}
<1>1. to - from \in Nat OBVIOUS
<1>2. \A j \in 1..(to - from) : b[from + j - 1] \in T
  <2> SUFFICES ASSUME NEW j \in 1..(to - from) PROVE b[from + j - 1] \in T OBVIOUS
  <2>1. from + j - 1 \in from..(to - 1) OBVIOUS
  <2> QED BY <2>1
<1> HIDE DEF T
<1>3. Slice(b, from, to) \in [1..(to - from) -> T] BY <1>2 DEF Slice
<1>4. Slice(b, from, to) \in Seq(T) /\ Len(Slice(b, from, to)) = to - from BY <1>1, <1>3
<1> QED BY <1>4 DEF Slice, T

LEMMA FrontIs ==
    ASSUME NEW b, NEW to \in Nat
    PROVE  /\ Slice(b, 0, to) \in Seq({b[j] : j \in 0..(to - 1)})
           /\ Len(Slice(b, 0, to)) = to
           /\ \A j \in 1..to : Slice(b, 0, to)[j] = b[j - 1]
<1>1. 0 \in Nat /\ 0 <= to OBVIOUS
<1>2. /\ Slice(b, 0, to) \in Seq({b[j] : j \in 0..(to - 1)})
      /\ Len(Slice(b, 0, to)) = to - 0
      /\ \A j \in 1..(to - 0) : Slice(b, 0, to)[j] = b[0 + j - 1]
  BY <1>1, SliceIs, ZenonT(40)
<1>3. \A j \in 1..to : 0 + j - 1 = j - 1 OBVIOUS
<1>4. to - 0 = to OBVIOUS
<1> QED BY <1>2, <1>3, <1>4

\* A string without a NUL is all of its bytes; one with a first NUL ends before it.
LEMMA StringIs ==
    ASSUME NEW T, NEW s \in Seq(T)
    PROVE  /\ (\A j \in 1..Len(s) : s[j] # NUL) => CString(s) = s
           /\ \A m \in 1..Len(s) :
                 s[m] = NUL /\ (\A j \in 1..(m - 1) : s[j] # NUL) => CString(s) = SubSeq(s, 1, m - 1)
<1> DEFINE nuls == {j \in 1..Len(s) : s[j] = NUL}
<1>1. CString(s) = IF nuls = {} THEN s ELSE SubSeq(s, 1, Min(nuls) - 1) BY DEF CString
<1>2. ASSUME NEW m \in 1..Len(s), s[m] = NUL, \A j \in 1..(m - 1) : s[j] # NUL
      PROVE  CString(s) = SubSeq(s, 1, m - 1)
  <2>1. nuls \in SUBSET Nat /\ m \in nuls BY <1>2
  <2>2. \A y \in nuls : m <= y BY <1>2
  <2>3. Min(nuls) = m BY <2>1, <2>2, MinIs
  <2> QED BY <1>1, <2>1, <2>3, Zenon
<1>3. (\A j \in 1..Len(s) : s[j] # NUL) => nuls = {} OBVIOUS
<1> HIDE DEF nuls
<1> QED BY <1>1, <1>2, <1>3, Zenon

LEMMA FirstIs ==
    ASSUME NEW stops \in SUBSET Nat, NEW from \in Nat, NEW m \in stops, m >= from,
           \A j \in stops : j >= from => m <= j
    PROVE  First(from, stops) = m
<1> DEFINE S == {j \in stops : j >= from}
<1>1. S \in SUBSET Nat /\ m \in S /\ \A y \in S : m <= y BY Zenon
<1> HIDE DEF S
<1>2. Min(S) = m BY <1>1, MinIs
<1> QED BY <1>2 DEF First, S

-------------------------------------------------------------------------------
\* What sys_execute takes for the name, and where the name ends when arguments follow.
LEMMA NameIs ==
    ASSUME BufferInv, pc = "execute"
    PROVE  LET w == FirstWord(line) IN
           /\ CString(Slice(buf, 0, NameEnd(buf))) =
                 IF Len(w) <= NameMax THEN w ELSE SubSeq(w, 1, NameMax)
           /\ Len(w) <= NameMax /\ Len(w) < Len(line) => NameEnd(buf) = Len(w)
<1> DEFINE w == FirstWord(line)
           s == Len(w)
           L == Len(line)
           stops == {j \in DOMAIN buf : buf[j] \in {NL, SP} \/ j = NameMax}
           i == NameEnd(buf)
           Chars == Letters \cup {SP}
<1>1. /\ BUFSIZE \in Nat /\ NameMax \in Nat /\ NameMax < BUFSIZE /\ MaxLine \in Nat
      /\ MaxLine < BUFSIZE /\ NUL \notin {NL, SP}
  BY CommandAssumption DEF NUL, NL, SP
<1>2. /\ DOMAIN buf = 0..(BUFSIZE - 1) /\ line \in Lines
      /\ \A j \in 0..(L - 1) : buf[j] = line[j + 1]
      /\ buf[L] = NUL
  BY DEF BufferInv
<1>3. L \in 0..MaxLine /\ line \in Seq(Chars) /\ \A j \in 1..L : line[j] \notin {NL, NUL}
  BY <1>2, LineIs
<1>4. /\ w \in Seq(Chars) /\ s \in 0..L /\ (\A j \in 1..s : w[j] = line[j] /\ line[j] # SP)
      /\ (s < L => line[s + 1] = SP)
  BY <1>2, WordIs
<1> HIDE DEF w, Chars
<1>5. \A j \in 0..(s - 1) : buf[j] = w[j + 1] /\ buf[j] \notin {NL, NUL, SP}
  <2> SUFFICES ASSUME NEW j \in 0..(s - 1)
               PROVE  buf[j] = w[j + 1] /\ buf[j] \notin {NL, NUL, SP}
    OBVIOUS
  <2>1. j + 1 \in 1..s /\ j + 1 \in 1..L /\ j \in 0..(L - 1) BY <1>3, <1>4
  <2> QED BY <1>2, <1>3, <1>4, <2>1
<1>6. stops \in SUBSET Nat /\ NameMax \in stops BY <1>1, <1>2
<1>7. i = First(0, stops) BY DEF NameEnd
<1>8. \A j \in stops : j >= s \/ j = NameMax BY <1>1, <1>2, <1>4, <1>5
\* a prefix of the word is cut out of the buffer whole
<1>9. ASSUME NEW m \in 0..s
      PROVE  CString(Slice(buf, 0, m)) = SubSeq(w, 1, m)
  <2> DEFINE T == {buf[j] : j \in 0..(m - 1)}
             c == Slice(buf, 0, m)
  <2>1. m \in Nat /\ m <= s BY <1>4
  <2>2. c \in Seq(T) /\ Len(c) = m /\ \A j \in 1..m : c[j] = buf[j - 1]
    BY <2>1, FrontIs, Zenon
  <2> HIDE DEF c, T
  <2>3. \A j \in 1..m : c[j] = w[j] /\ c[j] # NUL
    <3> SUFFICES ASSUME NEW j \in 1..m PROVE c[j] = w[j] /\ c[j] # NUL OBVIOUS
    <3>1. j - 1 \in 0..(s - 1) /\ (j - 1) + 1 = j BY <1>4, <2>1
    <3> QED BY <1>5, <2>2, <3>1
  <2>4. CString(c) = c BY <2>2, <2>3, StringIs
  <2>5. c = SubSeq(w, 1, m)
    <3>1. Len(SubSeq(w, 1, m)) = m /\ \A j \in 1..m : SubSeq(w, 1, m)[j] = w[j]
      BY <1>4, <2>1
    <3>2. SubSeq(w, 1, m) \in Seq(Chars) BY <1>4, <2>1
    <3> QED BY <2>2, <2>3, <3>1, <3>2
  <2> QED BY <2>4, <2>5 DEF c
<1>10. SubSeq(w, 1, s) = w BY <1>4
<1>11. CASE NameMax <= s
  <2>1. i = NameMax
    <3>1. \A j \in stops : j >= 0 => NameMax <= j BY <1>1, <1>4, <1>6, <1>8, <1>11
    <3> HIDE DEF stops
    <3>2. First(0, stops) = NameMax BY <1>1, <1>6, <3>1, FirstIs
    <3> QED BY <1>7, <3>2
  <2>2. CString(Slice(buf, 0, i)) = SubSeq(w, 1, NameMax)
    BY <1>1, <1>4, <1>9, <1>11, <2>1
  <2> HIDE DEF i
  <2>3. s <= NameMax => s = NameMax BY <1>1, <1>4, <1>11
  <2> QED BY <1>10, <2>1, <2>2, <2>3 DEF i, w
<1>12. CASE s < NameMax /\ s < L
  <2>1. i = s
    <3>1. s \in DOMAIN buf /\ s \in 0..(L - 1) BY <1>1, <1>2, <1>3, <1>4, <1>12
    <3>2. buf[s] = SP BY <1>2, <1>4, <1>12, <3>1
    <3>3. s \in stops /\ s \in Nat /\ \A j \in stops : j >= 0 => s <= j
      BY <1>1, <1>4, <1>6, <1>8, <1>12, <3>1, <3>2
    <3> HIDE DEF stops, s
    <3>4. First(0, stops) = s BY <1>6, <3>3, FirstIs
    <3> QED BY <1>7, <3>4
  <2>2. CString(Slice(buf, 0, i)) = w BY <1>4, <1>9, <1>10, <2>1
  <2>3. s <= NameMax BY <1>1, <1>4, <1>12
  <2> QED BY <2>1, <2>2, <2>3 DEF w
<1>13. CASE s < NameMax /\ s = L
  <2>1. i \in Nat /\ i > L
    <3> DEFINE S == {j \in stops : j >= 0}
    <3>1. S \in SUBSET Nat /\ NameMax \in S BY <1>1, <1>6
    <3>2. \A j \in S : j > L
      <4> SUFFICES ASSUME NEW j \in S PROVE j > L OBVIOUS
      <4>1. j \in Nat /\ (j >= s \/ j = NameMax) /\ (buf[j] \in {NL, SP} \/ j = NameMax)
        BY <1>6, <1>8
      <4>2. CASE j = NameMax BY <1>1, <1>3, <1>13, <4>2
      <4>3. CASE j # NameMax
        <5>1. j # L BY <1>1, <1>2, <4>1, <4>3
        <5> QED BY <1>3, <1>13, <4>1, <4>3, <5>1
      <4> QED BY <4>2, <4>3
    <3>3. i = Min(S) BY <1>7 DEF First
    <3> HIDE DEF S, i
    <3>4. Min(S) \in S BY <3>1, MinExists
    <3> QED BY <3>1, <3>2, <3>3, <3>4, Zenon
  <2> DEFINE T == {buf[j] : j \in 0..(i - 1)}
             c == Slice(buf, 0, i)
  <2> HIDE DEF i
  <2>2. c \in Seq(T) /\ Len(c) = i /\ \A j \in 1..i : c[j] = buf[j - 1]
    <3>1. i \in Nat BY <2>1, Zenon
    <3> QED BY <3>1, FrontIs, Zenon
  <2> HIDE DEF c, T
  <2>3. L + 1 \in 1..i /\ c[L + 1] = NUL
    <3>1. L + 1 \in 1..i /\ (L + 1) - 1 = L BY <1>3, <2>1
    <3> QED BY <1>2, <2>2, <3>1
  <2>4. \A j \in 1..L : c[j] = w[j] /\ c[j] # NUL
    <3> SUFFICES ASSUME NEW j \in 1..L PROVE c[j] = w[j] /\ c[j] # NUL OBVIOUS
    <3>1. j - 1 \in 0..(s - 1) /\ (j - 1) + 1 = j /\ j \in 1..i
      BY <1>3, <1>4, <1>13, <2>1
    <3> QED BY <1>5, <2>2, <3>1
  <2>5. (L + 1) - 1 = L BY <1>3
  <2>6. CString(c) = SubSeq(c, 1, L) BY <2>2, <2>3, <2>4, <2>5, StringIs, Zenon
  <2>7. SubSeq(c, 1, L) = w
    <3>1. /\ SubSeq(c, 1, L) \in Seq(T) /\ Len(SubSeq(c, 1, L)) = L
          /\ \A j \in 1..L : SubSeq(c, 1, L)[j] = c[j]
      BY <1>3, <2>1, <2>2
    <3> QED BY <1>4, <1>13, <2>4, <3>1
  <2>8. s <= NameMax /\ ~(s < L) BY <1>1, <1>3, <1>4, <1>13
  <2> QED BY <2>6, <2>7, <2>8 DEF c, i, w
<1> QED BY <1>1, <1>3, <1>4, <1>11, <1>12, <1>13 DEF w

\* What sys_execute takes for the arguments when some were typed.
LEMMA ArgsAre ==
    ASSUME BufferInv, pc = "execute", AfterWord(line) # <<>>, Len(FirstWord(line)) <= NameMax
    PROVE  CString(Arguments(buf, NameEnd(buf))) = AfterWord(line)
<1> DEFINE w == FirstWord(line)
           s == Len(w)
           L == Len(line)
           rest == {j \in (s + 1)..L : line[j] # SP}
           m == Min(rest)
           Chars == Letters \cup {SP}
<1>1. /\ BUFSIZE \in Nat /\ ArgEnd \in Nat /\ ArgEnd < BUFSIZE /\ MaxLine \in Nat
      /\ MaxLine < ArgEnd /\ NUL \notin {NL, SP}
  BY CommandAssumption DEF NUL, NL, SP
<1>2. /\ DOMAIN buf = 0..(BUFSIZE - 1) /\ line \in Lines
      /\ \A j \in 0..(L - 1) : buf[j] = line[j + 1]
      /\ buf[L] = NUL
  BY DEF BufferInv
<1>3. L \in 0..MaxLine /\ line \in Seq(Chars) /\ \A j \in 1..L : line[j] \notin {NL, NUL}
  BY <1>2, LineIs
<1>4. s \in 0..L /\ (s < L => line[s + 1] = SP) BY <1>2, WordIs
<1>5. rest # {} /\ AfterWord(line) = SubSeq(line, m, L) BY Zenon DEF AfterWord
<1>6. rest \in SUBSET Nat BY <1>3, <1>4
<1>7. m \in rest /\ \A y \in rest : m <= y
  <2> HIDE DEF rest
  <2> QED BY <1>5, <1>6, MinExists
<1> HIDE DEF m, Chars
<1>8. m \in (s + 1)..L /\ line[m] # SP BY <1>7
<1>9. s < L /\ NameEnd(buf) = s BY <1>3, <1>4, <1>8, NameIs
<1>10. m - 1 \in 0..(L - 1) /\ m - 1 \in DOMAIN buf /\ (m - 1) + 1 = m /\ L \in DOMAIN buf
       /\ s \in 0..(L - 1) /\ L \in Nat /\ L < ArgEnd
  BY <1>1, <1>2, <1>3, <1>4, <1>8
\* the spaces are skipped
<1>11. ArgStart(buf, s) = m - 1
  <2> DEFINE stops == {j \in DOMAIN buf : buf[j] # SP}
  <2>1. stops \in SUBSET Nat /\ m - 1 \in stops BY <1>1, <1>2, <1>8, <1>10
  <2>2. \A j \in stops : j >= s => m - 1 <= j
    <3> SUFFICES ASSUME NEW j \in stops, j >= s, j < m - 1 PROVE FALSE BY <1>10, <2>1
    <3>1. j \in 0..(L - 1) /\ j + 1 \in (s + 1)..L /\ j + 1 < m BY <1>10, <2>1
    <3>2. line[j + 1] # SP BY <1>2, <3>1
    <3>3. j + 1 \in rest BY <3>1, <3>2
    <3> QED BY <1>7, <1>10, <3>1, <3>3
  <2>3. s \in Nat /\ m - 1 >= s BY <1>4, <1>8, <1>10
  <2> HIDE DEF stops, s, m
  <2>4. First(s, stops) = m - 1 BY <2>1, <2>2, <2>3, FirstIs, Zenon
  <2> QED BY <2>4 DEF ArgStart, stops
\* and the arguments end where the line does
<1>12. First(m - 1, {j \in DOMAIN buf : buf[j] \in {NL, NUL} \/ j >= ArgEnd}) = L
  <2> DEFINE stops == {j \in DOMAIN buf : buf[j] \in {NL, NUL} \/ j >= ArgEnd}
  <2>1. stops \in SUBSET Nat /\ L \in stops BY <1>1, <1>2, <1>10
  <2>2. \A j \in stops : j >= m - 1 => L <= j
    <3> SUFFICES ASSUME NEW j \in stops, j >= m - 1, j < L PROVE FALSE BY <1>10, <2>1
    <3>1. j \in 0..(L - 1) /\ j + 1 \in 1..L /\ ~(j >= ArgEnd) BY <1>1, <1>10, <2>1
    <3> QED BY <1>2, <1>3, <3>1
  <2>3. m - 1 \in Nat /\ L >= m - 1 BY <1>10
  <2> HIDE DEF stops, L
  <2> QED BY <2>1, <2>2, <2>3, FirstIs, Zenon DEF stops
<1>13. Arguments(buf, s) = Slice(buf, m - 1, L)
  <2>1. buf[s] = SP BY <1>2, <1>4, <1>9, <1>10
  <2> QED BY <1>11, <1>12, <2>1 DEF Arguments
<1> DEFINE c == Slice(buf, m - 1, L)
           T == {buf[j] : j \in (m - 1)..(L - 1)}
<1>14. /\ c \in Seq(T) /\ Len(c) = L - (m - 1)
       /\ \A j \in 1..(L - (m - 1)) : c[j] = buf[(m - 1) + j - 1]
  <2> DEFINE from == m - 1
  <2>1. from \in Nat /\ L \in Nat /\ from <= L BY <1>10
  <2> HIDE DEF from, L, c, T
  <2>2. /\ Slice(buf, from, L) \in Seq({buf[j] : j \in from..(L - 1)})
        /\ Len(Slice(buf, from, L)) = L - from
        /\ \A j \in 1..(L - from) : Slice(buf, from, L)[j] = buf[from + j - 1]
    BY <2>1, SliceIs, ZenonT(40)
  <2> QED BY <2>2 DEF from, c, T
<1> HIDE DEF c, T
<1>15. \A j \in 1..(L - (m - 1)) : c[j] = line[m + j - 1] /\ c[j] # NUL
  <2> SUFFICES ASSUME NEW j \in 1..(L - (m - 1))
               PROVE  c[j] = line[m + j - 1] /\ c[j] # NUL
    OBVIOUS
  <2>1. /\ (m - 1) + j - 1 \in 0..(L - 1) /\ ((m - 1) + j - 1) + 1 = m + j - 1
        /\ m + j - 1 \in 1..L
    BY <1>8, <1>10
  <2> QED BY <1>2, <1>3, <1>14, <2>1
<1>16. CString(c) = c BY <1>14, <1>15, StringIs
<1>17. c = SubSeq(line, m, L)
  <2>1. m \in 1..L BY <1>3, <1>4, <1>8
  <2>2. /\ SubSeq(line, m, L) \in Seq(Chars) /\ Len(SubSeq(line, m, L)) = L - (m - 1)
        /\ \A j \in 1..(L - (m - 1)) : SubSeq(line, m, L)[j] = line[m + j - 1]
    BY <1>3, <1>10, <2>1
  <2>3. /\ Len(c) = Len(SubSeq(line, m, L))
        /\ \A j \in 1..Len(c) : c[j] = SubSeq(line, m, L)[j]
    BY <1>14, <1>15, <2>2
  <2> QED BY <1>14, <2>2, <2>3, SameSequence, Zenon
<1> QED BY <1>5, <1>9, <1>13, <1>16, <1>17 DEF c

-------------------------------------------------------------------------------
CommandInv == BufferInv /\ NameIsFirstWord /\ TypedArgsArrive

LEMMA CommandInit == Init => CommandInv
BY CommandAssumption DEF Init, CommandInv, BufferInv, NameIsFirstWord, TypedArgsArrive

\* The shell puts the line and its terminator at the front of the buffer.
LEMMA ReadInv ==
    ASSUME BufferInv, NEW l \in Lines, ReadLine(l)
    PROVE  CommandInv'
<1> DEFINE read == [j \in DOMAIN buf |-> IF j < Len(l) THEN l[j + 1]
                                        ELSE IF j = Len(l) THEN NL ELSE buf[j]]
<1>1. pc' = "read" /\ line' = l /\ buf' = Terminate(read, Len(l) + 1) BY DEF ReadLine
<1>2. /\ BUFSIZE \in Nat /\ MaxLine \in Nat /\ MaxLine < BUFSIZE - 1
      /\ DOMAIN buf = 0..(BUFSIZE - 1) /\ buf[BUFSIZE - 1] = NUL
  BY CommandAssumption DEF BufferInv
<1>3. Len(l) \in 0..MaxLine BY LineIs
<1>4. /\ DOMAIN read = 0..(BUFSIZE - 1) /\ read[Len(l)] = NL
      /\ read[BUFSIZE - 1] = NUL
      /\ \A j \in 0..(Len(l) - 1) : read[j] = l[j + 1]
  BY <1>2, <1>3
<1>5. read = [j \in DOMAIN read |-> read[j]] BY <1>4
<1> HIDE DEF read
<1>6. Len(l) + 1 > 0 /\ (Len(l) + 1) - 1 = Len(l) BY <1>2, <1>3
<1>7. buf' = [read EXCEPT ![Len(l)] = NUL] BY <1>1, <1>4, <1>6 DEF Terminate
<1>8. /\ DOMAIN buf' = 0..(BUFSIZE - 1) /\ buf'[Len(l)] = NUL /\ buf'[BUFSIZE - 1] = NUL
      /\ \A j \in 0..(Len(l) - 1) : buf'[j] = l[j + 1]
  BY <1>2, <1>3, <1>4, <1>5, <1>7
<1> QED BY <1>1, <1>8 DEF CommandInv, BufferInv, NameIsFirstWord, TypedArgsArrive

LEMMA CommandNext == CommandInv /\ [Next]_vars => CommandInv'
<1> SUFFICES ASSUME CommandInv, [Next]_vars PROVE CommandInv' OBVIOUS
<1> USE DEF CommandInv
<1>1. ASSUME NEW l \in Lines, ReadLine(l) PROVE CommandInv' BY <1>1, ReadInv
<1>2. CASE Dispatch
  <2>1. pc = "read" /\ pc' \in {"halted", "prompt", "execute"} /\ UNCHANGED <<buf, line, cmd>>
    BY <1>2 DEF Dispatch
  <2> QED BY <2>1 DEF BufferInv, NameIsFirstWord, TypedArgsArrive
<1>3. CASE ParseCommand
  <2> DEFINE name == CString(Slice(buf, 0, NameEnd(buf)))
  <2>1. pc = "execute" /\ UNCHANGED <<buf, line>> BY <1>3 DEF ParseCommand
  <2>2. CASE pc' # "ran"
    <3>1. pc' \in {"prompt", "halted"} BY <1>3, <2>2 DEF ParseCommand
    <3> QED BY <2>1, <3>1 DEF BufferInv, NameIsFirstWord, TypedArgsArrive
  <2>3. CASE pc' = "ran"
    <3>1. cmd' = [name |-> name, args |-> CString(Arguments(buf, NameEnd(buf)))]
      BY <1>3, <2>3 DEF ParseCommand
    <3>2. cmd'.name = name /\ cmd'.args = CString(Arguments(buf, NameEnd(buf))) BY <3>1
    <3>3. NameIsFirstWord' BY <2>1, <3>2, NameIs DEF NameIsFirstWord
    <3>4. TypedArgsArrive' BY <2>1, <3>2, ArgsAre DEF TypedArgsArrive
    <3> QED BY <2>1, <2>3, <3>3, <3>4 DEF BufferInv
  <2> QED BY <2>2, <2>3
<1>4. CASE ReturnToShell
  BY <1>4 DEF ReturnToShell, BufferInv, NameIsFirstWord, TypedArgsArrive
<1>5. CASE Restart
  BY <1>5, CommandAssumption DEF Restart, BufferInv, NameIsFirstWord, TypedArgsArrive
<1>6. CASE UNCHANGED vars
  BY <1>6 DEF vars, BufferInv, NameIsFirstWord, TypedArgsArrive
<1> QED BY <1>1, <1>2, <1>3, <1>4, <1>5, <1>6 DEF Next

\* The program sys_execute looks up is the first word of the line, cut at the longest
\* name, for every line and whatever earlier lines left in the shell's buffer.
THEOREM NameParsed == Spec => []NameIsFirstWord
<1>1. CommandInv => NameIsFirstWord BY DEF CommandInv
<1> QED BY <1>1, CommandInit, CommandNext, PTL DEF Spec

\* Arguments typed after a name that is not too long reach the program as typed, with
\* nothing of an earlier line behind them.
THEOREM ArgumentsParsed == Spec => []TypedArgsArrive
<1>1. CommandInv => TypedArgsArrive BY DEF CommandInv
<1> QED BY <1>1, CommandInit, CommandNext, PTL DEF Spec

===============================================================================
