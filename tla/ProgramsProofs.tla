---------------------------- MODULE ProgramsProofs ----------------------------
(***************************************************************************)
(* For every file system image, every chunk and every order of steps: cat  *)
(* prints the bytes of its file in order and all of them, and ls the names *)
(* of the directory.  The content of a file is a recursive function of its *)
(* blocks; what it computes is shown by taking the least number of blocks  *)
(* at which it would fail.                                                 *)
(***************************************************************************)
EXTENDS Programs, TLAPS, WellFoundedInduction

\* A nonempty set of naturals has a least element.
LEMMA LeastElement ==
    ASSUME NEW T, T \subseteq Nat, T # {}
    PROVE  \E x \in T : \A y \in T : x <= y
<1>1. PICK x \in T : \A y \in T : ~(<<y, x>> \in OpToRel(<, Nat))
  BY NatLessThanWellFounded, WFMin, Zenon
<1>2. \A y \in T : x <= y
  <2> TAKE y \in T
  <2>1. <<y, x>> \in Nat \X Nat /\ <<y, x>>[1] = y /\ <<y, x>>[2] = x
    OBVIOUS
  <2>2. y < x => <<y, x>> \in OpToRel(<, Nat)
    BY <2>1 DEF OpToRel
  <2>3. ~(y < x)
    BY <1>1, <2>2, Zenon
  <2>4. x \in Nat /\ y \in Nat
    OBVIOUS
  <2> QED
    BY <2>3, <2>4
<1> QED
  BY <1>2

\* A prefix of a sequence, element by element.
LEMMA PrefixIs ==
    ASSUME NEW S, NEW s \in Seq(S), NEW k \in Nat, k <= Len(s)
    PROVE  /\ SubSeq(s, 1, k) \in Seq(S) /\ Len(SubSeq(s, 1, k)) = k
           /\ \A j \in 1..k : SubSeq(s, 1, k)[j] = s[j]
<1>1. Len(s) \in Nat /\ \A j \in 1..Len(s) : s[j] \in S
  OBVIOUS
<1>2. SubSeq(s, 1, k) = [j \in 1..k |-> s[j]]
  BY <1>1
<1>3. [j \in 1..k |-> s[j]] \in Seq(S)
  BY <1>1
<1>4. Len([j \in 1..k |-> s[j]]) = k
  OBVIOUS
<1> QED
  BY <1>2, <1>3, <1>4

\* Sequences of one length with the same elements are equal.
LEMMA SameSequence ==
    ASSUME NEW S, NEW s \in Seq(S), NEW t \in Seq(S), Len(s) = Len(t),
           \A j \in 1..Len(s) : s[j] = t[j]
    PROVE  s = t
  OBVIOUS

-------------------------------------------------------------------------------
\* Two sequences one after the other, element by element.
LEMMA Joined ==
    ASSUME NEW S, NEW s \in Seq(S), NEW t \in Seq(S)
    PROVE  /\ s \o t \in Seq(S) /\ Len(s \o t) = Len(s) + Len(t)
           /\ \A x \in 1..Len(s) : (s \o t)[x] = s[x]
           /\ \A x \in (Len(s) + 1)..(Len(s) + Len(t)) : (s \o t)[x] = t[x - Len(s)]
  OBVIOUS

\* The place of a byte in its block.
LEMMA PlaceInBlock ==
    ASSUME NEW B \in Nat \ {0}, NEW a \in Nat, NEW x \in Nat, a * B < x, x <= a * B + B
    PROVE  (x - 1) \div B = a /\ (x - 1) % B = x - 1 - a * B
<1> DEFINE y == x - 1
           q == y \div B
           r == y % B
<1>1. y \in Int /\ q \in Int /\ r \in Int /\ y = B * q + r /\ 0 <= r /\ r < B
  OBVIOUS
<1>2. a * B \in Int /\ B * q \in Int /\ a * B <= y /\ y < a * B + B
  BY <1>1
<1> HIDE DEF y, q, r
<1>3. q = a
  <2>1. ASSUME q < a PROVE FALSE
    <3>1. B * q + B <= a * B
      BY <1>1, <2>1
    <3> QED
      BY <1>1, <1>2, <3>1
  <2>2. ASSUME q > a PROVE FALSE
    <3>1. a * B + B <= B * q
      BY <1>1, <2>2
    <3> QED
      BY <1>1, <1>2, <3>1
  <2> QED
    BY <1>1, <2>1, <2>2
<1>4. B * q = a * B
  BY <1>1, <1>3
<1>5. r = y - a * B
  BY <1>1, <1>2, <1>4
<1> QED
  BY <1>3, <1>5 DEF y, q, r

\* bl is n blocks of B elements of S each.
BlockSeq(bl, n, B, S) == n \in Nat /\ B \in Nat \ {0} /\ bl \in [1..n -> [1..B -> S]]

\* The bytes of the first k of the blocks bl, each of B bytes.
BytesOf(bl, B, k) == [j \in 1..(k * B) |-> bl[((j - 1) \div B) + 1][((j - 1) % B) + 1]]

AreBytesOf(l, bl, B, S, k) ==
    /\ l \in Seq(S) /\ Len(l) = k * B /\ k * B \in Nat
    /\ \A x \in 1..(k * B) : l[x] = bl[((x - 1) \div B) + 1][((x - 1) % B) + 1]

\* Every byte of the first k blocks is in one of them.
LEMMA BytePlace ==
    ASSUME NEW B \in Nat \ {0}, NEW k \in Nat, NEW x \in 1..(k * B)
    PROVE  ((x - 1) \div B) + 1 \in 1..k /\ ((x - 1) % B) + 1 \in 1..B
<1> DEFINE y == x - 1
           q == y \div B
           r == y % B
<1>0. k * B \in Nat
  OBVIOUS
<1>1. y \in Nat /\ q \in Nat /\ r \in Int /\ y = B * q + r /\ 0 <= r /\ r < B /\ y < k * B
  BY <1>0
<1> HIDE DEF y, q, r
<1>2. q < k
  <2>1. ASSUME k <= q PROVE FALSE
    <3>1. k * B <= B * q
      BY <1>1, <2>1
    <3> QED
      BY <1>0, <1>1, <3>1
  <2> QED
    BY <1>1, <2>1
<1>3. q + 1 \in 1..k /\ r + 1 \in 1..B
  BY <1>1, <1>2
<1> QED
  BY <1>3 DEF y, q, r

\* The bytes of whole blocks form a sequence.
LEMMA BytesType ==
    ASSUME NEW bl, NEW n, NEW B, NEW S, BlockSeq(bl, n, B, S), NEW k \in 0..n
    PROVE  AreBytesOf(BytesOf(bl, B, k), bl, B, S, k)
<1> DEFINE at(x) == bl[((x - 1) \div B) + 1][((x - 1) % B) + 1]
           K == k * B
<1>0. n \in Nat /\ B \in Nat \ {0} /\ bl \in [1..n -> [1..B -> S]]
  BY DEF BlockSeq
<1>1. K \in Nat /\ k \in Nat /\ B \in Nat \ {0}
  BY <1>0
<1>2. ASSUME NEW x \in 1..K PROVE at(x) \in S
  <2> DEFINE u == ((x - 1) \div B) + 1
             v == ((x - 1) % B) + 1
  <2>1. u \in 1..k /\ v \in 1..B
    BY <1>1, BytePlace, Zenon
  <2> HIDE DEF u, v
  <2>2. bl[u][v] \in S
    <3>1. u \in 1..n
      BY <1>0, <2>1
    <3> QED
      BY <1>0, <2>1, <3>1
  <2> QED
    BY <2>2 DEF u, v
<1>3. BytesOf(bl, B, k) = [x \in 1..K |-> at(x)]
  BY Zenon DEF BytesOf
<1> HIDE DEF K, at
<1>4. /\ [x \in 1..K |-> at(x)] \in Seq(S) /\ Len([x \in 1..K |-> at(x)]) = K
      /\ \A x \in 1..K : [x1 \in 1..K |-> at(x1)][x] = at(x)
  BY <1>1, <1>2
<1>5. /\ BytesOf(bl, B, k) \in Seq(S) /\ Len(BytesOf(bl, B, k)) = K
      /\ \A x \in 1..K : BytesOf(bl, B, k)[x] = at(x)
  BY <1>3, <1>4, Zenon
<1> QED
  BY <1>1, <1>5, Zenon DEF K, at, AreBytesOf

\* One more block laid behind the first k.
LEMMA OneMoreBlock ==
    ASSUME NEW bl, NEW n, NEW B, NEW S, BlockSeq(bl, n, B, S), NEW k \in 0..(n - 1)
    PROVE  BytesOf(bl, B, k) \o bl[k + 1] = BytesOf(bl, B, k + 1)
<1> DEFINE at(x) == bl[((x - 1) \div B) + 1][((x - 1) % B) + 1]
           K == k * B
           L == BytesOf(bl, B, k)
           M == BytesOf(bl, B, k + 1)
           b == bl[k + 1]
<1>0. n \in Nat /\ B \in Nat \ {0} /\ bl \in [1..n -> [1..B -> S]]
  BY DEF BlockSeq
<1>1. /\ K \in Nat /\ (k + 1) * B = K + B /\ k \in Nat /\ k + 1 \in 1..n
      /\ k \in 0..n /\ k + 1 \in 0..n
  BY <1>0
<1>2. L \in Seq(S) /\ Len(L) = K /\ \A x \in 1..K : L[x] = at(x)
  <2>1. AreBytesOf(L, bl, B, S, k)
    BY <1>1, BytesType, Zenon
  <2> QED
    BY <2>1, Zenon DEF AreBytesOf
<1>3. M \in Seq(S) /\ Len(M) = (k + 1) * B /\ \A x \in 1..((k + 1) * B) : M[x] = at(x)
  <2>1. AreBytesOf(M, bl, B, S, k + 1)
    BY <1>1, BytesType, Zenon
  <2> QED
    BY <2>1, Zenon DEF AreBytesOf
<1>4. b \in Seq(S) /\ Len(b) = B
  <2>1. b \in [1..B -> S]
    BY <1>0, <1>1
  <2> HIDE DEF b
  <2> QED
    BY <1>0, <2>1
<1>5. ASSUME NEW x \in (K + 1)..(K + B) PROVE at(x) = b[x - K]
  <2>1. (x - 1) \div B = k /\ (x - 1) % B = x - 1 - K
    <3>1. x \in Nat /\ K < x /\ x <= K + B
      <4>1. K \in Nat /\ B \in Nat
        BY <1>0, <1>1
      <4> HIDE DEF K
      <4> QED
        BY <4>1
    <3> QED
      BY <1>0, <1>1, <3>1, PlaceInBlock
  <2>2. x - 1 - K + 1 = x - K
    BY <1>0, <1>1
  <2> QED
    BY <2>1, <2>2, Zenon
<1> HIDE DEF K, L, M, b, at
<1>6. /\ L \o b \in Seq(S) /\ Len(L \o b) = K + B
      /\ \A x \in 1..K : (L \o b)[x] = L[x]
      /\ \A x \in (K + 1)..(K + B) : (L \o b)[x] = b[x - K]
  <2>1. /\ L \o b \in Seq(S) /\ Len(L \o b) = Len(L) + Len(b)
        /\ \A x \in 1..Len(L) : (L \o b)[x] = L[x]
        /\ \A x \in (Len(L) + 1)..(Len(L) + Len(b)) : (L \o b)[x] = b[x - Len(L)]
    BY <1>2, <1>4, Joined
  <2> QED
    BY <1>2, <1>4, <2>1, Zenon
<1>7. Len(M) = K + B /\ \A x \in 1..(K + B) : M[x] = at(x)
  BY <1>1, <1>3, Zenon
<1>8. \A x \in 1..(K + B) : (L \o b)[x] = M[x]
  <2> TAKE x \in 1..(K + B)
  <2>1. x \in 1..K \/ x \in (K + 1)..(K + B)
    BY <1>0, <1>1
  <2> QED
    BY <1>2, <1>5, <1>6, <1>7, <2>1, Zenon
<1>9. L \o b = M
  BY <1>3, <1>6, <1>7, <1>8, SameSequence
<1> QED
  BY <1>9 DEF L, M, b

\* The content of a file, byte by byte: the blocks laid end to end, however many, hold at
\* every offset the byte read_data takes for it.
LEMMA ContentIs ==
    ASSUME NEW nd \in 0..(nnod - 1)
    PROVE  /\ inodes[nd].len \in Nat
           /\ Content(nd) = Copied(nd, 0, inodes[nd].len)
<1> DEFINE d == inodes[nd].data
           n == Len(d)
           len == inodes[nd].len
           bl == [j \in 1..n |-> blocks[d[j]]]
           Body(F) == [k \in 0..n |-> IF k = 0 THEN <<>> ELSE F[k - 1] \o blocks[d[k]]]
           laid == CHOOSE F : F = Body(F)
           G == [k \in 0..n |-> BytesOf(bl, BLKSIZE, k)]
<1>1. Content(nd) = SubSeq(laid[n], 1, len)
  BY Zenon DEF Content
<1>2. /\ d \in Seq(DOMAIN blocks) /\ BLKSIZE \in Nat \ {0} /\ Modulus \in Nat \ {0}
      /\ len \in 0..(Modulus - 1) /\ len <= n * BLKSIZE
      /\ \A j \in DOMAIN blocks : blocks[j] \in [1..BLKSIZE -> STRING]
  BY ImageAssumption, Zenon
<1>3. n \in Nat /\ len \in Nat /\ 0 \in 0..n /\ n \in 0..n /\ \A j \in 1..n : d[j] \in DOMAIN blocks
  BY <1>2
<1> HIDE DEF d, len
<1>4. BlockSeq(bl, n, BLKSIZE, STRING)
  BY <1>2, <1>3 DEF BlockSeq
<1>5. /\ G[0] = <<>>
      /\ \A k \in 0..n : k # 0 => G[k] = G[k - 1] \o blocks[d[k]]
  <2>1. G[0] = <<>>
    <3>1. AreBytesOf(BytesOf(bl, BLKSIZE, 0), bl, BLKSIZE, STRING, 0)
      BY <1>3, <1>4, BytesType, Zenon
    <3> HIDE DEF bl
    <3>2. BytesOf(bl, BLKSIZE, 0) \in Seq(STRING) /\ Len(BytesOf(bl, BLKSIZE, 0)) = 0
      BY <1>2, <3>1 DEF AreBytesOf
    <3>3. BytesOf(bl, BLKSIZE, 0) = <<>>
      BY <3>2
    <3> QED
      BY <1>3, <3>3, Zenon
  <2>2. ASSUME NEW k \in 0..n, k # 0 PROVE G[k] = G[k - 1] \o blocks[d[k]]
    <3>1. k - 1 \in 0..(n - 1) /\ k - 1 \in 0..n /\ k - 1 + 1 = k /\ k \in 1..n
      BY <1>3, <2>2
    <3>2. BytesOf(bl, BLKSIZE, k - 1) \o bl[k - 1 + 1] = BytesOf(bl, BLKSIZE, k - 1 + 1)
      BY <1>4, <3>1, OneMoreBlock, Zenon
    <3>3. bl[k] = blocks[d[k]]
      BY <3>1, Zenon
    <3> QED
      BY <3>1, <3>2, <3>3, Zenon
  <2> QED
    BY <2>1, <2>2, Zenon
<1>6. G = Body(G)
  <2>1. G = [k \in 0..n |-> G[k]]
    OBVIOUS
  <2>2. Body(G) = [k \in 0..n |-> Body(G)[k]]
    OBVIOUS
  <2>3. \A k \in 0..n : Body(G)[k] = IF k = 0 THEN <<>> ELSE G[k - 1] \o blocks[d[k]]
    BY Zenon
  <2> HIDE DEF G, Body
  <2>4. \A k \in 0..n : Body(G)[k] = G[k]
    BY <1>5, <2>3, Zenon
  <2> QED
    BY <2>1, <2>2, <2>4, Zenon
<1>7. laid = Body(laid)
  <2> HIDE DEF G, Body
  <2> QED
    BY <1>6, Zenon
<1>8. \A k \in 0..n : laid[k] = IF k = 0 THEN <<>> ELSE laid[k - 1] \o blocks[d[k]]
  <2>1. \A F : \A k \in 0..n : Body(F)[k] = IF k = 0 THEN <<>> ELSE F[k - 1] \o blocks[d[k]]
    BY Zenon
  <2> HIDE DEF Body, laid
  <2> QED
    BY <1>7, <2>1, Zenon
<1> HIDE DEF laid, G
<1>9. laid[n] = G[n]
  <2> DEFINE T == {k \in 0..n : laid[k] # G[k]}
  <2>1. ASSUME T # {} PROVE FALSE
    <3>1. T \subseteq Nat
      BY <1>3
    <3>2. PICK k \in T : \A j \in T : k <= j
      <4> HIDE DEF T
      <4> QED
        BY <2>1, <3>1, LeastElement, Zenon
    <3>3. k \in 0..n /\ laid[k] # G[k]
      OBVIOUS
    <3>4. k # 0
      BY <1>3, <1>5, <1>8, <3>3, Zenon
    <3>5. k - 1 \in 0..n /\ ~(k <= k - 1)
      BY <1>3, <3>3, <3>4
    <3>6. laid[k - 1] = G[k - 1]
      BY <3>2, <3>5
    <3> QED
      BY <1>5, <1>8, <3>3, <3>4, <3>6, Zenon
  <2> QED
    BY <1>3, <2>1
<1>10. G[n] = BytesOf(bl, BLKSIZE, n)
  BY <1>3, Zenon DEF G
<1> DEFINE all == BytesOf(bl, BLKSIZE, n)
<1>11. AreBytesOf(all, bl, BLKSIZE, STRING, n)
  BY <1>3, <1>4, BytesType, Zenon
<1>12. all \in Seq(STRING) /\ len <= Len(all)
  <2> HIDE DEF all
  <2> QED
    BY <1>2, <1>11, Zenon DEF AreBytesOf
<1>13. ASSUME NEW j \in 1..len PROVE all[j] = ByteAt(nd, 0 + j - 1)
  <2> DEFINE u == ((j - 1) \div BLKSIZE) + 1
             v == ((j - 1) % BLKSIZE) + 1
  <2>1. j \in 1..(n * BLKSIZE)
    BY <1>2, <1>3
  <2>2. u \in 1..n
    BY <1>2, <1>3, <2>1, BytePlace, Zenon
  <2>3. all[j] = bl[u][v]
    <3> HIDE DEF all, bl
    <3> QED
      BY <1>11, <2>1, Zenon DEF AreBytesOf
  <2>4. bl[u] = blocks[d[u]]
    BY <2>2, Zenon
  <2>5. 0 + j - 1 = j - 1
    BY <1>3
  <2> QED
    BY <2>3, <2>4, <2>5, Zenon DEF ByteAt, d
<1> HIDE DEF all
<1>14. SubSeq(all, 1, len) = [j \in 1..len |-> all[j]]
  BY <1>3, <1>12
<1>15. Content(nd) = [j \in 1..len |-> all[j]]
  BY <1>1, <1>9, <1>10, <1>14, Zenon DEF all
<1>16. [j \in 1..len |-> all[j]] = [j \in 1..len |-> ByteAt(nd, 0 + j - 1)]
  BY <1>13, Zenon
<1> QED
  BY <1>3, <1>15, <1>16, Zenon DEF Copied, len

-------------------------------------------------------------------------------
\* The first n names of the directory.
Listed(n) == [k \in 1..n |-> dirs[k - 1].name]

Descriptors == [f_op : {"none", "rtc", "dir", "file"}, inode : Nat, file_position : Nat]

\* ls has printed the entries before its position.
LsInv ==
    /\ arg = Dot /\ chunk = NameLen
    /\ pc = "open" => out = <<>>
    /\ pc = "loop" => e.f_op = "dir" /\ e.file_position \in 0..nent /\ out = Listed(e.file_position)
    /\ pc = "done" => out = Listed(nent)

\* cat has printed the bytes before its position, which is inside the file.
CatInv ==
    /\ chunk \in Int /\ U32(chunk) # 0
    /\ pc = "open" => out = <<>> /\ e.f_op = "none"
    /\ e.f_op = "file" =>
          /\ e.inode \in 0..(nnod - 1)
          /\ e.file_position \in 0..inodes[e.inode].len
          /\ out = Copied(e.inode, 0, e.file_position)
          /\ pc = "done" => e.file_position = inodes[e.inode].len

ReaderInv ==
    /\ e \in Descriptors
    /\ pc \in {"open", "loop"} => prog \in {"ls", "cat"}
    /\ prog = "ls" => LsInv
    /\ prog = "cat" => CatInv

\* What the constants of the readers are.
LEMMA ReaderFacts ==
    /\ BLKSIZE \in Nat \ {0} /\ NameLen \in Nat \ {0} /\ Modulus \in Nat \ {0}
    /\ nent \in Nat /\ nnod \in Nat /\ nent + 1 < Modulus
    /\ UserRoom \in Nat /\ 2 * UserRoom < Modulus
  BY ImageAssumption, ReaderAssumption, Zenon

LEMMA ReaderInodes ==
    \A nd \in 0..(nnod - 1) : inodes[nd].len \in 0..(Modulus - 1) /\ inodes[nd].len <= UserRoom
  BY ImageAssumption, ReaderAssumption, Zenon

\* The entry a name is looked up at is one of the directory.
LEMMA FoundEntry ==
    ASSUME NEW name, Matches(name) # {}
    PROVE  /\ read_dentry_by_name(name) \in Dentries
           /\ read_dentry_by_name(name).ft = FtFile => read_dentry_by_name(name).ind \in 0..(nnod - 1)
<1> DEFINE i == CHOOSE i \in Matches(name) : \A j \in Matches(name) : i <= j
<1>1. nent \in Nat /\ nnod \in Nat
  BY ReaderFacts, Zenon
<1>2. Matches(name) \subseteq 0..(nent - 1)
  BY Zenon DEF Matches
<1>3. i \in Matches(name)
  <2>1. Matches(name) \subseteq Nat
    BY <1>1, <1>2
  <2> QED
    BY <2>1, LeastElement
<1> HIDE DEF i
<1>4. i \in 0..(nent - 1)
  BY <1>2, <1>3, Zenon
<1>5. i \in 0..nent
  BY <1>1, <1>4
<1>6. dirs[i] \in Dentries /\ (dirs[i].ft = FtFile => dirs[i].ind < nnod)
  BY <1>4, <1>5, ImageAssumption, Zenon
<1>7. dirs[i].ind \in Nat
  BY <1>6 DEF Dentries
<1>8. dirs[i].ft = FtFile => dirs[i].ind \in 0..(nnod - 1)
  BY <1>1, <1>6, <1>7
<1>9. read_dentry_by_name(name) = dirs[i]
  BY Zenon DEF read_dentry_by_name, i
<1> QED
  BY <1>6, <1>8, <1>9, Zenon

\* Initially nothing is open and nothing printed.
LEMMA ReaderInitInv == ProgramsInit => ReaderInv
<1> SUFFICES ASSUME ProgramsInit PROVE ReaderInv
  OBVIOUS
<1>1. e = [f_op |-> "none", inode |-> 0, file_position |-> 0] /\ out = <<>>
  BY Zenon DEF ProgramsInit, Init, ReadersIdle, Closed
<1>2. e \in Descriptors /\ e.f_op = "none"
  BY <1>1 DEF Descriptors
<1>3. \/ pc = "open" /\ prog = "ls" /\ arg = Dot /\ chunk = NameLen
      \/ pc = "open" /\ prog = "cat" /\ chunk \in Chunks
      \/ pc = "idle" /\ prog \in {"grep", "fish"}
  BY Zenon DEF ProgramsInit, Init, ReadersIdle
<1>4. \A n \in Chunks : n \in Int /\ U32(n) # 0
  BY ReaderAssumption, Zenon
<1> QED
  BY <1>1, <1>2, <1>3, <1>4 DEF ReaderInv, LsInv, CatInv

\* Steps of the other programs leave the readers alone.
LEMMA QuietReader ==
    ASSUME ReaderInv, UNCHANGED readerVars
    PROVE  ReaderInv'
  BY Zenon DEF ReaderInv, readerVars, LsInv, CatInv

\* The descriptor is set up for the entry found; ls finds the directory.
LEMMA OpenReads ==
    ASSUME ReaderInv, Open
    PROVE  ReaderInv'
<1>1. CASE Matches(arg) = {}
  <2>1. pc' = "failed" /\ UNCHANGED <<prog, arg, chunk, out, e>>
    BY <1>1, Zenon DEF Open
  <2> QED
    BY <2>1 DEF ReaderInv, LsInv, CatInv, Open
<1>2. CASE Matches(arg) # {}
  <2> DEFINE d == read_dentry_by_name(arg)
  <2>1. /\ pc = "open" /\ pc' = "loop" /\ UNCHANGED <<prog, arg, chunk, out>>
        /\ e' = [f_op |-> CASE d.ft = FtRtc -> "rtc" [] d.ft = FtDir -> "dir" [] d.ft = FtFile -> "file",
                 inode |-> IF d.ft = FtFile THEN d.ind ELSE e.inode, file_position |-> 0]
    BY <1>2, Zenon DEF Open
  <2>2. d \in Dentries /\ (d.ft = FtFile => d.ind \in 0..(nnod - 1))
    BY <1>2, FoundEntry, Zenon
  <2>3. prog = "ls" => d.ft = FtDir
    BY <1>2, ReaderAssumption, Zenon DEF ReaderInv, LsInv
  <2> HIDE DEF d
  <2>4. d.ft \in {FtRtc, FtDir, FtFile} /\ d.ind \in Nat
    BY <2>2 DEF Dentries
  <2>5. e \in Descriptors /\ e.inode \in Nat /\ prog \in {"ls", "cat"} /\ out = <<>>
    BY <2>1 DEF ReaderInv, Descriptors, LsInv, CatInv
  <2>6. /\ e' \in Descriptors /\ e'.file_position = 0
        /\ d.ft = FtDir => e'.f_op = "dir"
        /\ e'.f_op = "file" => d.ft = FtFile /\ e'.inode = d.ind
    BY <2>1, <2>4, <2>5 DEF Descriptors, FtRtc, FtDir, FtFile
  <2>7. prog = "ls" => LsInv'
    <3>1. Listed(0) = <<>> /\ 0 \in 0..nent
      BY ReaderFacts DEF Listed
    <3> QED
      BY <2>1, <2>3, <2>5, <2>6, <3>1 DEF ReaderInv, LsInv
  <2>8. prog = "cat" => CatInv'
    <3>1. \A nd : Copied(nd, 0, 0) = <<>>
      BY DEF Copied
    <3>2. \A nd \in 0..(nnod - 1) : 0 \in 0..inodes[nd].len
      BY ReaderInodes
    <3>3. e'.f_op = "file" => e'.inode \in 0..(nnod - 1)
      BY <2>2, <2>6, Zenon
    <3>4. pc' # "done" /\ pc' # "open"
      BY <2>1
    <3> QED
      BY <2>1, <2>5, <2>6, <3>1, <3>2, <3>3, <3>4, Zenon DEF ReaderInv, CatInv
  <2> QED
    BY <2>1, <2>5, <2>6, <2>7, <2>8 DEF ReaderInv
<1> QED
  BY <1>1, <1>2

\* A read of the clock ends cat.
LEMMA RtcReads ==
    ASSUME ReaderInv, ReadRtc
    PROVE  ReaderInv'
<1>1. pc = "loop" /\ e.f_op = "rtc" /\ pc' = "done" /\ UNCHANGED <<prog, arg, chunk, e, out>>
  BY DEF ReadRtc, AfterRead
<1> QED
  BY <1>1 DEF ReaderInv, LsInv, CatInv

\* dir_read with room for a whole name returns the length of the entry's name, which is
\* also how much of the entry's bytes the name is.
LEMMA NameRead ==
    ASSUME NEW p \in 0..(nent - 1)
    PROVE  /\ NameCount(dirs[p], NameLen) = Len(dirs[p].name)
           /\ Len(dirs[p].name) > 0
           /\ SubSeq(DentryBytes(dirs[p]), 1, Len(dirs[p].name)) = dirs[p].name
<1> DEFINE d == dirs[p]
           n == Len(d.name)
           k == NameLen - n
           S == STRING \cup {NUL, "ft"}
           pad == [j \in 1..k |-> NUL]
           ft == IF d.ft = 0 THEN NUL ELSE "ft"
<1>1. nent \in Nat /\ NameLen \in Nat \ {0}
  BY ReaderFacts, Zenon
<1>2. p \in 0..nent
  BY <1>1
<1>3. d \in Dentries /\ n \in 1..NameLen
  BY <1>2, ImageAssumption, Zenon
<1>4. d.name \in Seq(STRING) /\ n \in Nat /\ k \in Nat
  BY <1>1, <1>3 DEF Dentries
<1> HIDE DEF d, k
<1>5. NameCount(d, NameLen) = n /\ n > 0
  BY <1>1, <1>3, <1>4 DEF NameCount
<1>6. NUL \in S /\ ft \in S
  BY Zenon
<1>7. DentryBytes(d) = d.name \o pad \o <<ft>> \o <<NUL>>
  BY Zenon DEF DentryBytes, k
<1>8. d.name \in Seq(S)
  BY <1>4
<1> HIDE DEF S, ft
<1>9. pad \in Seq(S) /\ <<ft>> \in Seq(S) /\ <<NUL>> \in Seq(S)
  BY <1>4, <1>6
<1> HIDE DEF pad
<1>10. \A x, y \in Seq(S) : /\ x \o y \in Seq(S) /\ Len(x) <= Len(x \o y)
                            /\ \A j \in 1..Len(x) : (x \o y)[j] = x[j]
  OBVIOUS
<1> DEFINE u == d.name \o pad
           v == u \o <<ft>>
           w == v \o <<NUL>>
<1>11. /\ u \in Seq(S) /\ v \in Seq(S) /\ w \in Seq(S)
       /\ n <= Len(u) /\ Len(u) <= Len(v) /\ Len(v) <= Len(w)
       /\ \A j \in 1..n : u[j] = d.name[j]
       /\ \A j \in 1..Len(u) : v[j] = u[j]
       /\ \A j \in 1..Len(v) : w[j] = v[j]
  BY <1>8, <1>9, <1>10, Zenon
<1>12. w = DentryBytes(d)
  BY <1>7, Zenon
<1> HIDE DEF u, v, w
<1>13. n <= Len(w) /\ \A j \in 1..n : w[j] = d.name[j]
  <2>1. Len(u) \in Nat /\ Len(v) \in Nat /\ Len(w) \in Nat
    BY <1>11
  <2>2. n <= Len(u) /\ Len(u) <= Len(v) /\ Len(v) <= Len(w)
    BY <1>11, Zenon
  <2>3. \A j \in 1..n : j \in 1..Len(u) /\ j \in 1..Len(v)
    BY <1>4, <2>1, <2>2
  <2>4. n <= Len(w)
    BY <1>4, <2>1, <2>2
  <2> QED
    BY <1>11, <2>3, <2>4, Zenon
<1>14. SubSeq(w, 1, n) = d.name
  <2>1. /\ SubSeq(w, 1, n) \in Seq(S) /\ Len(SubSeq(w, 1, n)) = n
        /\ \A j \in 1..n : SubSeq(w, 1, n)[j] = w[j]
    <3>1. n \in Nat /\ n <= Len(w)
      BY <1>4, <1>13
    <3> HIDE DEF n
    <3> QED
      BY <1>11, <3>1, PrefixIs
  <2> QED
    BY <1>8, <1>13, <2>1, SameSequence
<1> QED
  BY <1>5, <1>12, <1>14, Zenon DEF d

\* The names up to the next one.
LEMMA OneMoreName ==
    ASSUME NEW p \in 0..(nent - 1)
    PROVE  Append(Listed(p), dirs[p].name) = Listed(p + 1)
<1>1. nent \in Nat /\ p \in Nat /\ p + 1 - 1 = p
  BY ReaderFacts
<1>2. Listed(p) = [k \in 1..p |-> dirs[k - 1].name] /\ Listed(p + 1) = [k \in 1..(p + 1) |-> dirs[k - 1].name]
  BY Zenon DEF Listed
<1>3. Append([k \in 1..p |-> dirs[k - 1].name], dirs[p].name)
      = [k \in 1..(p + 1) |-> IF k = p + 1 THEN dirs[p].name ELSE dirs[k - 1].name]
  BY <1>1
<1>4. \A k \in 1..(p + 1) : (IF k = p + 1 THEN dirs[p].name ELSE dirs[k - 1].name) = dirs[k - 1].name
  BY <1>1
<1> QED
  BY <1>2, <1>3, <1>4, Zenon

\* A machine word is what it was while it does not overflow.
LEMMA WordIs ==
    /\ \A x \in Int : U32(x) \in 0..(Modulus - 1)
    /\ \A x \in Nat : x < Modulus => U32(x) = x
    /\ \A x \in Nat : Modulus <= x /\ x < 2 * Modulus => U32(x) = x - Modulus
<1>1. Modulus \in Nat \ {0}
  BY ReaderFacts, Zenon
<1>2. \A x \in Int : U32(x) \in 0..(Modulus - 1)
  BY <1>1 DEF U32
<1>3. ASSUME NEW x \in Nat, x < Modulus PROVE U32(x) = x
  <2>1. x + 1 \in Nat /\ 0 * Modulus < x + 1 /\ x + 1 <= 0 * Modulus + Modulus /\ 0 \in Nat
    BY <1>1, <1>3
  <2>2. (x + 1 - 1) % Modulus = x + 1 - 1 - 0 * Modulus
    BY <1>1, <2>1, PlaceInBlock
  <2>3. x + 1 - 1 = x /\ x + 1 - 1 - 0 * Modulus = x
    BY <1>1
  <2> QED
    BY <2>2, <2>3, Zenon DEF U32
<1>4. ASSUME NEW x \in Nat, Modulus <= x, x < 2 * Modulus PROVE U32(x) = x - Modulus
  <2>1. x + 1 \in Nat /\ 1 * Modulus < x + 1 /\ x + 1 <= 1 * Modulus + Modulus /\ 1 \in Nat
    BY <1>1, <1>4
  <2>2. (x + 1 - 1) % Modulus = x + 1 - 1 - 1 * Modulus
    BY <1>1, <2>1, PlaceInBlock
  <2>3. x + 1 - 1 = x /\ x + 1 - 1 - 1 * Modulus = x - Modulus
    BY <1>1
  <2> QED
    BY <2>2, <2>3, Zenon DEF U32
<1> QED
  BY <1>2, <1>3, <1>4, Zenon

\* What follows from AfterRead without looking at the bytes.
LEMMA AfterReadIs ==
    ASSUME NEW r \in Int, r >= -1, NEW bytes, AfterRead(r, bytes), prog \in {"ls", "cat"}
    PROVE  /\ pc' \in {"done", "failed", "loop"}
           /\ pc' = "done" <=> r = 0
           /\ pc' = "loop" <=> r > 0
           /\ r <= 0 => out' = out
           /\ r > 0 /\ prog = "ls" => out' = Append(out, bytes)
           /\ r > 0 /\ prog = "cat" => out' = out \o bytes
  BY DEF AfterRead

\* The count dir_read returns.
LEMMA CountIs ==
    ASSUME NEW d \in Dentries, NEW n \in Int
    PROVE  NameCount(d, n) \in Nat
<1>1. Len(d.name) \in Nat /\ NameLen \in Nat
  BY ReaderFacts DEF Dentries
<1> QED
  BY <1>1 DEF NameCount

\* A read of the directory prints the next name, or ends ls at the empty one behind the
\* last.
LEMMA DirReads ==
    ASSUME ReaderInv, ReadDir
    PROVE  ReaderInv'
<1> DEFINE p == e.file_position
           r == dir_read(e, chunk)
           bytes == IF r.ret > 0 THEN SubSeq(DentryBytes(dirs[p]), 1, r.ret) ELSE <<>>
<1>1. /\ pc = "loop" /\ e.f_op = "dir" /\ e' = [e EXCEPT !.file_position = r.pos]
      /\ AfterRead(r.ret, bytes) /\ UNCHANGED <<prog, arg, chunk>>
  BY Zenon DEF ReadDir
<1>2. /\ nent \in Nat /\ NameLen \in Nat \ {0} /\ Modulus \in Nat \ {0} /\ nent + 1 < Modulus
  BY ReaderFacts, Zenon
<1>3. e \in Descriptors /\ p \in Nat /\ prog \in {"ls", "cat"} /\ chunk \in Int
  <2>1. prog \in {"ls", "cat"} /\ e \in Descriptors
    BY <1>1 DEF ReaderInv
  <2>2. chunk \in Int
    BY <1>2, <2>1 DEF ReaderInv, LsInv, CatInv
  <2> QED
    BY <2>1, <2>2 DEF Descriptors
<1>4. r.ret \in Int /\ r.ret >= -1 /\ r.pos \in Nat
  <2>1. CASE IndexReadable(p)
    <3>1. r = [ret |-> NameCount(dirs[p], chunk), pos |-> U32(p + 1)]
      BY <2>1, Zenon DEF dir_read
    <3>2. p \in 0..nent
      BY <1>2, <1>3, <2>1 DEF IndexReadable
    <3>3. dirs[p] \in Dentries
      BY <3>2, ImageAssumption, Zenon
    <3>4. NameCount(dirs[p], chunk) \in Nat
      BY <1>3, <3>3, CountIs, Zenon
    <3>5. U32(p + 1) \in Nat
      BY <1>2, <1>3, WordIs
    <3> QED
      BY <3>1, <3>4, <3>5
  <2>2. CASE ~IndexReadable(p)
    <3>1. r = [ret |-> -1, pos |-> p]
      BY <2>2, Zenon DEF dir_read
    <3> QED
      BY <1>3, <3>1
  <2> QED
    BY <2>1, <2>2
<1> DEFINE count == r.ret
           pos == r.pos
<1> HIDE DEF bytes
<1>5. /\ pc' \in {"done", "failed", "loop"}
      /\ pc' = "done" <=> count = 0
      /\ pc' = "loop" <=> count > 0
      /\ count <= 0 => out' = out
      /\ count > 0 /\ prog = "ls" => out' = Append(out, bytes)
  BY <1>1, <1>3, <1>4, AfterReadIs, Zenon
<1>6. e' \in Descriptors /\ e'.f_op = "dir" /\ e'.file_position = pos
  <2> HIDE DEF r
  <2> QED
    BY <1>1, <1>3, <1>4 DEF Descriptors
<1>7. prog = "cat" => CatInv'
  BY <1>1, <1>5, <1>6 DEF ReaderInv, CatInv
<1>8. ASSUME prog = "ls" PROVE LsInv'
  <2>1. arg = Dot /\ chunk = NameLen /\ p \in 0..nent /\ out = Listed(p)
    BY <1>1, <1>8, Zenon DEF ReaderInv, LsInv
  <2>2. IndexReadable(p)
    BY <1>2, <2>1 DEF IndexReadable
  <2>3. count = NameCount(dirs[p], NameLen) /\ pos = U32(p + 1)
    BY <2>1, <2>2, Zenon DEF dir_read
  <2>4. pos = p + 1
    BY <1>2, <2>1, <2>3, WordIs
  <2>5. CASE p # nent
    <3>1. p \in 0..(nent - 1) /\ p + 1 \in 0..nent
      BY <1>2, <2>1, <2>5
    <3>2. /\ NameCount(dirs[p], NameLen) = Len(dirs[p].name) /\ Len(dirs[p].name) > 0
          /\ SubSeq(DentryBytes(dirs[p]), 1, Len(dirs[p].name)) = dirs[p].name
      BY <3>1, NameRead, Zenon
    <3>3. count > 0 /\ bytes = dirs[p].name
      BY <2>3, <3>2, Zenon DEF bytes
    <3>4. out' = Listed(p + 1)
      BY <1>5, <1>8, <2>1, <3>1, <3>3, OneMoreName, Zenon
    <3>5. pc' = "loop"
      BY <1>5, <3>3, Zenon
    <3>6. pc' # "open" /\ pc' # "done"
      BY <3>5
    <3> QED
      BY <1>1, <1>6, <2>1, <2>4, <3>1, <3>4, <3>6, Zenon DEF LsInv
  <2>6. CASE p = nent
    <3>1. dirs[p].name = <<>>
      <4>1. dirs[nent] = [name |-> <<>>, ft |-> FtRtc, ind |-> 0]
        BY ImageAssumption, Zenon
      <4> QED
        BY <2>6, <4>1
    <3>2. NameCount(dirs[p], NameLen) = 0
      <4>1. Len(dirs[p].name) = 0
        BY <3>1
      <4> QED
        BY <1>2, <4>1 DEF NameCount
    <3>3. count = 0 /\ pc' = "done" /\ out' = out
      BY <1>5, <2>3, <3>2
    <3>4. pc' # "open" /\ pc' # "loop"
      BY <3>3
    <3> QED
      BY <1>1, <2>1, <2>6, <3>3, <3>4, Zenon DEF LsInv
  <2> QED
    BY <2>5, <2>6
<1> QED
  BY <1>1, <1>3, <1>6, <1>7, <1>8, Zenon DEF ReaderInv

\* Bytes copied from a place on, behind the ones copied up to it.
LEMMA CopiedOn ==
    ASSUME NEW nd, NEW p \in Nat, NEW n \in Nat
    PROVE  Copied(nd, 0, p) \o Copied(nd, p, n) = Copied(nd, 0, p + n)
<1> DEFINE a == [k \in 1..p |-> ByteAt(nd, 0 + k - 1)]
           b == [k \in 1..n |-> ByteAt(nd, p + k - 1)]
<1>1. a \o b = [k \in 1..(p + n) |-> IF k <= p THEN a[k] ELSE b[k - p]]
  OBVIOUS
<1>2. ASSUME NEW k \in 1..(p + n) PROVE (IF k <= p THEN a[k] ELSE b[k - p]) = ByteAt(nd, 0 + k - 1)
  <2>1. CASE k <= p
    <3>1. k \in 1..p
      BY <2>1
    <3> QED
      BY <2>1, <3>1, Zenon
  <2>2. CASE ~(k <= p)
    <3>1. k - p \in 1..n /\ p + (k - p) - 1 = 0 + k - 1
      BY <2>2
    <3> QED
      BY <2>2, <3>1, Zenon
  <2> QED
    BY <2>1, <2>2
<1> HIDE DEF a, b
<1>3. a \o b = [k \in 1..(p + n) |-> ByteAt(nd, 0 + k - 1)]
  BY <1>1, <1>2, Zenon
<1> QED
  BY <1>3, Zenon DEF Copied, a, b

\* The length read_data settles on, unless the copy runs out of the user page: it stays
\* inside the file, and is 0 at the end of the file only.
LEMMA ClippedIs ==
    ASSUME NEW nd \in 0..(nnod - 1), NEW off \in 0..inodes[nd].len,
           NEW u \in 0..(Modulus - 1), u # 0, ClippedLen(nd, off, u) <= UserRoom
    PROVE  /\ ClippedLen(nd, off, u) \in 0..(inodes[nd].len - off)
           /\ ClippedLen(nd, off, u) = 0 => off = inodes[nd].len
<1> DEFINE len == inodes[nd].len
           c0 == ClippedLen(nd, off, u)
<1>1. Modulus \in Nat \ {0} /\ UserRoom \in Nat /\ 2 * UserRoom < Modulus
  BY ReaderFacts, Zenon
<1>2. len \in Nat /\ len < Modulus /\ len <= UserRoom
  BY <1>1, ReaderInodes
<1>3. c0 = IF len < U32(u + off) THEN U32(len - off) ELSE u
  BY Zenon DEF ClippedLen
<1>4. off \in 0..len /\ c0 <= UserRoom
  OBVIOUS
<1> HIDE DEF len, c0
<1>5. off \in Nat /\ u \in Nat /\ off <= len /\ u < Modulus /\ u > 0 /\ len - off \in Nat
      /\ len - off < Modulus /\ u + off \in Nat /\ u + off < 2 * Modulus
  BY <1>1, <1>2, <1>4
<1>6. U32(len - off) = len - off
  BY <1>5, WordIs, Zenon
<1>7. CASE u + off < Modulus
  <2>1. U32(u + off) = u + off
    BY <1>5, <1>7, WordIs, Zenon
  <2>2. c0 = IF len < u + off THEN len - off ELSE u
    BY <1>3, <1>6, <2>1, Zenon
  <2>3. c0 \in 0..(len - off) /\ (c0 = 0 => off = len)
    BY <1>2, <1>5, <2>2
  <2> QED
    BY <2>3, Zenon DEF c0, len
<1>8. CASE ~(u + off < Modulus)
  <2>1. U32(u + off) = u + off - Modulus
    <3>1. Modulus <= u + off
      BY <1>1, <1>5, <1>8
    <3>2. PICK x \in Nat : x = u + off /\ Modulus <= x /\ x < 2 * Modulus
      BY <1>5, <3>1
    <3>3. U32(x) = x - Modulus
      <4>1. \A y \in Nat : Modulus <= y /\ y < 2 * Modulus => U32(y) = y - Modulus
        BY WordIs, Zenon
      <4> QED
        BY <3>2, <4>1, Zenon
    <3>4. U32(u + off) = U32(x)
      BY <3>2, Zenon
    <3>5. u + off - Modulus = x - Modulus
      BY <1>1, <1>5, <3>2
    <3> QED
      BY <3>3, <3>4, <3>5, Zenon
  <2>2. ~(len < u + off - Modulus)
    BY <1>1, <1>2, <1>5
  <2>3. c0 = u
    BY <1>3, <2>1, <2>2, Zenon
  <2> QED
    BY <1>1, <1>2, <1>4, <1>5, <1>8, <2>3
<1> QED
  BY <1>7, <1>8

\* A read of a file prints the bytes from the position on.
LEMMA FileReads ==
    ASSUME ReaderInv, ReadFile
    PROVE  ReaderInv'
<1> DEFINE p == e.file_position
           nd == e.inode
           r == file_read(e, chunk)
           bytes == IF r.ret > 0 THEN Copied(nd, p, r.ret) ELSE <<>>
<1>1. /\ pc = "loop" /\ e.f_op = "file" /\ UNCHANGED <<prog, arg, chunk>>
  BY DEF ReadFile
<1>2. prog = "cat"
  BY <1>1 DEF ReaderInv, LsInv
<1>3. /\ e \in Descriptors /\ chunk \in Int /\ U32(chunk) # 0
      /\ nd \in 0..(nnod - 1) /\ p \in 0..inodes[nd].len /\ out = Copied(nd, 0, p)
  BY <1>1, <1>2, Zenon DEF ReaderInv, CatInv
<1>4. nd \in Nat /\ ~(nd >= nnod) /\ p \in Nat /\ inodes[nd].len \in Nat /\ inodes[nd].len < Modulus
  BY <1>3, ReaderFacts, ReaderInodes
<1> DEFINE n == ClippedLen(nd, p, U32(chunk))
<1>5. r = [ret |-> n, pos |-> U32(p + n)]
  BY <1>4, Zenon DEF file_read
<1>6. r.ret = n /\ r.pos = U32(p + n)
  <2> HIDE DEF r, n
  <2> QED
    BY <1>5
<1>7. CASE n > UserRoom
  <2>1. pc' = "spin" /\ UNCHANGED <<e, out>>
    BY <1>6, <1>7, Zenon DEF ReadFile
  <2> QED
    BY <1>1, <1>2, <2>1 DEF ReaderInv, LsInv, CatInv
<1>8. CASE ~(n > UserRoom)
  <2>1. e' = [e EXCEPT !.file_position = r.pos] /\ AfterRead(n, bytes)
    BY <1>6, <1>8, Zenon DEF ReadFile
  <2>2. n <= UserRoom
    <3>1. n \in Int /\ UserRoom \in Int
      <4>1. U32(chunk) \in 0..(Modulus - 1) /\ U32(inodes[nd].len - p) \in 0..(Modulus - 1)
        BY <1>3, <1>4, WordIs
      <4> QED
        BY <4>1, ReaderFacts DEF ClippedLen
    <3> HIDE DEF n
    <3> QED
      BY <1>8, <3>1
  <2>3. n \in 0..(inodes[nd].len - p) /\ (n = 0 => p = inodes[nd].len)
    <3>1. PICK u \in 0..(Modulus - 1) : u = U32(chunk) /\ u # 0
      BY <1>3, WordIs, Zenon
    <3>2. ClippedLen(nd, p, u) <= UserRoom
      BY <2>2, <3>1, Zenon
    <3> HIDE DEF nd, p
    <3>3. /\ ClippedLen(nd, p, u) \in 0..(inodes[nd].len - p)
          /\ ClippedLen(nd, p, u) = 0 => p = inodes[nd].len
      BY <1>3, <3>1, <3>2, ClippedIs, Zenon
    <3> QED
      BY <3>1, <3>3, Zenon
  <2> HIDE DEF n, r
  <2>4. n \in Nat /\ p + n \in Nat /\ p + n \in 0..inodes[nd].len /\ p + n < Modulus /\ n \in Int /\ n >= -1
    <3>1. Modulus \in Nat
      BY ReaderFacts
    <3>2. PICK l \in Nat : l = inodes[nd].len /\ l < Modulus
      BY <1>4
    <3> QED
      BY <1>3, <1>4, <2>3, <3>1, <3>2
  <2>5. r.pos = p + n
    BY <1>6, <2>4, WordIs, Zenon
  <2>6. e' \in Descriptors /\ e'.f_op = "file" /\ e'.inode = nd /\ e'.file_position = p + n
    BY <1>1, <1>3, <2>1, <2>4, <2>5 DEF Descriptors
  <2>7. /\ pc' \in {"done", "failed", "loop"}
        /\ pc' = "done" <=> n = 0
        /\ n <= 0 => out' = out
        /\ n > 0 => out' = out \o bytes
    <3>1. prog \in {"ls", "cat"}
      BY <1>2
    <3> HIDE DEF bytes
    <3> QED
      BY <1>2, <2>1, <2>4, <3>1, AfterReadIs, Zenon
  <2>8. out' = Copied(nd, 0, p + n)
    <3>1. CASE n > 0
      <4>1. bytes = Copied(nd, p, n)
        BY <1>6, <3>1, Zenon
      <4> HIDE DEF bytes, nd, p
      <4>2. out' = Copied(nd, 0, p) \o Copied(nd, p, n)
        BY <1>3, <2>7, <3>1, <4>1, Zenon
      <4> QED
        BY <1>4, <2>4, <4>2, CopiedOn, Zenon
    <3>2. CASE ~(n > 0)
      <4>1. n <= 0 /\ p + n = p
        BY <1>4, <2>4, <3>2
      <4> QED
        BY <1>3, <2>7, <4>1, Zenon
    <3> QED
      BY <3>1, <3>2
  <2>9. pc' = "done" => p + n = inodes[nd].len
    BY <1>4, <2>3, <2>4, <2>7
  <2>10. pc' # "open" /\ (pc' = "loop" => prog' = "cat")
    BY <1>1, <1>2, <2>7
  <2>11. CatInv'
    BY <1>1, <1>3, <2>4, <2>6, <2>8, <2>9, <2>10, Zenon DEF CatInv
  <2> QED
    BY <1>1, <1>2, <2>6, <2>11 DEF ReaderInv
<1> QED
  BY <1>7, <1>8

\* Every step keeps the invariant.
LEMMA ReaderStep == ReaderInv /\ [ProgramsNext]_allVars => ReaderInv'
<1> SUFFICES ASSUME ReaderInv, [ProgramsNext]_allVars PROVE ReaderInv'
  OBVIOUS
<1>1. CASE UNCHANGED readerVars
  BY <1>1, QuietReader, Zenon
<1>2. CASE Next
  BY <1>2, OpenReads, RtcReads, DirReads, FileReads, Zenon DEF Next
<1> QED
  BY <1>1, <1>2, Zenon DEF ProgramsNext, allVars

\* What cat has printed is the bytes of the file up to the position, that is, as much of
\* the content.
LEMMA ReaderInvImplies == ReaderInv => CatPrintsPrefix /\ CatPrintsWholeFile /\ LsPrintsAll
<1> SUFFICES ASSUME ReaderInv PROVE CatPrintsPrefix /\ CatPrintsWholeFile /\ LsPrintsAll
  OBVIOUS
<1>1. LsPrintsAll
  BY Zenon DEF LsPrintsAll, ReaderInv, LsInv, Listed
<1>2. ASSUME prog = "cat", e.f_op = "file"
      PROVE  /\ out = SubSeq(Content(e.inode), 1, e.file_position)
             /\ pc = "done" => out = Content(e.inode)
  <2> DEFINE nd == e.inode
             p == e.file_position
             len == inodes[nd].len
             all == [k \in 1..len |-> ByteAt(nd, 0 + k - 1)]
  <2>1. /\ nd \in 0..(nnod - 1) /\ p \in 0..len /\ out = Copied(nd, 0, p)
        /\ pc = "done" => p = len
    BY <1>2, Zenon DEF ReaderInv, CatInv
  <2>2. len \in Nat /\ Content(nd) = Copied(nd, 0, len)
    BY <2>1, ContentIs, Zenon
  <2>3. SubSeq(all, 1, p) = [k \in 1..p |-> ByteAt(nd, 0 + k - 1)]
    <3>1. p \in Nat /\ p <= len
      BY <2>1, <2>2
    <3> HIDE DEF len, p, nd
    <3>2. SubSeq(all, 1, p) = [k \in 1..p |-> all[k]]
      BY <2>2, <3>1
    <3>3. \A k \in 1..p : k \in 1..len
      BY <2>2, <3>1
    <3>4. \A k \in 1..p : all[k] = ByteAt(nd, 0 + k - 1)
      BY <3>3, Zenon
    <3> QED
      BY <3>2, <3>4, Zenon
  <2> QED
    BY <2>1, <2>2, <2>3, Zenon DEF Copied
<1> QED
  BY <1>1, <1>2, Zenon DEF CatPrintsPrefix, CatPrintsWholeFile

\* Whatever the image, the size of its blocks and the size cat reads with, and however the
\* reads fall on the block boundaries: what cat has printed of a file is the beginning of
\* the file, as long as file_read has moved the descriptor's position.
THEOREM CatPrintsPrefixAlways == ProgramsSpec => []CatPrintsPrefix
<1>1. ProgramsInit => ReaderInv
  BY ReaderInitInv
<1>2. ReaderInv /\ [ProgramsNext]_allVars => ReaderInv'
  BY ReaderStep
<1>3. ReaderInv => CatPrintsPrefix
  BY ReaderInvImplies
<1> QED
  BY <1>1, <1>2, <1>3, PTL DEF ProgramsSpec

\* cat takes a count of 0 for the end of the file; read_data returns it there only, so cat
\* never stops before.
THEOREM CatPrintsWholeFileAlways == ProgramsSpec => []CatPrintsWholeFile
<1>1. ProgramsInit => ReaderInv
  BY ReaderInitInv
<1>2. ReaderInv /\ [ProgramsNext]_allVars => ReaderInv'
  BY ReaderStep
<1>3. ReaderInv => CatPrintsWholeFile
  BY ReaderInvImplies
<1> QED
  BY <1>1, <1>2, <1>3, PTL DEF ProgramsSpec

\* Whatever the directory, names of the full width included, ls prints every entry once
\* and in order before dir_read returns the 0 it stops at.
THEOREM LsPrintsAllAlways == ProgramsSpec => []LsPrintsAll
<1>1. ProgramsInit => ReaderInv
  BY ReaderInitInv
<1>2. ReaderInv /\ [ProgramsNext]_allVars => ReaderInv'
  BY ReaderStep
<1>3. ReaderInv => LsPrintsAll
  BY ReaderInvImplies
<1> QED
  BY <1>1, <1>2, <1>3, PTL DEF ProgramsSpec
===============================================================================
