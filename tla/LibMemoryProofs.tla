--------------------------- MODULE LibMemoryProofs ---------------------------
(***************************************************************************)
(* For every size of memory, every block and every sequence of calls: the  *)
(* memory routines of lib.c write what their arguments say.  The argument  *)
(* follows the registers: how much is written so far, how much is left,    *)
(* and that what is read next has not been written yet.                    *)
(***************************************************************************)
EXTENDS LibMemory, TLAPS

ByteWise == {"memset", "memcpy"}

\* memmove copies from its end when the source lies below.
Backward == fn = "memmove" /\ src < dest

\* memcpy is not asked to copy into the middle of its own source.
Defined == ~(fn = "memcpy" /\ dest \in (src + 1)..(src + n - 1))

\* The bytes still to be written.
Left == IF at \in {"top", "aligned"} THEN ecx
        ELSE IF at = "bottom" THEN edx ELSE Width(fn) * ecx + edx

CallInv ==
    /\ fn \in Routines \cup {"none"} /\ df \in BOOLEAN
    /\ fn = "none" => at = "done" /\ memory = [a \in Addresses |-> Old(a)]
    /\ fn # "none" =>
        /\ n \in Nat /\ dest \in Nat /\ src \in Nat /\ End <= Size
        /\ fn \in Copies => src + n <= Size
        /\ at \in IF fn \in ByteWise THEN {"top", "aligned", "rep", "bottom", "done"}
                  ELSE {"start", "rep", "done"}
        /\ edi \in Int /\ esi \in Int /\ ecx \in Nat /\ edx \in Nat
        /\ at = "rep" => df = Backward

\* Before the registers are set up nothing is written.
StartInv ==
    at = "start" => /\ edi = dest /\ esi = src /\ ecx = n /\ edx = 0
                    /\ \A a \in Addresses : memory[a] = Old(a)

\* Forward, the bytes below edi are written and the source keeps pace.
ForwardInv ==
    at \in {"top", "aligned", "rep", "bottom"} /\ ~Backward =>
        /\ dest <= edi /\ edi + Left = End
        /\ fn \in Copies => esi - src = edi - dest
        /\ fn \notin ByteWise => edx = 0 /\ (edi - dest) % Width(fn) = 0
        /\ \A a \in Addresses :
              memory[a] = IF a \in dest..(edi - 1) THEN Wanted(a) ELSE Old(a)

\* Backward, the bytes above edi are.
BackwardInv ==
    at = "rep" /\ Backward =>
        /\ edi = dest + ecx - 1 /\ esi = src + ecx - 1 /\ ecx <= n
        /\ \A a \in Addresses :
              memory[a] = IF a \in (edi + 1)..(End - 1) THEN Wanted(a) ELSE Old(a)

MemInv ==
    /\ CallInv
    /\ fn # "none" /\ Defined =>
        /\ StartInv /\ ForwardInv /\ BackwardInv
        /\ at = "done" => \A a \in Addresses : memory[a] = Wanted(a)

-------------------------------------------------------------------------------
LEMMA Units ==
    /\ fn \in ByteWise => Unit(fn) = 1 /\ Width(fn) = 4
    /\ fn = "memmove" => Unit(fn) = 1 /\ Width(fn) = 1
    /\ fn = "memset_word" => Unit(fn) = 2 /\ Width(fn) = 2
    /\ fn = "memset_dword" => Unit(fn) = 4 /\ Width(fn) = 4
BY DEF Unit, Width, ByteWise

\* The arguments bound the blocks.
LEMMA Blocks ==
    ASSUME CallInv, fn # "none"
    PROVE  /\ Size \in Nat /\ End \in Nat /\ dest <= End /\ End <= Size
           /\ Unit(fn) \in {1, 2, 4} /\ Width(fn) \in {1, 2, 4}
           /\ fn \in Copies => End = dest + n
<1>1. n \in Nat /\ dest \in Nat /\ End <= Size /\ Size \in Nat
  BY SizeAssumption DEF CallInv
<1>2. fn \in Routines BY DEF CallInv
<1>3. Unit(fn) \in {1, 2, 4} /\ Width(fn) \in {1, 2, 4} /\ (fn \in Copies => Unit(fn) = 1)
  BY <1>2, Units DEF Routines, ByteWise, Copies
<1>4. CASE Unit(fn) = 1 BY <1>1, <1>3, <1>4 DEF End
<1>5. CASE Unit(fn) = 2 BY <1>1, <1>3, <1>5 DEF End
<1>6. CASE Unit(fn) = 4 BY <1>1, <1>3, <1>6 DEF End
<1> QED BY <1>3, <1>4, <1>5, <1>6

\* What a byte of the destination is to hold.
LEMMA WantedIs ==
    ASSUME CallInv, fn # "none", NEW a \in dest..(End - 1)
    PROVE  /\ fn \in Copies => Wanted(a) = Old(a - dest + src)
           /\ fn = "memset" => Wanted(a) = New("c0")
           /\ fn = "memset_word" => Wanted(a) = New(IF (a - dest) % 2 = 0 THEN "c0" ELSE "c1")
           /\ fn = "memset_dword" =>
                 Wanted(a) = New(<<"c0", "c1", "c2", "c3">>[((a - dest) % 4) + 1])
BY DEF Wanted, Copies

LEMMA WantedOutside ==
    ASSUME NEW a \in Int, a \notin dest..(End - 1)
    PROVE  Wanted(a) = Old(a)
BY Zenon DEF Wanted

\* w more bytes are written and their source was still as it had been.
LEMMA StoreForward ==
    ASSUME CallInv, fn # "none", Defined, ~Backward, NEW w \in 1..4,
           dest <= edi, edi + w <= End,
           fn \in Copies => esi - src = edi - dest,
           \A a \in Addresses : memory[a] = IF a \in dest..(edi - 1) THEN Wanted(a) ELSE Old(a),
           fn \notin Copies =>
              \A a \in edi..(edi + w - 1) : Wanted(a) = New(eax(fn)[a - edi + 1]),
           Store(w)
    PROVE  \A a \in Addresses :
              memory'[a] = IF a \in dest..(edi + w - 1) THEN Wanted(a) ELSE Old(a)
<1>1. /\ n \in Nat /\ dest \in Nat /\ src \in Nat /\ edi \in Int /\ esi \in Int
      /\ Size \in Nat /\ End \in Nat /\ End <= Size /\ (fn \in Copies => src + n <= Size)
      /\ (fn \in Copies => End = dest + n)
  BY Blocks DEF CallInv
<1> SUFFICES ASSUME NEW a \in Addresses
             PROVE  memory'[a] = IF a \in dest..(edi + w - 1) THEN Wanted(a) ELSE Old(a)
  OBVIOUS
<1>2. a \in 0..(Size - 1) BY DEF Addresses
<1>3. CASE a \notin edi..(edi + w - 1)
  <2>1. memory'[a] = memory[a] BY <1>3 DEF Store
  <2>2. a \in dest..(edi + w - 1) <=> a \in dest..(edi - 1) BY <1>1, <1>2, <1>3
  <2> QED BY <2>1, <2>2
<1>4. CASE a \in edi..(edi + w - 1)
  <2>1. a \in dest..(End - 1) /\ a \in dest..(edi + w - 1) BY <1>1, <1>2, <1>4
  <2>2. CASE fn \notin Copies
    <3>1. memory'[a] = New(eax(fn)[a - edi + 1]) BY <1>4, <2>2 DEF Store
    <3> QED BY <1>4, <2>1, <2>2, <3>1
  <2>3. CASE fn \in Copies
    <3> DEFINE from == esi + a - edi
    <3>1. from = a - dest + src /\ from \in src..(src + n - 1) /\ from \in Addresses
      BY <1>1, <1>2, <2>1, <2>3 DEF Addresses
    <3>2. memory'[a] = memory[from] BY <1>4, <2>3, <3>1 DEF Store
    <3>3. src >= dest \/ dest >= src + n
      <4>1. CASE fn = "memmove" BY <1>1, <4>1 DEF Backward
      <4>2. CASE fn = "memcpy" BY <1>1, <4>2 DEF Defined
      <4> QED BY <2>3, <4>1, <4>2 DEF Copies
    <3>4. from \notin dest..(edi - 1) BY <1>1, <1>2, <1>4, <2>3, <3>1, <3>3
    <3>5. memory[from] = Old(from) BY <3>1, <3>4
    <3>6. Wanted(a) = Old(from) BY <2>1, <2>3, <3>1, WantedIs
    <3> QED BY <2>1, <3>2, <3>5, <3>6
  <2> QED BY <2>2, <2>3
<1> QED BY <1>3, <1>4

\* One byte more from the end, read below what is written.
LEMMA StoreBackward ==
    ASSUME CallInv, Backward, ecx > 0, ecx <= n,
           edi = dest + ecx - 1, esi = src + ecx - 1,
           \A a \in Addresses :
              memory[a] = IF a \in (edi + 1)..(End - 1) THEN Wanted(a) ELSE Old(a),
           Store(1)
    PROVE  \A a \in Addresses :
              memory'[a] = IF a \in edi..(End - 1) THEN Wanted(a) ELSE Old(a)
<1>0. fn = "memmove" /\ fn # "none" /\ fn \in Copies /\ src < dest BY DEF Backward, Copies
<1>1. /\ n \in Nat /\ dest \in Nat /\ src \in Nat /\ ecx \in Nat
      /\ Size \in Nat /\ End \in Nat /\ End <= Size /\ End = dest + n
  BY <1>0, Blocks, Zenon DEF CallInv
<1> SUFFICES ASSUME NEW a \in Addresses
             PROVE  memory'[a] = IF a \in edi..(End - 1) THEN Wanted(a) ELSE Old(a)
  OBVIOUS
<1>2. a \in 0..(Size - 1) BY DEF Addresses
<1>3. CASE a # edi
  <2>1. memory'[a] = memory[a] BY <1>1, <1>2, <1>3 DEF Store
  <2>2. a \in edi..(End - 1) <=> a \in (edi + 1)..(End - 1) BY <1>1, <1>2, <1>3
  <2> QED BY <2>1, <2>2
<1>4. CASE a = edi
  <2>1. esi \in Addresses /\ esi + a - edi = esi /\ esi \notin (edi + 1)..(End - 1)
    BY <1>0, <1>1, <1>4 DEF Addresses
  <2>2. a \in edi..(edi + 1 - 1) BY <1>1, <1>4
  <2>3. memory'[a] = memory[esi] BY <1>0, <2>1, <2>2 DEF Store
  <2>4. memory[esi] = Old(esi) BY <2>1
  <2>5. a \in dest..(End - 1) /\ a - dest + src = esi /\ a \in edi..(End - 1)
    BY <1>1, <1>4
  <2>6. Wanted(a) = Old(esi) BY <1>0, <2>5, WantedIs
  <2> QED BY <2>3, <2>4, <2>5, <2>6
<1> QED BY <1>3, <1>4

-------------------------------------------------------------------------------
\* When all is written up to the end, memory is as wanted.
LEMMA WrittenIsWanted ==
    ASSUME CallInv, fn # "none", NEW e \in Int, e = End,
           \A a \in Addresses : memory[a] = IF a \in dest..(e - 1) THEN Wanted(a) ELSE Old(a)
    PROVE  \A a \in Addresses : memory[a] = Wanted(a)
<1> SUFFICES ASSUME NEW a \in Addresses PROVE memory[a] = Wanted(a) OBVIOUS
<1>1. a \in Int BY SizeAssumption DEF Addresses
<1>2. CASE a \in dest..(e - 1) BY <1>2
<1>3. CASE a \notin dest..(e - 1)
  <2>1. Wanted(a) = Old(a) BY <1>1, <1>3, WantedOutside
  <2> QED BY <1>3, <2>1
<1> QED BY <1>2, <1>3

\* The arguments, and what follows from them, stay through a call.
LEMMA ArgumentsKept ==
    ASSUME UNCHANGED args
    PROVE  /\ UNCHANGED <<fn, dest, src, n>> /\ End' = End
           /\ Backward' = Backward /\ Defined' = Defined
           /\ \A a : Wanted(a)' = Wanted(a)
BY DEF args, End, Backward, Defined, Wanted

\* Arithmetic of block lengths and of the places a block may begin.
LEMMA Scaled ==
    ASSUME NEW x \in Nat, NEW u \in {1, 2, 4}
    PROVE  x * u \in Nat /\ (u = 1 => x * u = x)
OBVIOUS

LEMMA Fits ==
    ASSUME NEW x \in Nat, NEW s \in Nat, NEW y \in 0..(s - x)
    PROVE  y \in Nat /\ y + x <= s
OBVIOUS

LEMMA EnterInv ==
    ASSUME MemInv, Enter
    PROVE  MemInv'
<1>1. /\ fn' \in Routines /\ n' \in 0..Size /\ n' * Unit(fn') <= Size
      /\ dest' \in 0..(Size - n' * Unit(fn'))
      /\ src' \in IF fn' \in Copies THEN 0..(Size - n') ELSE {0}
      /\ at' = IF fn' \in ByteWise THEN "top" ELSE "start"
      /\ edi' = dest' /\ esi' = src' /\ ecx' = n' /\ edx' = 0
      /\ df' = df /\ memory' = memory
  BY DEF Enter, ByteWise
<1>2. fn' # "none" BY <1>1 DEF Routines
<1>3. df \in BOOLEAN /\ \A a \in Addresses : memory[a] = Old(a)
  BY DEF Enter, MemInv, CallInv
<1>4. /\ Size \in Nat /\ Unit(fn') \in {1, 2, 4} /\ (fn' \in Copies \cup ByteWise => Unit(fn') = 1)
  BY <1>1, SizeAssumption DEF Routines, Copies, ByteWise, Unit
<1>5. n' \in Nat /\ n' <= Size BY <1>1, <1>4
<1> DEFINE bytes == n' * Unit(fn')
<1>6. /\ n' \in Nat /\ dest' \in Nat /\ End' = dest' + bytes /\ End' <= Size
      /\ (fn' \in ByteWise => End' = dest' + n')
  <2>1. bytes \in Nat /\ (Unit(fn') = 1 => bytes = n') BY <1>4, <1>5, Scaled
  <2>2. dest' \in 0..(Size - bytes) /\ End' = dest' + bytes BY <1>1 DEF End
  <2> HIDE DEF bytes
  <2>3. dest' \in Nat /\ dest' + bytes <= Size BY <1>4, <2>1, <2>2, Fits, Zenon
  <2> QED BY <1>4, <1>5, <2>1, <2>2, <2>3, Zenon
<1>7. src' \in Nat /\ (fn' \in Copies => src' + n' <= Size)
  <2>1. CASE fn' \in Copies
    <3>1. src' \in 0..(Size - n') BY <1>1, <2>1
    <3> QED BY <1>4, <1>5, <3>1, Fits, Zenon
  <2>2. CASE fn' \notin Copies BY <1>1, <2>2
  <2> QED BY <2>1, <2>2
<1> HIDE DEF bytes
<1>8. CallInv' BY <1>1, <1>2, <1>3, <1>6, <1>7 DEF CallInv
<1>9. StartInv' BY <1>1, <1>3 DEF StartInv
<1>10. ForwardInv'
  <2>1. SUFFICES ASSUME at' = "top" PROVE ForwardInv' BY <1>1 DEF ForwardInv
  <2>2. fn' \in ByteWise BY <1>1, <2>1
  <2>3. Left' = n' BY <1>1, <2>1 DEF Left
  <2>4. dest' <= edi' /\ edi' + Left' = End' BY <1>1, <1>6, <2>2, <2>3
  <2>5. esi' - src' = edi' - dest' BY <1>1, <1>6, <1>7
  <2>6. \A a : a \notin dest'..(edi' - 1) BY <1>1, <1>6
  <2> QED BY <1>1, <1>3, <2>2, <2>4, <2>5, <2>6 DEF ForwardInv
<1>11. BackwardInv' BY <1>1 DEF BackwardInv
<1> QED BY <1>1, <1>8, <1>9, <1>10, <1>11 DEF MemInv

\* A single byte in the loops before and after the words.
LEMMA ByteStep ==
    ASSUME CallInv, fn \in ByteWise, Defined, ForwardInv, at \in {"top", "bottom"},
           Left > 0, Byte, UNCHANGED args
    PROVE  /\ edi' = edi + 1 /\ edi' \in Int /\ dest <= edi' /\ edi' + (Left - 1) = End
           /\ esi' \in Int /\ (fn \in Copies => esi' - src = edi' - dest)
           /\ \A a \in Addresses :
                 memory'[a] = IF a \in dest..(edi' - 1) THEN Wanted(a) ELSE Old(a)
<1>0. ~Backward /\ fn # "none" /\ (fn \notin Copies => fn = "memset")
  BY DEF Backward, ByteWise, Copies
<1>1. /\ dest \in Nat /\ src \in Nat /\ edi \in Int /\ esi \in Int /\ ecx \in Nat /\ edx \in Nat
      /\ End \in Nat
  BY <1>0, Blocks DEF CallInv
<1>2. /\ dest <= edi /\ edi + Left = End
      /\ fn \in Copies => esi - src = edi - dest
      /\ \A a \in Addresses : memory[a] = IF a \in dest..(edi - 1) THEN Wanted(a) ELSE Old(a)
  BY <1>0 DEF ForwardInv
<1>3. Left \in Nat BY <1>1 DEF Left
<1>4. Store(1) /\ edi' = edi + 1 /\ esi' = IF fn \in Copies THEN esi + 1 ELSE esi
  BY DEF Byte
<1>5. edi + 1 <= End BY <1>1, <1>2, <1>3
<1>6. fn \notin Copies => \A a \in edi..(edi + 1 - 1) : Wanted(a) = New(eax(fn)[a - edi + 1])
  <2> SUFFICES ASSUME fn \notin Copies, NEW a \in edi..(edi + 1 - 1)
               PROVE  Wanted(a) = New(eax(fn)[a - edi + 1])
    OBVIOUS
  <2>1. a = edi /\ a - edi + 1 = 1 /\ a \in dest..(End - 1) BY <1>1, <1>2, <1>5
  <2>2. eax(fn)[1] = "c0" BY <1>0 DEF eax
  <2> QED BY <1>0, <2>1, <2>2, WantedIs
<1>7. \A a \in Addresses :
         memory'[a] = IF a \in dest..(edi + 1 - 1) THEN Wanted(a) ELSE Old(a)
  <2> HIDE DEF Store
  <2> QED BY <1>0, <1>2, <1>4, <1>5, <1>6, StoreForward
<1>8. edi + 1 - 1 = edi' - 1 BY <1>1, <1>4
<1> QED BY <1>1, <1>2, <1>3, <1>4, <1>5, <1>7, <1>8

\* With nothing left to write, memory is as wanted.
LEMMA ForwardDone ==
    ASSUME CallInv, fn # "none", ~Backward, ForwardInv,
           at \in {"top", "aligned", "rep", "bottom"}, Left = 0
    PROVE  \A a \in Addresses : memory[a] = Wanted(a)
<1>1. edi \in Int /\ End \in Nat BY Blocks DEF CallInv
<1>2. edi = End BY <1>1 DEF ForwardInv
<1>3. \A a \in Addresses : memory[a] = IF a \in dest..(edi - 1) THEN Wanted(a) ELSE Old(a)
  BY DEF ForwardInv
<1> QED BY <1>1, <1>2, <1>3, WrittenIsWanted

LEMMA TopInv ==
    ASSUME MemInv, Top
    PROVE  MemInv'
<1>0. at = "top" /\ UNCHANGED args /\ df' = df BY DEF Top
<1>1. fn \in ByteWise /\ fn # "none" /\ ~Backward /\ CallInv
  <2>1. fn # "none" BY <1>0 DEF MemInv, CallInv
  <2>2. fn \in ByteWise BY <1>0, <2>1 DEF MemInv, CallInv
  <2> QED BY <2>1, <2>2 DEF Backward, ByteWise, MemInv
<1>2. /\ ecx \in Nat /\ edx \in Nat /\ edi \in Int /\ esi \in Int /\ End \in Nat
  BY <1>1, Blocks DEF CallInv
<1>3. Left = ecx BY <1>0 DEF Left
<1> USE ArgumentsKept
<1>4. CASE ecx = 0 /\ at' = "done" /\ UNCHANGED <<registers, memory>>
  <2>0. UNCHANGED <<edi, esi, ecx, edx, memory>> BY <1>4 DEF registers
  <2>1. CallInv' BY <1>0, <1>1, <1>4, <2>0 DEF CallInv, ByteWise
  <2>2. Defined => \A a \in Addresses : memory[a] = Wanted(a)
    BY <1>0, <1>1, <1>3, <1>4, ForwardDone DEF MemInv
  <2>3. Defined' => \A a \in Addresses : memory'[a] = Wanted(a)' BY <1>0, <2>0, <2>2, Zenon
  <2> QED BY <1>4, <2>1, <2>3 DEF MemInv, StartInv, ForwardInv, BackwardInv
<1>5. CASE ecx > 0 /\ edi % 4 = 0 /\ at' = "aligned" /\ UNCHANGED <<registers, memory>>
  <2>0. UNCHANGED <<edi, esi, ecx, edx, memory>> BY <1>5 DEF registers
  <2>1. CallInv' BY <1>0, <1>1, <1>5, <2>0 DEF CallInv, ByteWise
  <2>2. Left' = Left BY <1>3, <1>5, <2>0 DEF Left
  <2>3. Defined => ForwardInv' BY <1>0, <1>1, <1>5, <2>0, <2>2 DEF MemInv, ForwardInv
  <2> QED BY <1>0, <1>5, <2>1, <2>3 DEF MemInv, StartInv, BackwardInv
<1>6. CASE ecx > 0 /\ edi % 4 # 0 /\ Byte /\ ecx' = ecx - 1 /\ UNCHANGED <<at, edx>>
  <2>0. edi' \in Int /\ esi' \in Int /\ ecx' \in Nat /\ edx' \in Nat /\ at' = "top"
    BY <1>0, <1>2, <1>6 DEF Byte
  <2>1. CallInv' BY <1>0, <1>1, <2>0 DEF CallInv, ByteWise
  <2>2. Left' = Left - 1 BY <1>3, <1>6, <2>0 DEF Left
  <2>3. Defined => ForwardInv'
    <3> SUFFICES ASSUME Defined PROVE ForwardInv' OBVIOUS
    <3>1. ForwardInv BY <1>1 DEF MemInv
    <3>2. Left > 0 BY <1>3, <1>6
    <3>3. /\ dest <= edi' /\ edi' + (Left - 1) = End
          /\ (fn \in Copies => esi' - src = edi' - dest)
          /\ \A a \in Addresses :
                memory'[a] = IF a \in dest..(edi' - 1) THEN Wanted(a) ELSE Old(a)
      BY <1>0, <1>1, <1>6, <3>1, <3>2, ByteStep
    <3> QED BY <1>0, <1>1, <2>0, <2>2, <3>3 DEF ForwardInv
  <2> QED BY <1>0, <2>0, <2>1, <2>3 DEF MemInv, StartInv, BackwardInv
<1> QED BY <1>4, <1>5, <1>6 DEF Top

LEMMA AlignedInv ==
    ASSUME MemInv, Aligned
    PROVE  MemInv'
<1>0. /\ at = "aligned" /\ at' = "rep" /\ edx' = ecx % 4 /\ ecx' = ecx \div 4 /\ df' = FALSE
      /\ UNCHANGED <<edi, esi, memory>> /\ UNCHANGED args
  BY DEF Aligned
<1>1. fn \in ByteWise /\ fn # "none" /\ ~Backward /\ CallInv
  <2>1. fn # "none" BY <1>0 DEF MemInv, CallInv
  <2>2. fn \in ByteWise BY <1>0, <2>1 DEF MemInv, CallInv
  <2> QED BY <2>1, <2>2 DEF Backward, ByteWise, MemInv
<1> USE ArgumentsKept
<1>2. ecx \in Nat BY <1>1 DEF CallInv
<1>3. ecx' \in Nat /\ edx' \in Nat /\ 4 * ecx' + edx' = ecx BY <1>0, <1>2
<1>4. CallInv'
  <2>1. df' = Backward' BY <1>0, <1>1, Zenon DEF Backward
  <2> QED BY <1>0, <1>1, <1>3, <2>1, Zenon DEF CallInv, ByteWise
<1>5. Left' = Left
  <2>1. Width(fn') = 4 BY <1>0, <1>1, Units
  <2> QED BY <1>0, <1>3, <2>1 DEF Left
<1>6. Defined => ForwardInv' BY <1>0, <1>1, <1>5 DEF MemInv, ForwardInv
<1>7. ~Backward' BY <1>0, <1>1
<1> QED BY <1>0, <1>4, <1>6, <1>7 DEF MemInv, StartInv, BackwardInv

LEMMA BottomInv ==
    ASSUME MemInv, Bottom
    PROVE  MemInv'
<1>0. at = "bottom" /\ UNCHANGED args /\ df' = df BY DEF Bottom
<1>1. fn \in ByteWise /\ fn # "none" /\ ~Backward /\ CallInv
  <2>1. fn # "none" BY <1>0 DEF MemInv, CallInv
  <2>2. fn \in ByteWise BY <1>0, <2>1 DEF MemInv, CallInv
  <2> QED BY <2>1, <2>2 DEF Backward, ByteWise, MemInv
<1>2. /\ ecx \in Nat /\ edx \in Nat /\ edi \in Int /\ esi \in Int /\ End \in Nat
  BY <1>1, Blocks DEF CallInv
<1>3. Left = edx BY <1>0 DEF Left
<1> USE ArgumentsKept
<1>4. CASE edx = 0 /\ at' = "done" /\ UNCHANGED <<registers, memory>>
  <2>0. UNCHANGED <<edi, esi, ecx, edx, memory>> BY <1>4 DEF registers
  <2>1. CallInv' BY <1>0, <1>1, <1>4, <2>0 DEF CallInv, ByteWise
  <2>2. Defined => \A a \in Addresses : memory[a] = Wanted(a)
    BY <1>0, <1>1, <1>3, <1>4, ForwardDone DEF MemInv
  <2>3. Defined' => \A a \in Addresses : memory'[a] = Wanted(a)' BY <1>0, <2>0, <2>2, Zenon
  <2> QED BY <1>4, <2>1, <2>3 DEF MemInv, StartInv, ForwardInv, BackwardInv
<1>5. CASE edx > 0 /\ Byte /\ edx' = edx - 1 /\ UNCHANGED <<at, ecx>>
  <2>0. edi' \in Int /\ esi' \in Int /\ ecx' \in Nat /\ edx' \in Nat /\ at' = "bottom"
    BY <1>0, <1>2, <1>5 DEF Byte
  <2>1. CallInv' BY <1>0, <1>1, <2>0 DEF CallInv, ByteWise
  <2>2. Left' = Left - 1 BY <1>3, <1>5, <2>0 DEF Left
  <2>3. Defined => ForwardInv'
    <3> SUFFICES ASSUME Defined PROVE ForwardInv' OBVIOUS
    <3>1. ForwardInv BY <1>1 DEF MemInv
    <3>2. Left > 0 BY <1>3, <1>5
    <3>3. /\ dest <= edi' /\ edi' + (Left - 1) = End
          /\ (fn \in Copies => esi' - src = edi' - dest)
          /\ \A a \in Addresses :
                memory'[a] = IF a \in dest..(edi' - 1) THEN Wanted(a) ELSE Old(a)
      BY <1>0, <1>1, <1>5, <3>1, <3>2, ByteStep
    <3> QED BY <1>0, <1>1, <2>0, <2>2, <3>3 DEF ForwardInv
  <2> QED BY <1>0, <2>0, <2>1, <2>3 DEF MemInv, StartInv, BackwardInv
<1> QED BY <1>4, <1>5 DEF Bottom

LEMMA StartStep ==
    ASSUME MemInv, Start
    PROVE  MemInv'
<1>0. at = "start" /\ at' = "rep" /\ UNCHANGED <<ecx, edx, memory>> /\ UNCHANGED args
  BY DEF Start
<1>1. fn # "none" /\ fn \notin ByteWise /\ fn \in Routines /\ CallInv
  <2>1. fn # "none" BY <1>0 DEF MemInv, CallInv
  <2> QED BY <1>0, <2>1 DEF MemInv, CallInv
<1>2. /\ n \in Nat /\ dest \in Nat /\ src \in Nat /\ edi \in Int /\ esi \in Int
      /\ ecx \in Nat /\ edx \in Nat
      /\ End \in Nat /\ End = dest + n * Unit(fn)
  BY <1>1, Blocks DEF CallInv, End
<1> USE ArgumentsKept
<1>3. Defined
  BY <1>1 DEF Defined, ByteWise
<1>4. /\ edi = dest /\ esi = src /\ ecx = n /\ edx = 0
      /\ \A a \in Addresses : memory[a] = Old(a)
  BY <1>0, <1>1, <1>3 DEF MemInv, StartInv
<1>5. CASE Backward
  <2>1. fn = "memmove" /\ esi < edi BY <1>4, <1>5 DEF Backward
  <2>2. esi' = esi + ecx - 1 /\ edi' = edi + ecx - 1 /\ df' = TRUE BY <2>1 DEF Start
  <2>3. CallInv'
    <3>1. edi' \in Int /\ esi' \in Int /\ df' = Backward' BY <1>0, <1>2, <1>5, <2>2
    <3> QED BY <1>0, <1>1, <2>2, <3>1 DEF CallInv
  <2>4. BackwardInv'
    <3>1. End = dest + n BY <1>1, <2>1, Blocks DEF Copies
    <3>2. \A a : a \notin (edi' + 1)..(End - 1) BY <1>2, <1>4, <2>2, <3>1
    <3>3. edi' = dest + ecx - 1 /\ esi' = src + ecx - 1 /\ ecx <= n BY <1>2, <1>4, <2>2
    <3> QED BY <1>0, <1>4, <3>2, <3>3 DEF BackwardInv
  <2>5. Backward' BY <1>0, <1>5
  <2> QED BY <1>0, <2>3, <2>4, <2>5 DEF MemInv, StartInv, ForwardInv
<1>6. CASE ~Backward
  <2>1. ~(fn = "memmove" /\ esi < edi) BY <1>4, <1>6 DEF Backward
  <2>2. UNCHANGED <<esi, edi>> /\ df' = FALSE BY <2>1 DEF Start
  <2>3. CallInv'
    <3>1. df' = Backward' BY <1>0, <1>6, <2>2, Zenon DEF Backward
    <3> QED BY <1>0, <1>1, <2>2, <3>1, Zenon DEF CallInv
  <2>4. ForwardInv'
    <3>1. Width(fn) = Unit(fn) /\ Unit(fn) \in {1, 2, 4}
      BY <1>1, Units DEF Routines, ByteWise
    <3>2. Left' = Width(fn) * n
      <4>1. Width(fn) * n + 0 = Width(fn) * n BY <1>2, <3>1, Scaled
      <4> QED BY <1>0, <1>4, <4>1 DEF Left
    <3>3. dest + Left' = End BY <1>2, <3>1, <3>2
    <3>4. (edi' - dest) % Width(fn) = 0
      <4>1. edi' - dest = 0 BY <1>2, <1>4, <2>2
      <4>2. 0 % 1 = 0 /\ 0 % 2 = 0 /\ 0 % 4 = 0 OBVIOUS
      <4> QED BY <3>1, <4>1, <4>2
    <3>5. \A a : a \notin dest..(edi' - 1) BY <1>2, <1>4, <2>2
    <3>6. dest <= edi' /\ edi' + Left' = End /\ esi' - src = edi' - dest
      BY <1>2, <1>4, <2>2, <3>3
    <3> QED BY <1>0, <1>4, <2>2, <3>4, <3>5, <3>6 DEF ForwardInv
  <2>5. ~Backward' BY <1>0, <1>6
  <2> QED BY <1>0, <2>3, <2>4, <2>5 DEF MemInv, StartInv, BackwardInv
<1> QED BY <1>5, <1>6

\* One repetition stores what is wanted at its place in the block.
LEMMA RepStores ==
    ASSUME CallInv, fn # "none", fn \notin Copies, at = "rep", ForwardInv, ecx > 0
    PROVE  \A a \in edi..(edi + Width(fn) - 1) : Wanted(a) = New(eax(fn)[a - edi + 1])
<1>0. ~Backward BY DEF Backward, Copies
<1>1. /\ dest \in Nat /\ edi \in Int /\ ecx \in Nat /\ edx \in Nat /\ End \in Nat
  BY Blocks DEF CallInv
<1>2. dest <= edi /\ edi + (Width(fn) * ecx + edx) = End BY <1>0 DEF ForwardInv, Left
<1> SUFFICES ASSUME NEW a \in edi..(edi + Width(fn) - 1)
             PROVE  Wanted(a) = New(eax(fn)[a - edi + 1])
  OBVIOUS
<1>3. CASE fn = "memset"
  <2>1. Width(fn) = 4 BY <1>3, Units DEF ByteWise
  <2>2. a \in dest..(End - 1) /\ a - edi + 1 \in 1..4 BY <1>1, <1>2, <2>1
  <2>3. \A j \in 1..4 : eax(fn)[j] = "c0" BY <1>3 DEF eax
  <2>4. eax(fn)[a - edi + 1] = "c0" BY <2>2, <2>3
  <2> QED BY <1>3, <2>2, <2>4, WantedIs
<1>4. CASE fn = "memset_word"
  <2>1. Width(fn) = 2 /\ (edi - dest) % 2 = 0 BY <1>0, <1>4, Units DEF ByteWise, ForwardInv
  <2>2. a \in dest..(End - 1) /\ a \in {edi, edi + 1} BY <1>1, <1>2, <2>1
  <2>3. eax(fn)[1] = "c0" /\ eax(fn)[2] = "c1" BY <1>4 DEF eax
  <2>4. CASE a = edi
    <3>1. a - edi + 1 = 1 /\ (a - dest) % 2 = 0 BY <1>1, <2>1, <2>4
    <3> QED BY <1>4, <2>2, <2>3, <3>1, WantedIs
  <2>5. CASE a = edi + 1
    <3>1. a - edi + 1 = 2 /\ (a - dest) % 2 # 0 BY <1>1, <2>1, <2>5
    <3> QED BY <1>4, <2>2, <2>3, <3>1, WantedIs
  <2> QED BY <2>2, <2>4, <2>5
<1>5. CASE fn = "memset_dword"
  <2>1. Width(fn) = 4 /\ (edi - dest) % 4 = 0 BY <1>0, <1>5, Units DEF ByteWise, ForwardInv
  <2>2. a \in dest..(End - 1) /\ a \in edi..(edi + 3) BY <1>1, <1>2, <2>1
  <2>3. (a - dest) % 4 = a - edi BY <1>1, <2>1, <2>2
  <2>4. eax(fn) = <<"c0", "c1", "c2", "c3">> BY <1>5 DEF eax
  <2> QED BY <1>5, <2>2, <2>3, <2>4, WantedIs
<1> QED BY <1>3, <1>4, <1>5 DEF CallInv, Routines, Copies

LEMMA RepForward ==
    ASSUME CallInv, fn # "none", Defined, ~Backward, at = "rep", ForwardInv, ecx > 0,
           Store(Width(fn)), edi' = edi + Width(fn), ecx' = ecx - 1,
           esi' = IF fn \in Copies THEN esi + Width(fn) ELSE esi,
           UNCHANGED <<at, edx>>, UNCHANGED args
    PROVE  ForwardInv'
<1> USE ArgumentsKept
<1> DEFINE w == Width(fn)
<1>1. /\ dest \in Nat /\ src \in Nat /\ edi \in Int /\ esi \in Int /\ ecx \in Nat /\ edx \in Nat
      /\ End \in Nat /\ w \in {1, 2, 4}
  BY Blocks DEF CallInv
<1>2. /\ dest <= edi /\ edi + (w * ecx + edx) = End
      /\ (fn \in Copies => esi - src = edi - dest)
      /\ (fn \notin ByteWise => edx = 0 /\ (edi - dest) % w = 0)
      /\ \A a \in Addresses : memory[a] = IF a \in dest..(edi - 1) THEN Wanted(a) ELSE Old(a)
  BY DEF ForwardInv, Left
<1>3. fn \notin Copies => \A a \in edi..(edi + w - 1) : Wanted(a) = New(eax(fn)[a - edi + 1])
  BY RepStores
<1>4. Left' = w * (ecx - 1) + edx BY DEF Left
<1>5. w \in 1..4 /\ Store(w) /\ edi' = edi + w /\ w = Width(fn)'
      /\ esi' = IF fn \in Copies THEN esi + w ELSE esi
  BY <1>1
<1> HIDE DEF w, Store
<1>6. /\ edi + w <= End /\ edi + w + (w * (ecx - 1) + edx) = End
      /\ ((edi - dest) % w = 0 => (edi + w - dest) % w = 0)
  <2>1. CASE w = 1 BY <1>1, <1>2, <2>1
  <2>2. CASE w = 2 BY <1>1, <1>2, <2>2
  <2>3. CASE w = 4 BY <1>1, <1>2, <2>3
  <2> QED BY <1>1, <2>1, <2>2, <2>3
<1>7. \A a \in Addresses :
         memory'[a] = IF a \in dest..(edi + w - 1) THEN Wanted(a) ELSE Old(a)
  BY <1>2, <1>3, <1>5, <1>6, StoreForward
<1>8. /\ dest <= edi' /\ edi' + Left' = End
      /\ (fn \in Copies => esi' - src = edi' - dest)
      /\ (fn \notin ByteWise => edx' = 0 /\ (edi' - dest) % w = 0)
  <2>1. edi' = edi + w /\ w \in Int BY <1>1, <1>5
  <2>2. dest <= edi' BY <1>1, <1>2, <1>5, <2>1
  <2>3. edi' + Left' = End BY <1>4, <1>6, <2>1
  <2>4. fn \in Copies => esi' - src = edi' - dest BY <1>1, <1>2, <1>5, <2>1
  <2>5. fn \notin ByteWise => edx' = 0 /\ (edi' - dest) % w = 0
    <3>1. CASE w = 1 BY <1>1, <1>2, <1>6, <2>1, <3>1
    <3>2. CASE w = 2 BY <1>1, <1>2, <1>6, <2>1, <3>2
    <3>3. CASE w = 4 BY <1>1, <1>2, <1>6, <2>1, <3>3
    <3> QED BY <1>1, <3>1, <3>2, <3>3
  <2> QED BY <2>2, <2>3, <2>4, <2>5
<1>9. \A a \in Addresses : memory'[a] = IF a \in dest..(edi' - 1) THEN Wanted(a) ELSE Old(a)
  <2>1. edi' - 1 = edi + w - 1 BY <1>1, <1>5
  <2> QED BY <1>7, <2>1, Zenon
<1> QED BY <1>5, <1>8, <1>9 DEF ForwardInv

LEMMA RepInv ==
    ASSUME MemInv, Rep
    PROVE  MemInv'
<1>0. at = "rep" /\ UNCHANGED args /\ df' = df BY DEF Rep
<1>1. fn # "none" /\ fn \in Routines /\ CallInv /\ df = Backward
  <2>1. fn # "none" BY <1>0 DEF MemInv, CallInv
  <2> QED BY <1>0, <2>1 DEF MemInv, CallInv
<1>2. /\ n \in Nat /\ dest \in Nat /\ src \in Nat /\ edi \in Int /\ esi \in Int
      /\ ecx \in Nat /\ edx \in Nat /\ End \in Nat /\ Width(fn) \in {1, 2, 4}
  BY <1>1, Blocks DEF CallInv
<1> USE ArgumentsKept
<1> DEFINE w == Width(fn)
           step == IF df THEN -w ELSE w
<1>3. CASE /\ ecx > 0 /\ Store(w) /\ edi' = edi + step /\ ecx' = ecx - 1
           /\ esi' = IF fn \in Copies THEN esi + step ELSE esi
           /\ UNCHANGED <<at, edx>>
  <2>0. step \in Int BY <1>2
  <2>1. edi' \in Int /\ esi' \in Int /\ ecx' \in Nat /\ edx' \in Nat /\ at' = "rep"
    <3> HIDE DEF step, w
    <3> QED BY <1>0, <1>2, <1>3, <2>0
  <2>2. CallInv' BY <1>0, <1>1, <2>1 DEF CallInv
  <2>3. CASE Backward
    <3>1. fn = "memmove" /\ fn \in Copies /\ w = 1 /\ df = TRUE
      BY <1>1, <2>3, Units, Zenon DEF Backward, Copies
    <3>2. Defined BY <3>1 DEF Defined
    <3>3. /\ edi = dest + ecx - 1 /\ esi = src + ecx - 1 /\ ecx <= n
          /\ \A a \in Addresses :
                memory[a] = IF a \in (edi + 1)..(End - 1) THEN Wanted(a) ELSE Old(a)
      BY <1>0, <1>1, <2>3, <3>2 DEF MemInv, BackwardInv
    <3>4. Store(1) /\ edi' = edi - 1 /\ esi' = esi - 1 BY <1>2, <1>3, <3>1
    <3>5. \A a \in Addresses :
             memory'[a] = IF a \in edi..(End - 1) THEN Wanted(a) ELSE Old(a)
      BY <1>1, <1>3, <2>3, <3>3, <3>4, StoreBackward
    <3>6. /\ edi' = dest + ecx' - 1 /\ esi' = src + ecx' - 1 /\ ecx' <= n /\ edi' + 1 = edi
      BY <1>2, <1>3, <3>3, <3>4
    <3>7. BackwardInv' BY <1>0, <3>5, <3>6 DEF BackwardInv
    <3>8. Backward' BY <1>0, <2>3
    <3> QED BY <2>1, <2>2, <3>7, <3>8 DEF MemInv, StartInv, ForwardInv
  <2>4. CASE ~Backward
    <3>1. step = w BY <1>1, <2>4
    <3>2. Defined => ForwardInv'
      BY <1>0, <1>1, <1>3, <2>4, <3>1, RepForward DEF MemInv
    <3>3. ~Backward' BY <1>0, <2>4
    <3> QED BY <1>0, <2>1, <2>2, <3>2, <3>3 DEF MemInv, StartInv, BackwardInv
  <2> QED BY <2>3, <2>4
<1>4. CASE /\ ecx = 0 /\ at' = (IF fn \in {"memset", "memcpy"} THEN "bottom" ELSE "done")
           /\ UNCHANGED <<registers, memory>>
  <2>0. UNCHANGED <<edi, esi, ecx, edx, memory>> BY <1>4 DEF registers
  <2>1. CallInv' BY <1>0, <1>1, <1>4, <2>0 DEF CallInv, ByteWise
  <2>2. Left = edx
    <3>1. Width(fn) * 0 + edx = edx BY <1>2
    <3> QED BY <1>0, <1>4, <3>1 DEF Left
  <2>3. CASE fn \in ByteWise
    <3>1. ~Backward /\ ~Backward' /\ at' = "bottom"
      BY <1>0, <1>4, <2>3 DEF Backward, ByteWise
    <3>2. Left' = Left BY <2>0, <2>2, <3>1 DEF Left
    <3>3. Defined => ForwardInv' BY <1>0, <1>1, <2>0, <3>1, <3>2 DEF MemInv, ForwardInv
    <3> QED BY <1>0, <2>1, <3>1, <3>3 DEF MemInv, StartInv, BackwardInv
  <2>4. CASE fn \notin ByteWise
    <3>0. at' = "done" /\ Defined BY <1>4, <2>4 DEF ByteWise, Defined
    <3>1. \A a \in Addresses : memory[a] = Wanted(a)
      <4>1. CASE Backward
        <5>1. /\ edi + 1 = dest
              /\ \A a \in Addresses :
                    memory[a] = IF a \in (edi + 1)..(End - 1) THEN Wanted(a) ELSE Old(a)
          BY <1>0, <1>1, <1>2, <1>4, <3>0, <4>1 DEF MemInv, BackwardInv
        <5>2. \A a \in Addresses :
                 memory[a] = IF a \in dest..(End - 1) THEN Wanted(a) ELSE Old(a)
          BY <5>1
        <5> QED BY <1>1, <1>2, <5>2, WrittenIsWanted
      <4>2. CASE ~Backward
        <5>1. ForwardInv BY <1>1, <3>0 DEF MemInv
        <5>2. Left = 0 BY <1>0, <2>2, <2>4, <4>2, <5>1 DEF ForwardInv
        <5> QED BY <1>0, <1>1, <4>2, <5>1, <5>2, ForwardDone
      <4> QED BY <4>1, <4>2
    <3>2. \A a \in Addresses : memory'[a] = Wanted(a)' BY <1>0, <2>0, <3>1
    <3> QED BY <2>1, <3>0, <3>2 DEF MemInv, StartInv, ForwardInv, BackwardInv
  <2> QED BY <2>3, <2>4
<1> QED BY <1>3, <1>4 DEF Rep

LEMMA LeaveInv ==
    ASSUME MemInv, Leave
    PROVE  MemInv'
<1>1. fn' = "none" /\ at' = "done" /\ df' = df /\ memory' = [a \in Addresses |-> Old(a)]
  BY DEF Leave
<1> QED BY <1>1 DEF MemInv, CallInv

LEMMA MemStart == MemInit => MemInv
BY Zenon DEF MemInit, NoCall, MemInv, CallInv

LEMMA MemStep == MemInv /\ [MemNext]_memVars => MemInv'
<1> SUFFICES ASSUME MemInv, [MemNext]_memVars PROVE MemInv' OBVIOUS
<1>1. CASE UNCHANGED memVars
  <2>1. /\ UNCHANGED <<fn, dest, src, n, at, edi, esi, ecx, edx, df, memory>> /\ UNCHANGED args
    BY <1>1 DEF memVars, registers, args
  <2>2. CallInv' = CallInv /\ Left' = Left BY <2>1, ArgumentsKept DEF CallInv, Left
  <2>3. StartInv' = StartInv /\ ForwardInv' = ForwardInv /\ BackwardInv' = BackwardInv
    BY <2>1, <2>2, ArgumentsKept DEF StartInv, ForwardInv, BackwardInv
  <2> QED BY <2>1, <2>2, <2>3, ArgumentsKept DEF MemInv
<1> QED
  BY <1>1, EnterInv, TopInv, AlignedInv, StartStep, RepInv, BottomInv, LeaveInv DEF MemNext

\* In any sequence of calls memset, memset_word, memset_dword, memcpy and memmove leave
\* memory exactly as their arguments say, for every size of memory, every length,
\* alignment and overlap for which the routine is defined, and whatever the direction
\* flag was left at.
THEOREM RoutinesWriteWanted == MemSpec => []WritesExactly
<1>1. MemInv => WritesExactly BY DEF MemInv, WritesExactly, Defined
<1> QED BY <1>1, MemStart, MemStep, PTL DEF MemSpec

===============================================================================
