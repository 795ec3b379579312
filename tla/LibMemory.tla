------------------------------- MODULE LibMemory -------------------------------
(***************************************************************************)
(* The memory routines of the kernel's lib.c, instruction by instruction   *)
(* where the order matters: the registers the inline assembly works on,    *)
(* and the direction flag, which the CPU keeps from one call to the next.  *)
(* A byte of memory holds the address it had when the call began, or one   *)
(* of the bytes "c0" to "c3" of the value to store.                        *)
(***************************************************************************)
EXTENDS Integers, Sequences

CONSTANT Size       \* bytes of memory

ASSUME SizeAssumption == Size \in Nat

VARIABLES
    fn,                     \* the routine that runs, or "none"
    dest, src, n,           \* its arguments
    at,                     \* the place in its code
    edi, esi, ecx, edx,     \* registers
    df,                     \* the direction flag: TRUE after std
    memory                  \* address -> byte

args == <<fn, dest, src, n>>
registers == <<edi, esi, ecx, edx>>
memVars == <<args, at, registers, df, memory>>

Addresses == 0..(Size - 1)
Routines == {"memset", "memset_word", "memset_dword", "memcpy", "memmove"}
Copies == {"memcpy", "memmove"}

\* A byte that was at a when the call began, and a byte of the value to store.
Old(a) == <<a, "old">>
New(b) == <<-1, b>>

\* The width of what one repetition stores, and the unit n counts for each routine.
Width(f) == CASE f = "memset_word" -> 2 [] f = "memmove" -> 1 [] OTHER -> 4
Unit(f) == CASE f = "memset_word" -> 2 [] f = "memset_dword" -> 4 [] OTHER -> 1

\* eax: memset repeats the low byte of c in all four.
eax(f) == IF f = "memset" THEN <<"c0", "c0", "c0", "c0">> ELSE <<"c0", "c1", "c2", "c3">>

NoCall ==
    /\ fn = "none" /\ dest = 0 /\ src = 0 /\ n = 0 /\ at = "done"
    /\ edi = 0 /\ esi = 0 /\ ecx = 0 /\ edx = 0 /\ memory = [a \in Addresses |-> Old(a)]

MemInit == NoCall /\ df = FALSE

\* A call whose source and destination lie in memory.
Enter ==
    /\ fn = "none"
    /\ fn' \in Routines
    /\ n' \in 0..Size
    /\ n' * Unit(fn') <= Size
    /\ dest' \in 0..(Size - n' * Unit(fn'))
    /\ src' \in IF fn' \in Copies THEN 0..(Size - n') ELSE {0}
    /\ at' = IF fn' \in {"memset", "memcpy"} THEN "top" ELSE "start"
    /\ edi' = dest' /\ esi' = src' /\ ecx' = n' /\ edx' = 0
    /\ UNCHANGED <<df, memory>>

\* w bytes, from esi or from eax, are stored at edi.
Store(w) ==
    memory' = [a \in Addresses |->
        IF a \notin edi..(edi + w - 1) THEN memory[a]
        ELSE IF fn \notin Copies THEN New(eax(fn)[a - edi + 1])
        ELSE IF esi + a - edi \in Addresses THEN memory[esi + a - edi] ELSE New("outside")]

\* A single movb, and the registers moved on by addl.
Byte ==
    /\ Store(1)
    /\ edi' = edi + 1
    /\ esi' = IF fn \in Copies THEN esi + 1 ELSE esi

\* memset and memcpy up to the first aligned address.
Top ==
    /\ at = "top"
    /\ \/ ecx = 0 /\ at' = "done" /\ UNCHANGED <<registers, memory>>
       \/ ecx > 0 /\ edi % 4 = 0 /\ at' = "aligned" /\ UNCHANGED <<registers, memory>>
       \/ ecx > 0 /\ edi % 4 # 0 /\ Byte /\ ecx' = ecx - 1 /\ UNCHANGED <<at, edx>>
    /\ UNCHANGED <<args, df>>

\* Mutant: the direction flag is taken as it is.
Aligned_NoCld ==
    /\ at = "aligned" /\ at' = "rep"
    /\ edx' = ecx % 4 /\ ecx' = ecx \div 4
    /\ UNCHANGED <<args, edi, esi, df, memory>>

Aligned ==
    /\ at = "aligned" /\ at' = "rep"
    /\ edx' = ecx % 4 /\ ecx' = ecx \div 4 /\ df' = FALSE
    /\ UNCHANGED <<args, edi, esi, memory>>

\* The other routines up to rep: memmove goes backwards when the source lies below.
Start ==
    /\ at = "start" /\ at' = "rep"
    /\ IF fn = "memmove" /\ esi < edi
       THEN esi' = esi + ecx - 1 /\ edi' = edi + ecx - 1 /\ df' = TRUE
       ELSE UNCHANGED <<esi, edi>> /\ df' = FALSE
    /\ UNCHANGED <<args, ecx, edx, memory>>

\* rep stosl, stosw, movsl or movsb: one repetition, or the end of them.
Rep ==
    LET w == Width(fn)
        step == IF df THEN -w ELSE w IN
    /\ at = "rep"
    /\ \/ /\ ecx > 0
          /\ Store(w)
          /\ edi' = edi + step /\ ecx' = ecx - 1
          /\ esi' = IF fn \in Copies THEN esi + step ELSE esi
          /\ UNCHANGED <<at, edx>>
       \/ /\ ecx = 0
          /\ at' = IF fn \in {"memset", "memcpy"} THEN "bottom" ELSE "done"
          /\ UNCHANGED <<registers, memory>>
    /\ UNCHANGED <<args, df>>

\* The bytes after the last whole word.
Bottom ==
    /\ at = "bottom"
    /\ \/ edx = 0 /\ at' = "done" /\ UNCHANGED <<registers, memory>>
       \/ edx > 0 /\ Byte /\ edx' = edx - 1 /\ UNCHANGED <<at, ecx>>
    /\ UNCHANGED <<args, df>>

\* The caller goes on; what a byte holds is named anew, the direction flag stays.
Leave ==
    /\ fn # "none" /\ at = "done"
    /\ fn' = "none" /\ dest' = 0 /\ src' = 0 /\ n' = 0
    /\ edi' = 0 /\ esi' = 0 /\ ecx' = 0 /\ edx' = 0 /\ memory' = [a \in Addresses |-> Old(a)]
    /\ UNCHANGED <<at, df>>

MemNext == Enter \/ Top \/ Aligned \/ Start \/ Rep \/ Bottom \/ Leave

MemSpec == MemInit /\ [][MemNext]_memVars

-------------------------------------------------------------------------------
\* The end of the destination, and what memory holds after the call, from the arguments
\* alone.
End == dest + n * Unit(fn)
Wanted(a) ==
    IF a \notin dest..(End - 1) THEN Old(a)
    ELSE IF fn \in Copies THEN Old(a - dest + src)
    ELSE New(CASE fn = "memset" -> "c0"
               [] fn = "memset_word" -> IF (a - dest) % 2 = 0 THEN "c0" ELSE "c1"
               [] fn = "memset_dword" -> <<"c0", "c1", "c2", "c3">>[((a - dest) % 4) + 1])

\* In any sequence of calls every routine writes exactly its destination and nothing
\* beside it, whatever the alignment: memset and memcpy join single bytes and words
\* without gap or overlap, memmove copies through any overlap, memcpy whenever the
\* destination does not begin inside the source, and the direction flag a backward
\* memmove leaves set disturbs no later call.  The destination is n bytes long, but n
\* words for memset_word and n double words for memset_dword: it is the "n consecutive
\* memory locations" of their comments, not the "number of bytes" (see SetsBytes).
WritesExactly ==
    fn # "none" /\ at = "done" /\ ~(fn = "memcpy" /\ dest \in (src + 1)..(src + n - 1)) =>
        \A a \in Addresses : memory[a] = Wanted(a)

\* What the comments of memset_word and memset_dword say of n ("n = number of bytes to
\* set"): neither changes a byte behind the n-th.
SetsBytes ==
    fn \in {"memset_word", "memset_dword"} =>
        \A a \in Addresses : a \notin dest..(dest + n - 1) => memory[a] = Old(a)

===============================================================================
