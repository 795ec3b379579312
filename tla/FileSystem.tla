------------------------------ MODULE FileSystem ------------------------------
(***************************************************************************)
(* The read-only file system of filesystem.c: the boot block with its      *)
(* directory entries, the inodes, the data blocks, and the three readers   *)
(* every other part of the kernel goes through (read_dentry_by_name,       *)
(* read_dentry_by_index, read_data).  The image never changes at run time, *)
(* so it is a constant and the readers are operators.                      *)
(***************************************************************************)
EXTENDS Integers, Sequences, FiniteSets

CONSTANTS
    nent,       \* boot->nent: directory entries in use
    nnod,       \* boot->nnod: inodes
    dirs,       \* boot->dirs: index -> [name, ft, ind]; unused entries have an empty name
    inodes,     \* inode number -> [len, data], data: sequence of block numbers
    blocks,     \* block number -> sequence of BLKSIZE bytes
    BLKSIZE,    \* bytes per data block (4096)
    NameLen,    \* bytes of a name field (32)
    Modulus     \* 2^32: lengths and offsets are uint32_t

\* File types of a dentry (ft), as sys_open and sys_execute tell them apart.
FtRtc == 0
FtDir == 1
FtFile == 2

Dentries == [name : Seq(STRING), ft : {FtRtc, FtDir, FtFile}, ind : Nat]

(***************************************************************************)
(* What the image builder guarantees of an image: entries 0..nent are in   *)
(* the boot block, the entry after the last one is zero (so its name is    *)
(* empty), names fit their field, and an inode's blocks hold its length.   *)
(***************************************************************************)
ASSUME ImageAssumption ==
    /\ BLKSIZE \in Nat \ {0} /\ NameLen \in Nat \ {0} /\ Modulus \in Nat \ {0}
    /\ nent \in Nat /\ nnod \in Nat
    /\ dirs \in [0..nent -> Dentries]
    /\ dirs[nent] = [name |-> <<>>, ft |-> FtRtc, ind |-> 0]
    /\ \A i \in 0..(nent - 1) : Len(dirs[i].name) \in 1..NameLen
    /\ \A i \in 0..(nent - 1) : dirs[i].ft = FtFile => dirs[i].ind < nnod
    /\ DOMAIN inodes = 0..(nnod - 1)
    /\ \A nd \in 0..(nnod - 1) :
          /\ inodes[nd].len \in 0..(Modulus - 1)
          /\ inodes[nd].len <= Len(inodes[nd].data) * BLKSIZE
          /\ inodes[nd].data \in Seq(DOMAIN blocks)
    /\ \A n \in DOMAIN blocks : blocks[n] \in [1..BLKSIZE -> STRING]

\* Conversion of a machine word to uint32_t.
U32(x) == x % Modulus

\* Mutant: the comparison ends with the shorter name.
SameName_Prefix(fname, name) ==
    LET n == IF Len(fname) < Len(name) THEN Len(fname) ELSE Len(name)
    IN  SubSeq(fname, 1, n) = SubSeq(name, 1, n)

\* strncmp(fname, name, 32) = 0: equal up to the width of the name field.
SameName(fname, name) ==
    SubSeq(fname, 1, IF Len(fname) < NameLen THEN Len(fname) ELSE NameLen) = name

\* The entries of the directory called fname: read_dentry_by_name returns -1 when
\* there is none and otherwise copies out the one with the lowest index.
Matches(fname) == {i \in 0..(nent - 1) : SameName(fname, dirs[i].name)}

read_dentry_by_name(fname) ==
    dirs[CHOOSE i \in Matches(fname) : \A j \in Matches(fname) : i <= j]

\* Mutant: the bound taken as i < nent.
IndexReadable_Strict(i) == ~ (nent <= i)

\* read_dentry_by_index fails only for nent < i, so index nent is still readable.
IndexReadable(i) == ~ (nent < i)

\* Mutant: off by one in the end-of-file test.
ClippedLen_ShortByOne(nd, off, len) ==
    IF inodes[nd].len < U32(len + off + 1) THEN U32(inodes[nd].len - off - 1) ELSE len

\* The length read_data settles on: len + off is computed in uint32_t, and a request
\* past the end is cut down to the rest of the file.
ClippedLen(nd, off, len) ==
    IF inodes[nd].len < U32(len + off) THEN U32(inodes[nd].len - off) ELSE len

\* Mutant: the block pointer is not moved on.
ByteAt_BlockNotAdvanced(nd, off) ==
    blocks[inodes[nd].data[1]][(off % BLKSIZE) + 1]

\* The byte the copy loop takes for offset off: the block pointer is moved on at
\* every multiple of BLKSIZE.
ByteAt(nd, off) ==
    blocks[inodes[nd].data[(off \div BLKSIZE) + 1]][(off % BLKSIZE) + 1]

\* What read_data copies into buf, when the copy stays inside the file.
Copied(nd, off, n) == [k \in 1..n |-> ByteAt(nd, off + k - 1)]

(***************************************************************************)
(* dir_read and file_read, the two read operations of a descriptor e on    *)
(* the file system: the value returned, and the descriptor's new position. *)
(***************************************************************************)
\* The bytes of a dentry from its name on: a name of full width has no terminator,
\* so what follows it is the first byte of ft.
NUL == "NUL"
DentryBytes(d) ==
    d.name \o [k \in 1..(NameLen - Len(d.name)) |-> NUL]
           \o <<IF d.ft = 0 THEN NUL ELSE "ft">> \o <<NUL>>

\* The number of bytes dir_read copies: up to n, or up to the first NUL.
NameCount(d, n) ==
    LET full == Len(d.name) = NameLen /\ d.ft # 0
        stop == IF full THEN NameLen + 1 ELSE Len(d.name)
    IN  IF n <= 0 THEN 0 ELSE IF n < stop THEN n ELSE stop

\* Mutant: the position advances by bytes, as sys_read once did.
dir_read_ByBytes(e, n) ==
    IF IndexReadable(e.file_position)
    THEN [ret |-> NameCount(dirs[e.file_position], n),
          pos |-> U32(e.file_position + NameCount(dirs[e.file_position], n))]
    ELSE [ret |-> -1, pos |-> e.file_position]

\* Mutant: the position moves on before the entry is looked up.
dir_read_CountsFailures(e, n) ==
    [ret |-> IF IndexReadable(e.file_position)
             THEN NameCount(dirs[e.file_position], n) ELSE -1,
     pos |-> U32(e.file_position + 1)]

dir_read(e, n) ==
    IF IndexReadable(e.file_position)
    THEN [ret |-> NameCount(dirs[e.file_position], n), pos |-> U32(e.file_position + 1)]
    ELSE [ret |-> -1, pos |-> e.file_position]

file_read(e, n) ==
    LET r == IF e.inode >= nnod THEN -1 ELSE ClippedLen(e.inode, e.file_position, U32(n))
    IN  [ret |-> r, pos |-> U32(e.file_position + r)]

===============================================================================
