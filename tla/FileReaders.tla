----------------------------- MODULE FileReaders -----------------------------
(***************************************************************************)
(* The two programs that read the file system to its end, ls and cat,      *)
(* running against sys_open and sys_read: what they print, and that they   *)
(* stop.  One descriptor is enough, both programs open one.                *)
(***************************************************************************)
EXTENDS FileSystem

CONSTANTS
    Chunks,     \* sizes cat may ask for (1024 in the source; any int32_t but 0 will do)
    UserRoom    \* bytes from a user buffer to the end of the 4 MB user page, at most

Dot == <<".">>

\* The user page is 4 MB of 2^32 and a file fits it; the boot block has room for 63
\* entries, of which "." is the directory.
ASSUME ReaderAssumption ==
    /\ Chunks \subseteq Int /\ \A n \in Chunks : U32(n) # 0
    /\ UserRoom \in Nat /\ 2 * UserRoom < Modulus
    /\ \A nd \in 0..(nnod - 1) : inodes[nd].len <= UserRoom
    /\ nent + 1 < Modulus
    /\ Matches(Dot) # {} => read_dentry_by_name(Dot).ft = FtDir

Names == {dirs[i].name : i \in 0..(nent - 1)} \cup {<<"n", "o">>}

VARIABLES
    prog,       \* which program runs
    arg,        \* the name it opens
    chunk,      \* the size it reads with
    pc,         \* "open", "loop", "done", "failed", or "spin" (page fault, system stopped)
    e,          \* its file descriptor
    out         \* what it wrote to descriptor 1

readerVars == <<prog, arg, chunk, pc, e, out>>

Init ==
    /\ \/ prog = "ls" /\ arg = Dot /\ chunk = NameLen
       \/ prog = "cat" /\ arg \in Names /\ chunk \in Chunks
    /\ pc = "open"
    /\ e = [f_op |-> "none", inode |-> 0, file_position |-> 0]
    /\ out = <<>>

\* sys_open on an empty descriptor table, by the file type of the entry.
Open ==
    /\ pc = "open"
    /\ IF Matches(arg) = {}
       THEN pc' = "failed" /\ UNCHANGED e
       ELSE LET d == read_dentry_by_name(arg) IN
            /\ pc' = "loop"
            /\ e' = [f_op |-> CASE d.ft = FtRtc -> "rtc"
                                [] d.ft = FtDir -> "dir"
                                [] d.ft = FtFile -> "file",
                     inode |-> IF d.ft = FtFile THEN d.ind ELSE e.inode,
                     file_position |-> 0]
    /\ UNCHANGED <<prog, arg, chunk, out>>

\* What the two programs do with the count read returned.
AfterRead(r, bytes) ==
    /\ pc' = CASE r = 0 -> "done" [] r = -1 -> "failed" [] OTHER -> "loop"
    /\ out' = CASE r \in {0, -1} -> out
                [] r > 0 /\ prog = "ls" -> Append(out, bytes)
                [] r > 0 /\ prog = "cat" -> out \o bytes

ReadRtc == pc = "loop" /\ e.f_op = "rtc" /\ AfterRead(0, <<>>) /\ UNCHANGED <<prog, arg, chunk, e>>

ReadDir ==
    /\ pc = "loop" /\ e.f_op = "dir"
    /\ LET r == dir_read(e, chunk) IN
       /\ e' = [e EXCEPT !.file_position = r.pos]
       /\ AfterRead(r.ret, IF r.ret > 0
                           THEN SubSeq(DentryBytes(dirs[e.file_position]), 1, r.ret) ELSE <<>>)
    /\ UNCHANGED <<prog, arg, chunk>>

\* The copy of a count no user buffer can hold runs into an unmapped page; the page
\* fault handler spins (idt.c PF).
ReadFile ==
    /\ pc = "loop" /\ e.f_op = "file"
    /\ LET r == file_read(e, chunk) IN
       IF r.ret > UserRoom
       THEN pc' = "spin" /\ UNCHANGED <<e, out>>
       ELSE /\ e' = [e EXCEPT !.file_position = r.pos]
            /\ AfterRead(r.ret, IF r.ret > 0 THEN Copied(e.inode, e.file_position, r.ret) ELSE <<>>)
    /\ UNCHANGED <<prog, arg, chunk>>

Next == Open \/ ReadRtc \/ ReadDir \/ ReadFile

-------------------------------------------------------------------------------
\* The content of a file, read off the image without read_data: its blocks laid end to
\* end and cut at its length.
Content(nd) ==
    LET laid[k \in 0..Len(inodes[nd].data)] ==
            IF k = 0 THEN <<>> ELSE laid[k - 1] \o blocks[inodes[nd].data[k]]
    IN  SubSeq(laid[Len(inodes[nd].data)], 1, inodes[nd].len)

\* However the reads fall on the block boundaries, what cat has printed of a file so
\* far is the beginning of the file, as long as the descriptor's position.
CatPrintsPrefix ==
    prog = "cat" /\ e.f_op = "file" =>
        out = SubSeq(Content(e.inode), 1, e.file_position)

\* When cat returns 0 it has printed the whole file: read_data reports the end of the
\* file (0) at the end and nowhere before.
CatPrintsWholeFile ==
    prog = "cat" /\ e.f_op = "file" /\ pc = "done" => out = Content(e.inode)

\* When ls returns 0 it has printed every directory entry once, in order: the one
\* extra entry dir_read lets through (index nent) ends the loop and nothing else does.
LsPrintsAll ==
    prog = "ls" /\ pc = "done" => out = [k \in 1..nent |-> dirs[k - 1].name]

===============================================================================
