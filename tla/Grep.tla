--------------------------------- MODULE Grep ---------------------------------
(***************************************************************************)
(* The program grep: it goes through the directory and searches each file  *)
(* line by line in a buffer it refills, moving the rest of a line that is  *)
(* cut off at the end of the buffer to its front.  do_one_file is modelled *)
(* by one step per read and one per line.                                  *)
(***************************************************************************)
EXTENDS FileReaders, Functions

CONSTANTS
    BUFSIZE,    \* bytes a file is read in (1024); one more is there for a terminator
    Searches    \* arguments grep is started with; <<>> is none

ASSUME GrepAssumption == BUFSIZE \in Nat \ {0} /\ \A x \in Searches : NUL \notin Range(x)

NL == "NL"
Other == "?"

VARIABLES
    search,         \* the string looked for
    gpc,            \* "args", "dir", "fill", "lines", "done", "failed"
    dir, fd,        \* the descriptors of the directory and of the file at work
    fname,          \* the name of that file
    data,           \* the buffer of do_one_file
    last,           \* bytes in it
    cnt,            \* what the last read returned
    line_start,     \* where the line at work begins
    printed,        \* history: the lines printed of this file
    behind          \* history: what the stack held in the byte behind the buffer

grepVars == <<search, gpc, dir, fd, fname, data, last, cnt, line_start, printed, behind>>

\* What the stack may hold where do_one_file has its buffer: nothing initializes it.
Leftover == {[i \in 0..BUFSIZE |-> IF i < BUFSIZE THEN x ELSE y] : x, y \in {NL, Other}}

Closed == [f_op |-> "none", inode |-> 0, file_position |-> 0]

\* The descriptor sys_open sets up for the directory entry d.
Opened(d) ==
    [f_op |-> CASE d.ft = FtRtc -> "rtc" [] d.ft = FtDir -> "dir" [] d.ft = FtFile -> "file",
     inode |-> IF d.ft = FtFile THEN d.ind ELSE 0, file_position |-> 0]

GrepIdle ==
    /\ search = <<>> /\ gpc = "idle" /\ dir = Closed /\ fd = Closed /\ fname = <<>>
    /\ data = [i \in 0..BUFSIZE |-> Other] /\ last = 0 /\ cnt = 0 /\ line_start = 0
    /\ printed = <<>> /\ behind = Other

GrepInit ==
    /\ search \in Searches /\ gpc = "args" /\ dir = Closed /\ fd = Closed /\ fname = <<>>
    /\ data = [i \in 0..BUFSIZE |-> Other] /\ last = 0 /\ cnt = 0 /\ line_start = 0
    /\ printed = <<>> /\ behind = Other

\* getargs fails without an argument; the directory is opened once.
GetArgs ==
    /\ gpc = "args"
    /\ IF search = <<>> \/ Matches(Dot) = {}
       THEN gpc' = "failed" /\ UNCHANGED dir
       ELSE gpc' = "dir" /\ dir' = Opened(read_dentry_by_name(Dot))
    /\ UNCHANGED <<search, fd, fname, data, last, cnt, line_start, printed, behind>>

\* do_one_file begins: the file is opened; its buffer is whatever the stack holds.
BeginFile(name) ==
    /\ fname' = name /\ printed' = <<>>
    /\ IF Matches(name) = {}
       THEN gpc' = "failed" /\ UNCHANGED <<fd, data, last, behind>>
       ELSE /\ \E d \in {read_dentry_by_name(name)} : fd' = Opened(d)
            /\ gpc' = "fill" /\ last' = 0
            /\ data' \in Leftover /\ behind' = data'[BUFSIZE]

\* One entry of the directory; names that begin with a dot are passed over.
NextEntry ==
    /\ gpc = "dir"
    /\ \E r \in {dir_read(dir, NameLen)},
          name \in {SubSeq(DentryBytes(dirs[dir.file_position]), 1, dir_read(dir, NameLen).ret)} :
       /\ dir' = [dir EXCEPT !.file_position = r.pos]
       /\ \/ /\ r.ret <= 0
             /\ gpc' = IF r.ret = 0 THEN "done" ELSE "failed"
             /\ UNCHANGED <<fname, fd, data, last, printed, behind>>
          \/ /\ r.ret > 0 /\ Head(name) = "."
             /\ UNCHANGED <<gpc, fname, fd, data, last, printed, behind>>
          \/ r.ret > 0 /\ Head(name) # "." /\ BeginFile(name)
    /\ UNCHANGED <<search, cnt, line_start>>

\* read fills the rest of the buffer; the clock answers 0 bytes.
Fill ==
    /\ gpc = "fill"
    /\ LET r == IF fd.f_op = "rtc" THEN [ret |-> 0, pos |-> 0] ELSE file_read(fd, BUFSIZE - last)
           bytes == Copied(fd.inode, fd.file_position, r.ret) IN
       /\ cnt' = r.ret
       /\ fd' = [fd EXCEPT !.file_position = r.pos]
       /\ data' = [i \in 0..BUFSIZE |-> IF i \in last..(last + r.ret - 1)
                                        THEN bytes[i - last + 1] ELSE data[i]]
       /\ last' = last + r.ret
       /\ gpc' = IF r.ret = -1 THEN "failed" ELSE "lines"
    /\ line_start' = 0
    /\ UNCHANGED <<search, dir, fname, printed, behind>>

\* The place of the first byte b of d from place i on (there is one).
IndexFrom(d, b, i) ==
    CHOOSE j \in i..BUFSIZE : d[j] = b /\ \A k \in i..(j - 1) : d[k] # b

\* The line at work ends at a newline or at the end of what was read.
line_end ==
    CHOOSE j \in line_start..last :
        (j = last \/ data[j] = NL) /\ \A k \in line_start..(j - 1) : data[k] # NL

\* The comparison ends at the terminator of the line, which is in no search string.
strncmp(d, check, s) ==
    \A i \in 1..Len(s) : check + i - 1 <= BUFSIZE /\ d[check + i - 1] = s[i]

\* strcpy to the front of the buffer, up to and with the first terminator.
strcpy(d, from) ==
    [i \in 0..BUFSIZE |-> IF i <= IndexFrom(d, NUL, from) - from THEN d[i + from] ELSE d[i]]

\* Mutant: also for a line that fills the whole buffer.
CutOff_FullBuffer == data[line_end] # NL /\ cnt # 0

\* The line goes on behind the buffer; one that fills the whole buffer is searched in
\* pieces.  The byte at line_end may be one that was not read from the file.
CutOff == data[line_end] # NL /\ cnt # 0 /\ line_start # 0

MoveRest ==
    /\ gpc = "lines" /\ CutOff
    /\ data' = strcpy([data EXCEPT ![line_end] = NUL], line_start)
    /\ last' = last - line_start
    /\ gpc' = "fill"
    /\ UNCHANGED <<search, dir, fd, fname, cnt, line_start, printed, behind>>

\* The line is searched and printed up to its terminator at the first match.
SearchLine ==
    /\ gpc = "lines" /\ ~CutOff
    /\ LET d == [data EXCEPT ![line_end] = NUL]
           shown == [k \in 1..(IndexFrom(d, NUL, line_start) - line_start) |-> d[line_start + k - 1]] IN
       /\ data' = d
       /\ printed' = IF \E check \in line_start..(line_end - 1) : strncmp(d, check, search)
                     THEN Append(printed, shown) ELSE printed
       /\ line_start' = line_end + 1
       /\ last' = IF line_end + 1 >= last THEN 0 ELSE last
       /\ gpc' = IF line_end + 1 < last THEN "lines" ELSE IF cnt # 0 THEN "fill" ELSE "dir"
    /\ UNCHANGED <<search, dir, fd, fname, cnt, behind>>

GrepNext == GetArgs \/ NextEntry \/ Fill \/ MoveRest \/ SearchLine

-------------------------------------------------------------------------------
\* A text cut at its newlines.
LinesOf(text) ==
    LET ends == SelectSeq([i \in 1..(Len(text) + 1) |-> i],
                          LAMBDA i : i = Len(text) + 1 \/ text[i] = NL)
    IN  [k \in 1..Len(ends) |-> SubSeq(text, IF k = 1 THEN 1 ELSE ends[k - 1] + 1, ends[k] - 1)]

HasString(line, s) == \E i \in 1..(Len(line) - Len(s) + 1) : SubSeq(line, i, i + Len(s) - 1) = s

MatchingLines(text, s) == SelectSeq(LinesOf(text), LAMBDA line : HasString(line, s))

\* A text in which every line fits into grep's buffer.
Searchable(text) == NUL \notin Range(text) /\ \A line \in Range(LinesOf(text)) : Len(line) <= BUFSIZE

\* When grep closes a text file it has printed the lines of the file that contain the
\* string, whole, once and in order, wherever the reads of do_one_file cut them: the test
\* of the byte behind what was read (data[line_end]) never takes a newline of an earlier
\* fill for the end of a line.  The byte behind the buffer, which nobody has written
\* when the first fill reaches it, must not happen to be a newline.
GrepPrintsMatches ==
    gpc = "dir" /\ fd.f_op = "file" /\ behind # NL /\ Searchable(Content(fd.inode)) =>
        printed = MatchingLines(Content(fd.inode), search)

===============================================================================
