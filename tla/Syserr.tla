-------------------------------- MODULE Syserr --------------------------------
(***************************************************************************)
(* The program syserr, which tests how the system calls answer mistakes,   *)
(* running on the system calls of Process.  It is started like any other   *)
(* program, after other programs have used and left its slot.  Its eight   *)
(* tests are sequences of calls that must answer -1; what it prints goes   *)
(* to descriptor 1 and changes nothing here.                               *)
(***************************************************************************)
EXTENDS Process, SequencesExt

CONSTANTS
    SyserrFile,     \* the inode of the program
    NEG_FD, BIG_FD, \* -1073741823 and 1073741823
    BadNames,       \* "helloo", "shel" and ""
    KernelAddr      \* 0x400000

\* An entry of the descriptor table has 16 bytes and addresses 32 bits, so sys_write,
\* which looks at the entry first, finds NEG_FD at entry 1 and BIG_FD at entry -1: both
\* are mapped.
ASSUME SyserrAssumption ==
    /\ NEG_FD \in Int \ FarFds /\ NEG_FD < 0
    /\ BIG_FD \in Int \ FarFds /\ BIG_FD >= MAX_FILES
    /\ KernelAddr \in 0..(UserBase - 1)

VARIABLES
    select,     \* the test chosen, 0 for all of them, or NoTest
    at,         \* the next call of the script
    refused,    \* err_open_lots: opens that failed (cnt)
    failed,     \* the tests that have failed
    leftover    \* history: descriptors of syserr that were open when it began

testVars == <<select, at, refused, failed, leftover>>
NoTest == -1

Call(test, call, x) == [test |-> test, call |-> call, arg |-> x]
Each(test, call, from) ==
    [k \in 1..(MAX_FILES - from) |-> Call(test, call, from + k - 1)]

err_neg_fd == <<Call(1, "read", NEG_FD), Call(1, "write", NEG_FD), Call(1, "close", NEG_FD)>>
err_big_fd == <<Call(2, "read", BIG_FD), Call(2, "write", BIG_FD), Call(2, "close", BIG_FD)>>

\* One open more than there are descriptors, then all are closed.
err_open_lots ==
    [k \in 1..(MAX_FILES - 1) |-> Call(3, "open", <<".">>)] \o Each(3, "close", 2)
err_open == [k \in 1..Len(BadNames) |-> Call(4, "open", BadNames[k])]
err_unopened == Each(5, "close", 0) \o Each(5, "read", 2) \o Each(5, "write", 2)
err_vidmap == <<Call(6, "vidmap", 0), Call(6, "vidmap", KernelAddr)>>
err_stdin_out == <<Call(7, "write", 0), Call(7, "read", 1)>>
err_syscall_num == [k \in 1..3 |-> Call(8, "invalid", k)]

Tests == <<err_neg_fd, err_big_fd, err_open_lots, err_open, err_unopened, err_vidmap,
           err_stdin_out, err_syscall_num>>

\* The calls main makes for a selection; any other character makes none.
Script(sel) ==
    IF sel = 0 THEN FlattenSeq(Tests) ELSE IF sel \in DOMAIN Tests THEN Tests[sel] ELSE <<>>

SyserrRuns == mode = "user" /\ mem[cur] = SyserrFile
Over == select # NoTest /\ at > Len(Script(select))

Idle == select = NoTest /\ at = 1 /\ refused = 0 /\ failed = {} /\ leftover = {}

\* main asks which test to run.
Choose ==
    /\ SyserrRuns /\ select = NoTest
    /\ sys_read(0, 127)
    /\ select' \in 0..9
    /\ leftover' = {f \in Fds \ {0, 1} : MyFd(f).flag = 1}
    /\ UNCHANGED <<at, refused, failed>>

Perform(x) ==
    \/ x.call = "read" /\ sys_read(x.arg, 31)
    \/ x.call = "write" /\ sys_write(x.arg, 31)
    \/ x.call = "close" /\ sys_close(x.arg)
    \/ x.call = "open" /\ sys_open(x.arg)
    \/ x.call = "vidmap" /\ sys_vidmap(x.arg)
    \/ x.call = "invalid" /\ InvalidCall

\* One call.  err_open_lots counts the opens that fail and ignores what close answers.
TestCall ==
    /\ SyserrRuns /\ select # NoTest /\ ~Over
    /\ LET x == Script(select)[at]
           lots == x.test = 3
           wrong == IF lots THEN x.call = "close" /\ x.arg = MAX_FILES - 1 /\ refused # 1
                            ELSE ret'.val # -1 IN
       /\ Perform(x)
       /\ refused' = IF lots /\ x.call = "open" /\ ret'.val = -1 THEN refused + 1 ELSE refused
       /\ failed' = IF wrong THEN failed \cup {x.test} ELSE failed
    /\ at' = at + 1
    /\ UNCHANGED <<select, leftover>>

\* main returns 2 for each test that failed.
Finish ==
    /\ SyserrRuns /\ Over
    /\ sys_halt(2 * Cardinality(failed))
    /\ select' = NoTest /\ at' = 1 /\ refused' = 0 /\ failed' = {} /\ leftover' = {}

\* Every other program makes any calls.
OtherPrograms == ~SyserrRuns /\ Next /\ UNCHANGED testVars

SyserrInit == Init /\ Idle
SyserrNext == Choose \/ TestCall \/ Finish \/ OtherPrograms

\* syserr is not preempted, and its one read of the terminal returns if Enter is pressed
\* (ReadReturns of LineInput): with an answer it keeps running.  Nothing is assumed of the
\* other programs.
SyserrSpec ==
    /\ SyserrInit /\ [][SyserrNext]_<<vars, testVars>>
    /\ WF_<<vars, testVars>>(Choose \/ TestCall \/ Finish)

-------------------------------------------------------------------------------
\* With descriptors 2 to 7 free when syserr begins, all its tests pass, whatever programs
\* ran before and whichever test is chosen: every mistake is answered by -1, and none of
\* the tests spoils the state for the tests after it.
SyserrPassesFresh == Over /\ leftover = {} => failed = {}

\* What the tests say of a program that has just been started: "we should be able to open
\* 6 files" (err_open_lots) and "The rest haven't been opened. Nothing should be able to
\* be closed" (err_unopened).  All of them pass, whatever an earlier program in the slot
\* left open.
SyserrPasses == Over => failed = {}

\* No call of syserr ends in an exception, NEG_FD and BIG_FD included: once started it
\* halts and its parent goes on.
SyserrReturns == SyserrRuns ~> (mode = "user" /\ ~SyserrRuns)

===============================================================================
