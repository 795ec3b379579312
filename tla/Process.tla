------------------------------- MODULE Process -------------------------------
(***************************************************************************)
(* Processes and system calls: syscall.c with the call dispatch of         *)
(* handler_wrapper.S, get_pcb of filesystem.c, and the exception handlers  *)
(* of idt.c.  One CPU, no preemption: a system call runs to its end before *)
(* anything but an interrupt handler runs, and the handlers do not touch   *)
(* this state, so one call is one action.  A process that executes another *)
(* is suspended on its kernel stack until that one halts.                  *)
(***************************************************************************)
EXTENDS FileSystem

CONSTANTS
    MAX_PROCESSES,  \* PCB slots (6)
    MAX_FILES,      \* descriptors of a process (8)
    UserRoom,       \* bytes from a user buffer to the end of the user page, at most
    KSTACK,         \* bytes from one PCB to the next (8 KB); the first is the last in memory
    ArgOffset,      \* place of the arguments in a PCB
    check_exe,      \* the first bytes of an executable (0x7f 'E' 'L' 'F')
    UserBase, UserTop,  \* _128MB and _132MB, the bounds of the user page
    Commands,       \* command names programs pass to execute
    Args,           \* argument strings, as sequences; <<>> is the empty string
    OpenNames,      \* file names programs pass to open
    Statuses,       \* values programs pass to halt (uint8_t)
    Sizes, ArgSizes,    \* nbytes programs pass to read and write, and to getargs (int32_t)
    FdInputs,       \* descriptors programs pass (int32_t)
    FarFds,         \* those of them whose table entry would lie in unmapped memory
    Addrs,          \* pointers programs pass to vidmap
    TermCounts      \* counts terminal_read may return

Shell == <<"s", "h">>
Quit == <<"q">>

ASSUME ProcessAssumption ==
    /\ MAX_PROCESSES \in Nat /\ MAX_FILES \in Nat
    /\ 2 <= MAX_PROCESSES /\ MAX_PROCESSES <= MAX_FILES
    /\ UserRoom \in Nat /\ UserRoom < Modulus
    /\ KSTACK \in Nat /\ ArgOffset \in 0..KSTACK
    /\ <<>> \in Args
    /\ Statuses \subseteq 0..255
    /\ Sizes \subseteq Int /\ ArgSizes \subseteq Int /\ FdInputs \subseteq Int
    /\ FarFds \cap 0..(MAX_FILES - 1) = {}
    /\ UserBase \in Nat /\ UserTop \in Nat /\ Addrs \subseteq Nat
    /\ TermCounts \subseteq Nat

Slots == 0..(MAX_PROCESSES - 1)
Fds == 0..(MAX_FILES - 1)
NoChild == -1
NoPage == -1
Desc == [f_op : {"none", "term", "rtc", "dir", "file"}, inode : Nat,
         file_position : 0..(Modulus - 1), flag : {0, 1}]

Rets == [call : {"start", "execute", "read", "write", "open", "close", "getargs", "vidmap",
                 "invalid"}, val : Int]

VARIABLES
    \* the fields of the PCBs, by slot
    active, pid, parent_pid, args,
    saved_esp,      \* the slot whose kernel stack saved_esp and saved_ebp point into
    file_desc_tb,
    \* the machine
    page,           \* the user page mapped by page directory entry 32, by slot
    tss_esp0,       \* the slot whose kernel stack the next system call runs on
    kstack,         \* slot -> the child whose execute call is suspended on its kernel stack
    mem,            \* slot -> the inode of the program loaded in its user page
    cur,            \* the slot whose user context runs
    mode,           \* "boot", "user", or "spin" (in an exception handler's while(1))
    ret             \* the last value handed to user code, and by which call

pcbs == <<active, pid, parent_pid, args, saved_esp, file_desc_tb>>
machine == <<page, tss_esp0, kstack, mem, cur, mode, ret>>
vars == <<pcbs, machine>>

-------------------------------------------------------------------------------
\* The PCB a system call works on: the CPU enters the kernel on the stack tss.esp0
\* names, and get_pcb finds the slot from ESP.
get_pcb == tss_esp0

\* The kernel stack of slot k is used anew by every call that enters on it.
Return(call, v) ==
    /\ ret' = [call |-> call, val |-> v]
    /\ kstack' = [kstack EXCEPT ![get_pcb] = NoChild]
    /\ UNCHANGED <<page, tss_esp0, mem, cur, mode>>

\* The call ends in an exception handler, which prints and spins with interrupts off.
Fault ==
    /\ mode' = "spin"
    /\ kstack' = [kstack EXCEPT ![get_pcb] = NoChild]
    /\ UNCHANGED <<page, tss_esp0, mem, cur, ret>>

\* Mutant: the operations of descriptor 1 are not set.
NewTable_NoStdout(t) ==
    [f \in Fds |-> IF f = 0 THEN [t[f] EXCEPT !.f_op = "term", !.flag = 1]
                   ELSE IF f < MAX_PROCESSES THEN [t[f] EXCEPT !.flag = IF f = 1 THEN 1 ELSE 0]
                   ELSE t[f]]

\* sys_execute, the descriptor table of the new process: 0 and 1 are the terminal, and
\* the loop over the others runs to MAX_PROCESSES.
NewTable(t) ==
    [f \in Fds |-> IF f < 2 THEN [t[f] EXCEPT !.f_op = "term", !.flag = 1]
                   ELSE IF f < MAX_PROCESSES THEN [t[f] EXCEPT !.flag = 0]
                   ELSE t[f]]

\* Mutant: any free slot.
FirstFree_Any(act, i) == ~act[i]

\* The search for a PCB stops at the first one that is not active.
FirstFree(act, i) == ~act[i] /\ \A j \in Slots : j < i => act[j]

\* Mutant: the program is loaded before its page is mapped.
LoadProgram_TooEarly(i, ind) ==
    /\ page' = i
    /\ mem' = [mem EXCEPT ![IF page = NoPage THEN i ELSE page] = ind]

\* The user page of slot i is mapped, then the program is read into it.
LoadProgram(i, ind) ==
    /\ page' = i
    /\ mem' = [mem EXCEPT ![i] = ind]

\* Mutant: saved_esp keeps the value it is first given, the top of slot 0's stack.
SaveStack_Boot(i) ==
    /\ saved_esp' = [saved_esp EXCEPT ![i] = 0]
    /\ kstack' = [kstack EXCEPT ![get_pcb] = i]

\* The caller stays suspended on its kernel stack; the new process remembers where.
SaveStack(i) ==
    /\ saved_esp' = [saved_esp EXCEPT ![i] = get_pcb]
    /\ kstack' = [kstack EXCEPT ![get_pcb] = i]

\* sys_execute from the choice of the slot on: arguments, user page, program image, PCB,
\* tss, the caller's stack pointers, and the jump to user mode.  act, tb and pids
\* are the active flags, descriptor tables and pids the call finds.
Start(act, tb, pids, i, ind, a) ==
    /\ args' = [args EXCEPT ![i] = a]
    /\ LoadProgram(i, ind)
    /\ pid' = [pids EXCEPT ![i] = i]
    /\ active' = [act EXCEPT ![i] = TRUE]
    /\ parent_pid' = [parent_pid EXCEPT ![i] = i - 1]
    /\ file_desc_tb' = [tb EXCEPT ![i] = NewTable(tb[i])]
    /\ tss_esp0' = i
    /\ SaveStack(i)
    /\ cur' = i
    /\ mode' = "user"
    /\ ret' = [call |-> "start", val |-> 0]

\* The ELF check: the header read from the file begins with check_exe.
IsExecutable(d) ==
    /\ d.ft = FtFile
    /\ d.ind < nnod
    /\ Len(check_exe) <= inodes[d.ind].len
    /\ Copied(d.ind, 0, Len(check_exe)) = check_exe

ASSUME ShellAssumption ==
    Matches(Shell) # {} /\ IsExecutable(read_dentry_by_name(Shell))

\* entry (kernel.c) ends with sys_execute("shell"), on the boot stack, which is that of
\* slot 0.  The parser reads past the end of the literal, so the arguments of this
\* shell are whatever follows it in memory.
Boot ==
    /\ mode = "boot"
    /\ \E i \in Slots, a \in Args :
          /\ FirstFree(active, i)
          /\ Start(active, file_desc_tb, pid, i, read_dentry_by_name(Shell).ind, a)

\* movsbl: the status byte is sign-extended on its way to the parent.
SignExtend8(s) == IF s < 128 THEN s ELSE s - 256

\* Mutant: tss.esp0 is not restored.
RestoreParent_KeepsTss(k) ==
    /\ page' = parent_pid[k] /\ cur' = saved_esp[k] /\ UNCHANGED tss_esp0
    /\ kstack' = [kstack EXCEPT ![k] = NoChild, ![saved_esp[k]] = NoChild]

\* The parent's user page is mapped, its kernel stack goes back into the tss, and the
\* stack saved by the execute call is taken up again.
RestoreParent(k) ==
    /\ page' = parent_pid[k] /\ cur' = saved_esp[k] /\ tss_esp0' = parent_pid[k]
    /\ kstack' = [kstack EXCEPT ![k] = NoChild, ![saved_esp[k]] = NoChild]

\* sys_halt of a process that has a parent: back to the parent's user page and kernel
\* stack, out of its execute call.
HaltToParent(k, status) ==
    /\ active' = [active EXCEPT ![k] = FALSE]
    /\ file_desc_tb' = [file_desc_tb EXCEPT ![k][0].flag = 0]
    /\ RestoreParent(k)
    /\ ret' = [call |-> "execute", val |-> SignExtend8(status)]
    /\ UNCHANGED <<pid, parent_pid, args, saved_esp, mem, mode>>

\* sys_halt of the base shell: its slot is freed and a new shell is executed at once.
HaltBaseShell(k) ==
    \E i \in Slots, a \in Args :
        LET act == [active EXCEPT ![k] = FALSE] IN
        /\ FirstFree(act, i)
        /\ Start(act, [file_desc_tb EXCEPT ![k][0].flag = 0], [pid EXCEPT ![k] = @ - 1],
                 i, read_dentry_by_name(Shell).ind, a)

\* Mutant: the base shell is not told apart.
sys_halt_NoBaseShell(status) == mode = "user" /\ HaltToParent(get_pcb, status)

sys_halt(status) ==
    /\ mode = "user"
    /\ IF parent_pid[get_pcb] = -1
       THEN HaltBaseShell(get_pcb)
       ELSE HaltToParent(get_pcb, status)

\* strncmp(command_name, "quit", 4): every command that begins so.
IsQuit(c) == Len(Quit) <= Len(c) /\ SubSeq(c, 1, Len(Quit)) = Quit

sys_execute(c, a) ==
    /\ mode = "user"
    /\ \/ /\ c = <<>>
          /\ Return("execute", 0) /\ UNCHANGED pcbs
       \/ /\ c # <<>> /\ IsQuit(c)
          /\ sys_halt(0)
       \/ /\ c # <<>> /\ ~IsQuit(c)
          /\ \/ Matches(c) = {}
             \/ Matches(c) # {} /\ ~IsExecutable(read_dentry_by_name(c))
             \/ \A i \in Slots : active[i]
          /\ Return("execute", -1) /\ UNCHANGED pcbs
       \/ /\ c # <<>> /\ ~IsQuit(c)
          /\ Matches(c) # {} /\ IsExecutable(read_dentry_by_name(c))
          /\ \E i \in Slots :
                /\ FirstFree(active, i)
                /\ Start(active, file_desc_tb, pid, i, read_dentry_by_name(c).ind, a)

-------------------------------------------------------------------------------
\* A descriptor of the calling process, and writing one back.
MyFd(f) == file_desc_tb[get_pcb][f]

\* Mutant: the table of the first PCB is written.
SetFd_First(f, d) ==
    /\ file_desc_tb' = [file_desc_tb EXCEPT ![0][f] = d]
    /\ UNCHANGED <<active, pid, parent_pid, args, saved_esp>>

SetFd(f, d) ==
    /\ file_desc_tb' = [file_desc_tb EXCEPT ![get_pcb][f] = d]
    /\ UNCHANGED <<active, pid, parent_pid, args, saved_esp>>

FreeFd(f) == f >= 2 /\ MyFd(f).flag = 0

OpsOf(ft) == CASE ft = FtRtc -> "rtc" [] ft = FtDir -> "dir" [] ft = FtFile -> "file"

sys_open(name) ==
    /\ mode = "user"
    /\ \/ /\ Matches(name) = {} \/ \A f \in Fds : ~FreeFd(f)
          /\ Return("open", -1) /\ UNCHANGED pcbs
       \/ /\ Matches(name) # {}
          /\ \E f \in Fds :
                LET d == read_dentry_by_name(name) IN
                /\ FreeFd(f) /\ \A g \in Fds : g < f => ~FreeFd(g)
                /\ SetFd(f, [f_op |-> OpsOf(d.ft), flag |-> 1, file_position |-> 0,
                             inode |-> IF d.ft = FtFile THEN d.ind ELSE MyFd(f).inode])
                /\ Return("open", f)

sys_close(f) ==
    /\ mode = "user"
    /\ IF f \in Fds \ {0, 1} /\ MyFd(f).flag = 1
       THEN SetFd(f, [MyFd(f) EXCEPT !.flag = 0]) /\ Return("close", 0)
       ELSE UNCHANGED pcbs /\ Return("close", -1)

\* The read operation behind an open descriptor.
ReadThrough(f, n) ==
    LET d == MyFd(f)
        r == IF d.f_op = "dir" THEN dir_read(d, n) ELSE file_read(d, n)
    IN  \/ d.f_op = "term" /\ UNCHANGED pcbs /\ \E c \in TermCounts : Return("read", c)
        \/ d.f_op = "rtc" /\ UNCHANGED pcbs /\ Return("read", 0)
        \/ /\ d.f_op \in {"dir", "file"}
           /\ IF r.ret > UserRoom
              THEN Fault /\ UNCHANGED pcbs
              ELSE SetFd(f, [d EXCEPT !.file_position = r.pos]) /\ Return("read", r.ret)

sys_read(f, n) ==
    /\ mode = "user"
    /\ IF f \in Fds \ {1} /\ MyFd(f).flag = 1
       THEN ReadThrough(f, n)
       ELSE UNCHANGED pcbs /\ Return("read", -1)

\* The flag is read before the range of f is checked: an entry far outside the table is
\* a page fault, one near it is some mapped word and the call ends with -1 either way.
sys_write(f, n) ==
    /\ mode = "user"
    /\ UNCHANGED pcbs
    /\ \/ f \in FarFds /\ Fault
       \/ /\ f \notin FarFds
          /\ ~(f \in Fds \ {0} /\ MyFd(f).flag = 1 /\ MyFd(f).f_op \in {"term", "rtc"})
          /\ Return("write", -1)
       \/ /\ f \in Fds \ {0} /\ MyFd(f).flag = 1 /\ MyFd(f).f_op = "term"
          /\ Return("write", IF n <= 0 THEN -1 ELSE n)
       \/ /\ f \in Fds \ {0} /\ MyFd(f).flag = 1 /\ MyFd(f).f_op = "rtc"
          /\ \E ok \in BOOLEAN : Return("write", IF ok /\ n = 4 THEN n ELSE -1)

\* memcpy takes nbytes from the PCB, not the length of the arguments: it may run into the
\* end of the kernel page, which is that of slot 0's stack, or of the user page.
sys_getargs(n) ==
    LET a == args[get_pcb] IN
    /\ mode = "user"
    /\ UNCHANGED pcbs
    /\ \/ (n <= 0 \/ a = <<>> \/ n <= Len(a)) /\ Return("getargs", -1)
       \/ /\ n > 0 /\ a # <<>> /\ n > Len(a)
          /\ IF n > UserRoom \/ n > KSTACK * (get_pcb + 1) - ArgOffset
             THEN Fault ELSE Return("getargs", 0)

\* Mutant: only the upper end is checked; nothing is mapped at address 0.
sys_vidmap_NoLowerBound(addr) ==
    /\ mode = "user"
    /\ UNCHANGED pcbs
    /\ \/ addr > UserTop /\ Return("vidmap", -1)
       \/ addr = 0 /\ Fault
       \/ addr # 0 /\ addr <= UserTop /\ Return("vidmap", 0)

\* The four bytes of the pointer are stored at addr; the page after the user page has
\* no mapping at its start.
sys_vidmap(addr) ==
    /\ mode = "user"
    /\ UNCHANGED pcbs
    /\ \/ (addr < UserBase \/ addr > UserTop) /\ Return("vidmap", -1)
       \/ addr >= UserBase /\ addr + 4 <= UserTop /\ Return("vidmap", 0)
       \/ addr + 4 > UserTop /\ addr <= UserTop /\ Fault

\* Call number 9 passes the range check of syscall_wrapper, whose table ends at 8: the
\* call goes through the word after the table, which is no code address.
sys_sethandler == mode = "user" /\ UNCHANGED pcbs /\ Fault

\* Every other call number is answered by the wrapper itself.
InvalidCall == mode = "user" /\ UNCHANGED pcbs /\ Return("invalid", -1)

\* The running program raises an exception.
Exception == mode = "user" /\ UNCHANGED pcbs /\ Fault

\* while(1){} of the exception handlers.
Spin == mode = "spin" /\ UNCHANGED vars

-------------------------------------------------------------------------------
Init ==
    /\ active = [i \in Slots |-> FALSE]
    /\ pid = [i \in Slots |-> 0]
    /\ parent_pid = [i \in Slots |-> 0]
    /\ args = [i \in Slots |-> <<>>]
    /\ saved_esp = [i \in Slots |-> 0]
    /\ file_desc_tb = [i \in Slots |-> [f \in Fds |->
            [f_op |-> "none", inode |-> 0, file_position |-> 0, flag |-> 0]]]
    /\ page = NoPage /\ tss_esp0 = 0 /\ cur = 0
    /\ kstack = [i \in Slots |-> NoChild]
    /\ mem = [i \in Slots |-> 0]
    /\ mode = "boot"
    /\ ret = [call |-> "start", val |-> 0]

Next ==
    \/ Boot
    \/ \E s \in Statuses : sys_halt(s)
    \/ \E c \in Commands, a \in Args : sys_execute(c, a)
    \/ \E name \in OpenNames : sys_open(name)
    \/ \E f \in FdInputs : sys_close(f)
    \/ \E f \in FdInputs, n \in Sizes : sys_read(f, n)
    \/ \E f \in FdInputs, n \in Sizes : sys_write(f, n)
    \/ \E n \in ArgSizes : sys_getargs(n)
    \/ \E addr \in Addrs : sys_vidmap(addr)
    \/ sys_sethandler
    \/ InvalidCall
    \/ Exception
    \/ Spin

Spec == Init /\ [][Next]_vars

-------------------------------------------------------------------------------
TypeOK ==
    /\ active \in [Slots -> BOOLEAN]
    /\ pid \in [Slots -> Slots]
    /\ parent_pid \in [Slots -> Slots \cup {-1}]
    /\ args \in [Slots -> Args]
    /\ saved_esp \in [Slots -> Slots]
    /\ file_desc_tb \in [Slots -> [Fds -> Desc]]
    /\ page \in Slots \cup {NoPage}
    /\ tss_esp0 \in Slots
    /\ kstack \in [Slots -> Slots \cup {NoChild}]
    /\ mem \in [Slots -> Nat]
    /\ cur \in Slots
    /\ mode \in {"boot", "user", "spin"}
    /\ ret \in Rets

\* The active PCBs are always the slots 0..cur, however programs execute, fail to
\* execute, quit and halt: sys_execute takes parent_pid = pid - 1 for granted, which is
\* the caller only if the slots fill and empty like a stack.
ActiveIsStack ==
    mode # "boot" => \A i \in Slots : active[i] <=> i <= cur

\* While a process runs, the user page, the kernel stack of its next system call and so
\* the PCB get_pcb finds are its own.
RunsInOwnContext == mode # "boot" => page = cur /\ tss_esp0 = cur

\* Every suspended process can be resumed: the process above it has it as parent, points
\* into its kernel stack, and the execute call it is to return from is still there.
ParentResumable ==
    \A i \in Slots : mode # "boot" /\ active[i] /\ i > 0 =>
        /\ parent_pid[i] = i - 1 /\ saved_esp[i] = i - 1
        /\ kstack[i - 1] = i

\* An open descriptor always has operations, an open file an inode of the image, and
\* the running process its terminal: the jump through f_op in sys_read and sys_write is
\* never through an entry nobody set, whatever halted processes left behind.
OpenHasOps ==
    /\ \A i \in Slots, f \in Fds :
          LET d == file_desc_tb[i][f] IN
          d.flag = 1 => /\ d.f_op # "none"
                        /\ d.f_op = "file" => d.inode < nnod
    /\ mode = "user" => \A f \in {0, 1} : MyFd(f).flag = 1 /\ MyFd(f).f_op = "term"

\* Nothing a process does, nor a child's start or end, changes a suspended process: its
\* arguments, its descriptors, its pids or the program in its page.
SuspendedUntouched ==
    [][\A i \in Slots : mode = "user" /\ active[i] /\ i # cur =>
            /\ active'[i] /\ args'[i] = args[i] /\ file_desc_tb'[i] = file_desc_tb[i]
            /\ pid'[i] = pid[i] /\ parent_pid'[i] = parent_pid[i] /\ mem'[i] = mem[i]]_vars

\* A call that answers -1 has done nothing: no descriptor opened, closed or moved, no
\* process started or ended.  The status of a child is no such answer.
FailureHasNoEffect ==
    [][ret' # ret /\ ret'.val = -1 /\ cur' >= cur => UNCHANGED pcbs]_vars

\* The abstract stack of programs, read off the PCBs: a program per slot up to the one
\* that runs, and the running program is the one in the mapped page.
Stack == INSTANCE ProcessStack WITH
    Programs <- 0..(nnod - 1),
    shell <- read_dentry_by_name(Shell).ind,
    Depth <- MAX_PROCESSES,
    stack <- IF mode = "boot" THEN <<>> ELSE [k \in 1..(cur + 1) |-> mem[k - 1]],
    running <- IF mode = "boot" THEN 0 ELSE mem[page],
    stopped <- mode = "spin"

\* The system calls implement the stack of programs: execute and halt, failures,
\* quit and the restart of the base shell included, are its steps or leave it alone.
ImplementsStack == Stack!Spec

===============================================================================
