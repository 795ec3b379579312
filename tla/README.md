# LumettaOS: TLA+ models, checks and proofs

LumettaOS is a small 32-bit x86 kernel (`src/student-distrib`) with a read-only
in-memory file system, a terminal, a real-time clock, paging, eight system calls and up
to six processes, the user programs that run on it (`src/syscalls`), and a program that
animates blinking characters (`src/fish`). The modules here model the parts of it that
have state, TLC checks them on small instances, and TLAPS proves the central properties
of nine of them for every size: processes, paging, interrupts, line input, the clock, the
memory routines, the command line, the programs that read files and the blinking
characters.

Paths below are relative to `src/`; `kernel` stands for `student-distrib`.

## 1. Inventory

| Part | State | Operations | What is hard about it |
|---|---|---|---|
| Processes and system calls (`kernel/syscall.c`, `handler_wrapper.S`) | six PCBs, their descriptor tables, the mapped user page, `tss.esp0`, kernel stacks | execute, halt, open, close, read, write, getargs, vidmap, set_handler, invalid numbers, exceptions | a context must be restored from four places when a child halts; slots are reused; calls fail half way |
| File system (`kernel/filesystem.c`) | the image (constant), file positions | lookup by name and index, `read_data`, `dir_read`, `file_read` | 32-bit sums, block boundaries, names without terminator, one entry past the last |
| Keyboard and line input (`kernel/keyboard.c`, `terminal.c`) | `keyboard_buffer`, its index, modifiers, `enterpress` | key and modifier interrupts, `terminal_read` | the handler runs between any two steps of the read, on the same buffer, without a lock |
| Screen (`kernel/lib.c`, `keyboard.c`, `terminal.c`) | video memory, cursor | `putc_term`, `scroll_term`, echo, erase, clear, `terminal_write` | wrapping and scrolling in two places, tabs, erasing across rows |
| RTC (`kernel/rtc.c`) | counter, period, flag, the chip | init, open, write, read, handler | ticks between the steps of a read, rate changes while counting, acknowledgement |
| Shell and command parsing (`syscalls/ece391shell.c`, `kernel/syscall.c`) | the shell's line buffer | prompt, exit, execute's parser | one buffer for all lines, terminators |
| Paging (`kernel/paging.c`, `syscall.c`) | page directory, table, TLB | `page_init`, `chgDir`, `flushTLB` | stale translations, what user mode reaches |
| Interrupts and start-up (`kernel/i8259.c`, `idt.c`, `kernel.c`, `boot.S`, wrappers) | masks, requests, lines in service, IDT, interrupt flag, nested handlers | init, enable, EOI, entry, handler entry and exit | order of the start-up, nesting, priorities |
| Blinking characters (`fish/blink.S`, `fish.c`) | a linked list in an array, video memory | add, remove, find, sync, tasklet | a list in assembly, allocation by a field being zero |
| ls, cat, grep (`syscalls`) | descriptor, buffer, output | open, read loop; grep's line splitter | ending exactly at the end; lines that straddle refills of a buffer |
| fish (`fish/fish.c`) | two frames, list of blinking characters | `add_frames`, the waits of `main` | two files read in lockstep, one ending first |
| syserr (`syscalls`) | the test chosen, failures | eight sequences of calls that must fail | what earlier programs left in its slot |
| Memory routines and formatting (`kernel/lib.c`) | registers, the direction flag; place in the format | `memset`, `memset_word`, `memset_dword`, `memcpy`, `memmove`; `printf`, `itoa`, `strrev` | alignment, overlap, a flag that outlives the call; the edges of the numbers |
| counter, pingpong, hello, testprint, sigtest (`syscalls`) | their buffers | clients of the calls | |
| PIT, scheduling (`kernel/pit.c`, `scheduling.c`) | none that runs | never called; `scheduling.c` is commented out | |
| Start-up data, headers, tests | static | | |

How they interact: a program enters the kernel through `syscall_wrapper` with
interrupts off. `terminal_read` and `rtc_read` turn them on and spin on a flag that the
keyboard or RTC handler sets. `sys_execute` reads the file system, changes the page
directory, flushes the TLB and starts a program; `sys_halt` undoes that and returns into
the suspended execute of the parent. There is no preemption: only interrupt handlers run
in between, and they touch line input, screen, RTC flag and the interrupt controllers.

What correctness means for each part:

- *Processes*: slots fill and empty like a stack; the running process has its own page,
  stack and PCB; suspended ones are untouched and can be resumed; no call through a
  descriptor nobody set up; a failing call has no effect.
- *File system*: programs that read to the end get exactly the content, and end.
- *Line input*: a line typed while no read is at work arrives whole; an Enter pressed before
  a read or while one waits makes it return.
- *Screen*: it shows the last rows of what was printed.
- *RTC*: a read returns, one read per tick, no period longer or shorter than set.
- *Command line*: the line that runs is the line typed.
- *Paging*: a program reaches its own page and video memory, never more; the kernel
  stays mapped.
- *Interrupts*: gates before interrupts, one end per interrupt, every request served.
- *Blink* and *fish*: list and allocator agree; a phase lasts its length and is the one
  shown; at every tick each cell shows the character of the frame whose turn it is, and
  what becomes of lines too long for the screen is said as well.
- *grep*: it prints the lines that contain the string, each once and in order.
- *syserr*: all its tests pass when it begins with nothing but its terminal open, as they
  take for granted.
- *lib.c*: a memory routine writes its destination and nothing else, whatever was called
  before it; `printf` shows each parameter as the number it is.

`PROJECT.json` lists the hazards, each at its line, with the properties that cover it or
the reason none does.

## 2. Modules

| Module | Models | State in the model and in the code |
|---|---|---|
| `FileSystem` | `filesystem.c` | operators over the image (`dirs`, `inodes`, `blocks`); lengths are taken modulo `Modulus`, for `uint32_t` |
| `FileReaders` | ls and cat over `FileSystem` | `e` the descriptor, `chunk` the buffer size, `out` what was printed |
| `Grep` | grep, on top of `FileReaders` | `data`, `last`, `cnt`, `line_start` the locals of `do_one_file`; `behind` the byte after the buffer when it begins |
| `Fish` | `main` and `add_frames` of fish, over `Blink` | the two descriptors, characters and end flags; `stage` and `waited` the place in `main` |
| `Programs` | one of ls, cat, grep and fish runs | the variables of all of them |
| `Process` | `syscall.c`, call dispatch, `get_pcb`, exception handlers | the fields of the PCBs by slot; `page`, `tss_esp0`, `kstack` the machine; one action per call |
| `Syserr` | syserr, over `Process` | `select`, `at` the next call of the script, `refused` the counter of `err_open_lots`, `failed` |
| `ProcessStack` | what the process calls promise | a stack of programs, the top one running |
| `LineInput` | keyboard handler, `terminal_read` | `keyboard_buffer`, `keyboard_buffer_index`, `enterpress`; the program counter and locals of the read |
| `Screen` | `putc_term`, `scroll_term`, `clear_term`, echo, `terminal_write`, the `memset` of `terminal_read` | `scr` holds video memory and cursor, `line` the line being edited; `wipe` and `wiped` say how far a read has cleared the buffer behind it and which tabs it met |
| `LibMemory` | the memory routines of `lib.c` | registers, direction flag, memory; a byte is known by the address it had when the call began |
| `LibFormat` | `printf`, `itoa`, `strrev` | place in the format, next parameter, output |
| `Lib` | `lib.c`: `Screen`, `LibMemory`, `LibFormat` | the variables of the three |
| `Rtc` | `rtc.c` with `RTC_VT_EN` | the three variables of the driver, registers A and C of the chip |
| `CommandLine` | the shell's loop and the parser of `sys_execute` | `buf` the shell's buffer with everything earlier lines left in it |
| `Clock` | `Rtc` and `Blink` | the variables of the two |
| `Paging` | `paging.c`, the mapping steps of execute and halt | directory, video table and `tlb`, the set of translations that may be cached |
| `Interrupts` | `i8259.c`, `idt_init`, `entry`, interrupt wrappers | masks, requests, in-service lines, gates, `stack` of handlers |
| `Machine` | `Interrupts` and `Paging` from the boot loader to running programs | the variables of the two |
| `Blink` | `blink.S`, allocator of `fish.c` | `blink_array` with `next` links, `mp1_list_head`, `vmem`, which is the live screen (`LiveScreen`) at first; locations, lengths and countdowns are unsigned shorts (`USHORT` values) |

`Process` and `FileReaders` extend `FileSystem`, so what a call reads is what the file
system code computes. `Fish` takes the list operations from `Blink` and reads its frames
through `file_read`; `Syserr` makes its calls with the actions of `Process`, and while
another program runs any call may happen. `Lib` lets the routines of `lib.c` run only
while the screen is empty: they share no variable with it, so other interleavings add
nothing. For the same reason `Clock` lets one of its two parts run while the other is as it
was at the start. `Machine` joins steps of its parts: `page_init` is one of the steps of
`entry`, the first execute runs with interrupts on, and every later change of the mapping
lies inside a system call, with interrupts off, that ends when the program is entered.
`Process` is composed with its abstraction by `INSTANCE ProcessStack WITH ...`.
The MC modules give constants their values. The proofs are in modules of their own
(section 4), named after the module they are about; `ClockProofs` is about the two that
count ticks, `Rtc` and `Blink`.

**History variables.** `line` and `last` in `LineInput`, `text`, `top`, `own` and `clean` in
`Screen`, `unused` in `Rtc`, `line` in `CommandLine`, `lost` in `Interrupts`,
`sole` and `dark` in `Blink`, `behind` in `Grep`, `leftover` in `Syserr` and `ret` in `Process` record what happened; no code
reads them.

**Undefined and machine-level outcomes.** A call through the word behind the call table,
an access to unmapped memory and an exception raised by a program all lead to
`mode = "spin"`: every handler in `idt.c` prints and loops. What a PCB holds before its
first use is zero, the state of memory under QEMU. A read of `terminal_read` on behalf of
a process returns any count of `TermCounts`; its own behaviour is `LineInput`.

## 3. Runs

Passing runs, with the number of distinct states:

| Run | States | Instance | Shows |
|---|---|---|---|
| `programs` | 20,657 | an image of every text up to 4 bytes of a letter, a blank and a newline, up to 5 without blanks, three of two full buffers of grep, two with NUL, one of nine rows; grep's buffer 3 bytes; for fish, pairs of frames of up to 2 characters, of 3 beside 1, and with the one of nine rows, on a live screen of 2 by 2 with the frames in the right column, 4 structures, locations of 16 values | cat prints a prefix of the file at every moment and all of it at the end, ls every name once, grep the matching lines, fish the frames; all return. Deadlock is not checked: the programs end |
| `process_tree` | 141,911 | 3 slots, 4 descriptors, all kinds of commands | `ActiveIsStack`, `RunsInOwnContext`, `ParentResumable`, `SuspendedUntouched`, and `Process` implements `ProcessStack` |
| `syserr` | 210,501 | 2 slots, 3 descriptors, all files, sizes -1 and 4, addresses around the user page; descriptors that wrap to the table entries 1 and -1 | `OpenHasOps`; a call that answers -1 has changed no PCB; syserr passes after any other programs that left none of its descriptors open; syserr returns |
| `line_input` | 153,276 | a buffer of 3, one letter, Enter, Backspace, a key without a character, Ctrl and Caps Lock | the buffer holds the line, clean lines arrive whole, no Enter outside of a read at work is lost |
| `clock` | 100,402 | the frequencies of the source; 3 structures, 2 cells and a location off the screen, phases of 1 and 2 ticks and one that is negative as a signed word | period, one read per tick, the two ways of deciding on a frequency agree, reads return; list, countdown, character shown |
| `command_line` | 90,852 | names of 2 of 6 bytes, lines of up to 4 | first word, typed arguments |
| `screen` | 463,988 | 3 rows of 3, tabs of 2, lines of 2, 5 characters of text; 11 bytes of memory; words of 8 bits, formats of up to 6 characters | the screen shows the text laid out on paper, also while a read wipes the buffer; `WritesExactly`; `PrintfRenders` |
| `machine` | 52,360 | the lines and vectors of the source, nesting up to 3, all 6 slots, two pages of video memory and another one | gates first, one end per interrupt, nesting, requests served; own frame only, reach of programs, kernel mapped |

Four runs check what a comment or a test says and find a behaviour of the code that
differs. `findings` in `PROJECT.json` quotes the lines.

| Run | The code does |
|---|---|
| `line_newline` | `terminal_read` finds the newline and copies it later, with interrupts on: a key pressed between overwrites it, and the read returns without one, although `terminal.c:15` says it always adds one |
| `command_stale` | the parser does not stop at the terminator, although `syscall.c:107` says so: a command without arguments gets some from a longer line before it |
| `syserr_leftover` | `sys_execute` leaves the last descriptors of a slot as they were: after a program that left one open, `err_open_lots` fails, although `ece391syserr.c:103` says six files can be opened (and `err_unopened` alone, although 173-174 say nothing can be closed) |
| `memset_unit` | `memset_word` and `memset_dword` set n words and double words, although `lib.c:298` and 318 say n bytes |

For every property of a passing run, `PROJECT.json` names a mutant: an operator beside
the definition it replaces, with a slip a programmer could make, under which TLC finds
that property violated.

**Bounds, and why they are enough.** Sizes are the smallest at which each boundary of
the code is met from both sides: blocks that reads straddle, one slot more than a parent
and a child, more descriptors than slots (as in the source, 8 and 6), a line that fills
the buffer, a screen that scrolls and wraps, an allocator that runs out. `MaxText` bounds
the history of `Screen`, `MaxLine` the lines of `CommandLine`, `MaxDepth` the nesting in
`Interrupts`, `MaxText`, `MaxLong`, `MaxFrame` and `MaxRows` the files of `MCPrograms`: frames
reach the right edge, the next row's frame cells and the end of the screen, use up the
structures and pass the width of a location; `MaxDepth` is a real
restriction of the run, not of the proofs, see sections 4 and 6. The slot of syserr
has one descriptor that `sys_execute` clears in no case, as 6 and 7 in the source. `Rtc`, `Paging` and
`Interrupts` use the numbers of the source, but for two of the eight video pages.

**Fairness.** Liveness rests on these assumptions.

- `Programs`: weak fairness of the program that runs. There is one CPU, no preemption,
  reads of the file system do not block, and reads of the clock return.
- `Syserr`: weak fairness of the steps of syserr, the answer to its one question
  included; nothing is assumed of other programs.
- `LineInput`: weak fairness of the steps of a read that has begun. Handlers return to
  it. Keys are not fair, nor is it assumed that a program reads: `ReadReturns` says what
  follows from an Enter that was pressed.
- `Rtc`, and with it `Clock`: the chip keeps ticking, an enabled interrupt is taken, a read goes on.
- `Machine` (and `Interrupts` alone): weak fairness of the CPU's steps, those of a call
  that changes the mapping included. Strong fairness of the steps of `entry` and of
  each level of the nest, because a handler takes far less than a tick (1/1024 s), and of
  the delivery of each line, because the controller keeps a request until it is taken. The
  RTC has the lower priority, so its service is claimed only while no key is waiting.

## 4. Proofs

Each theorem holds for every value of the constants that satisfies the assumptions of its
module; TLC evaluates those on the runs. Each property is also checked by a run, and TLC
finds each inductive invariant true on the instance of its run.

| Module | Theorem | States |
|---|---|---|
| `ProcessProofs` | `TypeCorrect` | `Spec => []TypeOK` |
| | `StackDiscipline` | `Spec => []ActiveIsStack` |
| | `OwnContext` | `Spec => []RunsInOwnContext` |
| | `HaltCanReturn` | `Spec => []ParentResumable` |
| | `OperationsSet` | `Spec => []OpenHasOps` |
| | `SuspendedKept` | `Spec => SuspendedUntouched` |
| | `CallsImplementStack` | `Spec => ImplementsStack` |
| | `FailuresAreClean` | `Spec => FailureHasNoEffect` |
| `ClockProofs` | `NextTickWithinPeriod` | `Spec => []CounterBelowMax` |
| | `TickUsedOnce` | `Spec => []OneReadPerTick` |
| | `ListIsAllocatedAlways` | `BlinkSpec => []ListIsAllocated` |
| | `CountdownInPhaseAlways` | `BlinkSpec => []CountdownInPhase` |
| | `PhaseShownAlways` | `BlinkSpec => []PhaseShown` |
| `PagingProofs` | `ProgramsHaveOwnFrame` | `PageSpec => []OwnFrameOnly` |
| | `ProgramsAreConfined` | `PageSpec => []ProgramReach` |
| | `KernelMapped` | `PageSpec => []KernelStaysMapped` |
| `InterruptsProofs` | `NoInterruptLost` | `Spec => []GatesFirst` |
| | `NestsOnlyClock` | `Spec => []OnlyRtcIsNested` |
| | `ServiceInStep` | `Spec => []ServiceMatchesHandlers` |
| `LineInputProofs` | `TypeCorrect` | `Spec => []TypeOK` |
| | `BufferInStep` | `Spec => []BufferHoldsLine` |
| | `LineDelivered` | `Spec => []CleanLineDelivered` |
| `LibMemoryProofs` | `RoutinesWriteWanted` | `MemSpec => []WritesExactly` |
| `CommandLineProofs` | `NameParsed` | `Spec => []NameIsFirstWord` |
| | `ArgumentsParsed` | `Spec => []TypedArgsArrive` |
| `ProgramsProofs` | `CatPrintsPrefixAlways` | `ProgramsSpec => []CatPrintsPrefix` |
| | `CatPrintsWholeFileAlways` | `ProgramsSpec => []CatPrintsWholeFile` |
| | `LsPrintsAllAlways` | `ProgramsSpec => []LsPrintsAll` |

**Processes** (`ProcessProofs`): every image, number of slots and
descriptors (at least two slots, no more slots than descriptors) and every set of inputs.
The inductive invariant `IndInv` is `TypeOK /\ StackInv /\ DescInv`. None of the
invariants is inductive alone. `sys_execute` takes `pid - 1` for the parent, which is the
caller only because the active slots are `0..cur`; that they still are after `sys_halt`
depends on `parent_pid` and on the suspended call (`ParentResumable`) and on the call
having run on the right stack (`RunsInOwnContext`). `BootState` covers the time before the
first execute, and `BaseHasNoParent` separates the halt of the base shell, which starts a
new one in the slot it has just freed. `OpenHasOps` speaks of the terminal of the running
process only; a parent becomes the running process when its child halts, so
`ActiveHasTerminal` says it of all active ones. The proof has one lemma per action.

That `Process` implements `ProcessStack` follows from the same invariant, step by step.
`StepKinds` sorts the steps into the boot, a halt, an execute that starts a program, and
calls that return or end in an exception handler; the last kind maps to a stutter or to
the stop of the abstract machine. For an execute the invariant says that the first free
slot is `cur + 1`, so the mapped stack grows by one; for a halt, that the slot given back
is the topmost and the parent the one below. `FailureHasNoEffect` turns on `sys_read`:
`file_read` adds its answer to the position, be it -1, but an open file has an inode of the
image (`OpenDescsOK`), so it does not fail, and a directory read that answers -1 moves
nothing (`FailedReadMovesNothing`). Assumptions: `ImageAssumption` (a
well-formed image) and `ProcessAssumption` (types and bounds of the constants).

**Clock** (`ClockProofs`, first part): all frequencies. The invariant for the counter adds that no
period is longer than that of the base frequency: `rtc_open` changes the period without
resetting the counter, and is safe only because it sets the longest one. `OneReadPerTick`
is inductive as it stands. Assumption: `RtcAssumption`.

**Blinking characters** (`ClockProofs`, second part): every number of structures and cells,
every width of their fields, every set of characters to blink and whatever is on the screen
at first. `BlinkInv` has four parts: the types; `ListInv`, that the
`next` fields lead from the head through the structures in use, once each, to the end;
`PhaseInv`, the bounds of the countdowns; `SoleInv`, that a cell with one structure shows
its phase or, if it is dark, the off character. `mp1_ioctl_sync` always pokes the off
character, because `testb` leaves nothing for `cmovl` to move on; `dark` holds the cells
where that was wrong, and the theorem says that it stays wrong no longer than the phase. The list is what a recursive function reads off the links. `WalkIs` ties it to
any sequence without repetition that the links follow, so that an operation is proved by
naming the list it leaves: `AddChain` puts the new structure in front, `RemoveChain` takes
one out of the middle. `ListIsAllocated` is not inductive without the order of the links:
`mp1_ioctl_remove` walks to the structure before the one it frees, and finds it only
because the walk meets every structure in use. The tasklet visits each structure once
(`TickIs`), so no countdown is decreased twice in a tick. Assumption: `BlinkAssumption`,
that lengths of phases and locations fit their fields and are not 0, the mark of a free
structure.

**Paging** (`PagingProofs`): every number of slots, every set of video pages. `PagingInv`
says of the tables that they are those of `page_init` but for the program's entry, which
is that of the slot about to run, and of the cache that it holds only translations of
`page_init` and program pages of some slot, and nothing stale except between the exchange
of the entry and the flush. The three properties look at the cache, so they are not
inductive without the second part. Assumption: `PagingAssumption`, that video pages and
other pages are distinct and page 0 is neither. The steps of `Machine` leave the variables
of `Paging` alone or are steps of it, and likewise for `Interrupts`, so the theorems of both
hold there too.

**Interrupts** (`InterruptsProofs`): every depth of nesting, so the bound `MaxDepth` of
the run does not matter for these. `IntInv` adds that gates are in place before the first step of `entry`
that enables interrupts, and that in a handler the interrupt flag is set exactly between
the end of the clock's handler and its `popfl`. The latter is what makes only the clock's
handler interruptible, and what makes the lines in service those of the innermost handler
alone. Assumption: the bound is positive.

**Line input** (`LineInputProofs`): every buffer size from 2, every word size of `memset`
that divides it, every keyboard. `TypeInv` adds to the types that `memset` is at a whole
word, without which the last word could reach past the buffer. `LineInv` adds to
`BufferHoldsLine` that the line being typed holds no newline or NUL and that the locals of
a read are fresh. `WaitingLine` follows a clean line from its Enter to the caller: it
lies in the buffer until it is copied, nothing has been typed after it, the search stops
at its newline and not before, and what is copied so far is its beginning. Assumption:
`LineAssumption`.

**Memory routines** (`LibMemoryProofs`): every size of memory and every sequence of calls.
`MemInv` follows the registers. Forward, the bytes below `edi` are written, `edi` and the
bytes left add up to the end of the block, and the source keeps pace; backward, the bytes
above `edi` are written. That what is read next has not been written yet is arithmetic
from there: a forward copy reads at or above `edi`, a backward one below. The direction
flag is part of the invariant because `memmove` leaves it set; every routine sets it
before its `rep`. `MemSpec` is the part of `Lib` that concerns the memory variables: all
other steps of `LibNext` leave them unchanged. Assumption: `SizeAssumption`.

**Command line** (`CommandLineProofs`): every length of lines, names and buffers.
`BufferInv` says that the buffer begins with the line and its terminator and ends in NUL,
whatever lies between. The rest is about the parser, whose loops are modelled by the least
place where they stop; that there is one is the well-foundedness of the naturals
(`MinExists`, from the library's `WFMin`), and its value is found by cases on the shape of
the line. Assumption: `CommandAssumption`, that the buffer has room for the longest line,
its terminator and the cut-off of the arguments, that it ends in NUL before the first
line, and that neither NUL nor newline is a letter.

**Programs that read files** (`ProgramsProofs`): every image, block size, name length,
width of the integers and size of cat's buffer. `ReaderInv` says that what ls has printed
is the names of the entries before its position, and what cat has printed the bytes of the
file before its position, which is never past the end. `ContentIs` relates a file's
content, its blocks joined and cut at its length, to the byte at each place;
`ClippedIs` says how many bytes `read_data` returns when `len + off` may pass the end of the
file or wrap, and `CopiedOn` that one read continues the bytes of the reads before it.
Assumptions: `ImageAssumption`, and `ReaderAssumption`: a buffer is not of size 0 (cat would
read nothing for ever), a file fits into user memory, far below the modulus of the
integers, the number of entries is below it too, and "." is a directory.

Recursive functions are unfolded in these two modules from their definition, and what they
compute is shown by a least counterexample (`LeastElement`, from the library's `WFMin`).

**Only model-checked**, and why:

- `RequestsServed`, `RtcReadReturns`, `ReadReturns`, `ProgramsReturn`, `SyserrReturns`:
  liveness under fairness, beyond this prover.
- `RatesAgree`: true of the powers of two in the source, not of all frequencies; the
  provers have no theory of powers.
- `GrepPrintsMatches`, `FishShowsFrames`, `PrintfRenders`: they compare the code with what
  an operator of the library does along a sequence (a selection, a fold), whose value for
  every input is an induction the provers cannot do.
- `ShowsText` and the types of `Screen`: `terminal_write` folds over the text, and the paper
  the screen is compared with is a fold too.
- `SyserrPassesFresh`: the script of a test is a flattened sequence of sequences.

## 5. Divergences between code and documents

Met while modelling. The models contain the behaviour of the code. The first, and the row
of `memset_word`, are runs of their own (section 3). `PhaseShown`, `FishShowsFrames` and
`CountdownInPhase` say what the code does where the table names them; the properties of
the other parts exclude the case, or do not meet it.

| Where | The code | What is said |
|---|---|---|
| `kernel/syscall.c:173` | the loop over descriptors ends at 6, and `sys_halt` clears only descriptor 0: 6 and 7 stay open for the next process in the slot | `syscalls/ece391syserr.c:103`: "fd = 0,1 taken, so we should be able to open 6 files", and 173-174: "The rest haven't been opened" (run `syserr_leftover`) |
| `kernel/syscall.c:82` | `movsbl` makes a status above 127 negative; 255 looks like a missing command | `kernel/syscall.c:47`: "returns specified value to its parent process" |
| `kernel/handler_wrapper.S:291` | number 9 passes the test but the table ends at 8 | `kernel/syscall.c:478-483`: set_handler returns -1 |
| `kernel/syscall.c:472` | 132 MB itself is accepted and written to | `kernel/syscall.c:468`: "if out of user space return -1" |
| `kernel/syscall.c:330` | the flag is read before the number is checked | `kernel/syscall.c:316`: "returns -1 if its invalid" |
| `kernel/idt.c:73-239` | every exception handler spins | `syscalls/ece391shell.c:30-31` expects 256 from execute |
| `kernel/scheduling.c`, `kernel.c` | nothing schedules: a parent waits until its child halts | `README.md:14`: "round-robin scheduling of multiple user processes" |
| `kernel/filesystem.c:137` | `len + off` wraps for a negative count, and the read is not cut | `kernel/filesystem.c:138`: "adjusts len to read maximum number of bytes" |
| `kernel/filesystem.c:190` | a read wider than a full-width name returns bytes of the file type | `kernel/filesystem.c:176`: "Reads a filename" |
| `kernel/terminal.c:52` | the count of the caller is not used | `kernel/terminal.c:30`: "or as much as fits in the buffer" |
| `kernel/terminal.c:53-54` | an Enter pressed while a read searches, copies or clears is forgotten with the one that was read: the line may be wiped, and the next read waits for another Enter. `ReadReturns` promises nothing for it | |
| `kernel/keyboard.c:231` | a tab of the line being typed that `terminal_read` has wiped (`terminal.c:53` clears the buffer, not its index) is erased as one column; `ShowsText` excludes it | |
| `kernel/rtc.c:88` | a tick from before the read satisfies it | `kernel/rtc.c:80`: "Wait for an interrupt to occur, then return 0" |
| `kernel/lib.c:566` | tabs lead past the last cell of the bottom row, and the next character is written there | `kernel/lib.c:559`: "Output a character to the console" |
| `kernel/lib.c:180` | `putc` reduces the column before it looks for a carry, so a full row is written over; a newline on the last row leads below the screen | `kernel/lib.c:170`: "Output a character to the console" |
| `kernel/lib.c:151` | `printf` returns the length of the format | `puts` beside it (`kernel/lib.c:156`) returns the "Number of bytes written" |
| `kernel/lib.c:306` | `memset_word` and `memset_dword` store n words, of 2 and 4 bytes | `kernel/lib.c:298` and 318: "n = number of bytes to set" (run `memset_unit`) |
| `fish/blink.S:281-282` | after `testb` the condition of `cmovl` is never true: a synchronisation shows the off character in the on phase as well, until it ends. `PhaseShown` states it (`dark`) | |
| `fish/blink.S:64-66` | the countdown is compared as a signed word: a phase of more than 32768 ticks ends at its first. `CountdownInPhase` allows it | `fish/blink.h:6-15` has unsigned lengths |
| `fish/fish.c:125` | a line too long for its row runs on in the next one, over what belongs there; places off the screen or after the 2000th are dropped unnoticed. `FishShowsFrames` states it | |
| `kernel/lib.c:396` | `memmove` leaves the direction flag set; compiled code may take it to be clear. No caller exists | |
| `syscalls/ece391grep.c:33` | the byte behind the buffer is never written before it is tested; a newline there ends a line early. A line longer than the buffer is searched in pieces | `syscalls/ece391grep.c:34`: "copy from line_start to last down to 0" |
| `syscalls/ece391grep.c:36` | `strcpy` moves only up to a NUL, so the rest of a binary file's line is taken from old bytes | the same comment |

## 6. Not modelled

- PIT and scheduling: dead code.
- The cursor of `putc`, which writes to the screen without scrolling at start-up and in
  exceptions; `LibFormat` records the characters it is given.
- Formats that end inside a directive: `printf` would read on behind them; no caller in
  the repository has one.
- `memcpy` onto a destination that begins inside its source: outside its contract.
- Parsing of the multiboot information, LDT, TSS and GDT set-up: done once, in order.
- Contents of user memory, and with it that bss is not cleared when a program is loaded.
- Depth of nested handlers against the 8 KB stack: `rtc_handler` enables interrupts before
  it returns, and only time bounds the nest.
- Spurious interrupts of the controllers.
- The kernel's tests, the user support library and the emulation of the calls on Linux.
- counter, pingpong, hello, testprint and sigtest: straight sequences of modelled calls.

## 7. Plan

Done, in this order: `FileSystem`, `FileReaders`, `Process` with `ProcessStack`,
`LineInput`, `Rtc`, `CommandLine`, `Screen`, `Blink`, `Paging`, `Interrupts`,
`ProcessProofs`, `ClockProofs` for `Rtc`, `Grep`, `Fish`, `Programs`, `Syserr`,
`LibMemory`, `LibFormat`, `Lib`, `PagingProofs`, `InterruptsProofs`, `LineInputProofs`,
`LibMemoryProofs`, `CommandLineProofs`, `ClockProofs` for `Blink`, `ProgramsProofs`,
`Clock`, `Machine`.

Next, models:

1. `Console`: `LineInput` composed with `Screen`: what the line on the screen shows is what
   the next read delivers.
2. `Sharing`: two processes that share the one RTC rate, with pingpong and counter as
   clients.

Next, proofs:

1. The bounds of the cursor in `Screen`, and that `scroll_term` keeps the rows below it.
2. `GrepPrintsMatches`, from the lines of a file as places of newlines instead of a
   selection.
