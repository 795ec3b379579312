------------------------------- MODULE Paging -------------------------------
(***************************************************************************)
(* Address translation (paging.c): the page directory and the one page     *)
(* table page_init sets up, the entry that execute and halt (syscall.c)    *)
(* change, and the processor's cache of translations (TLB), which keeps    *)
(* what it has read until flushTLB.  Virtual addresses are named by        *)
(* directory entry and, behind a page table, by table entry; memory by     *)
(* 4 MB frames, frame 0 by its 4 KB pages.                                 *)
(***************************************************************************)
EXTENDS Integers

CONSTANTS
    MAX_PROCESSES,
    VideoPages,     \* the table entries with a page behind them, 0xB8..0xBF
    OtherPages      \* table entries without one

ASSUME PagingAssumption ==
    /\ MAX_PROCESSES \in Nat \ {0}
    /\ VideoPages \subseteq Nat \ {0} /\ OtherPages \subseteq Nat \ {0}
    /\ VideoPages \cap OtherPages = {}

Slots == 0..(MAX_PROCESSES - 1)
ProgDir == 32               \* 128 MB: the program
VidDir == 33                \* 132 MB: video memory for programs
Dirs == {0, 1, 2, ProgDir, VidDir}      \* 2 stands for all other entries
Tbl == VideoPages \cup OtherPages
Whole == 0                  \* the table entry of an address in a 4 MB page
Kernel == [frame |-> 1, page |-> Whole]
Video(t) == [frame |-> 0, page |-> t]

VARIABLES
    pageDir,    \* directory entry -> [p, us, ps, add]
    table,      \* table entry -> [p, us, add]
    pg,         \* paging is on
    tlb,        \* cached translations: [dir, tbl, us, to]
    cur,        \* the slot whose program is to run
    pc          \* "boot", "user", or in a call: "changed", "load", "halt"

pageVars == <<pageDir, table, pg, tlb, cur, pc>>

-------------------------------------------------------------------------------
NoEntry == [p |-> 0, us |-> 0, ps |-> 0, add |-> 0]

\* Mutant: the shared directory entry is opened to programs before both are stored.
InitialDir_UserLow ==
    [d \in Dirs |-> CASE d \in {0, VidDir} -> [p |-> 1, us |-> 1, ps |-> 0, add |-> 0]
                      [] d = 1 -> [p |-> 1, us |-> 0, ps |-> 1, add |-> 1]
                      [] OTHER -> NoEntry]

InitialDir ==
    [d \in Dirs |-> CASE d = 0 -> [p |-> 1, us |-> 0, ps |-> 0, add |-> 0]
                      [] d = VidDir -> [p |-> 1, us |-> 1, ps |-> 0, add |-> 0]
                      [] d = 1 -> [p |-> 1, us |-> 0, ps |-> 1, add |-> 1]
                      [] OTHER -> NoEntry]

InitialTable ==
    [t \in Tbl |-> IF t \in VideoPages THEN [p |-> 1, us |-> 1, add |-> t]
                   ELSE [p |-> 0, us |-> 0, add |-> 0]]

page_init ==
    /\ pc = "boot" /\ ~pg
    /\ table' = InitialTable
    /\ pageDir' = InitialDir
    /\ pg' = TRUE
    /\ UNCHANGED <<tlb, cur, pc>>

\* (_8MB + _4MB * i) >> 22
FrameOf(i) == 2 + i

\* Mutant: the entry is counted in units of 128 MB.
MapProgram_WrongEntry(i) ==
    pageDir' = [pageDir EXCEPT ![1] = [p |-> 1, us |-> 1, ps |-> 1, add |-> FrameOf(i)]]

\* chgDir(32, d): the program's page is that of slot i.
MapProgram(i) ==
    pageDir' = [pageDir EXCEPT ![ProgDir] = [p |-> 1, us |-> 1, ps |-> 1, add |-> FrameOf(i)]]

\* The processor's walk: all translations the tables now give.
Walk ==
    {[dir |-> d, tbl |-> Whole, us |-> pageDir[d].us, to |-> [frame |-> pageDir[d].add, page |-> Whole]] :
        d \in {e \in Dirs : pageDir[e].p = 1 /\ pageDir[e].ps = 1}}
    \cup
    {[dir |-> d, tbl |-> t, us |-> pageDir[d].us * table[t].us, to |-> Video(table[t].add)] :
        d \in {e \in Dirs : pageDir[e].p = 1 /\ pageDir[e].ps = 0}, t \in {u \in Tbl : table[u].p = 1}}

\* The processor may cache a translation at any time.
Fill ==
    /\ pg
    /\ \E w \in Walk \ tlb : tlb' = tlb \cup {w}
    /\ UNCHANGED <<pageDir, table, pg, cur, pc>>

HasParent(i) == i > 0

\* sys_execute: the page of the new slot is mapped; the first program is slot 0's, and so
\* is the shell that follows the one halted there.
ExecuteMap ==
    /\ \/ pc = "boot" /\ pg /\ cur' = 0
       \/ pc = "user" /\ cur + 1 \in Slots /\ cur' = cur + 1
       \/ pc = "user" /\ ~HasParent(cur) /\ cur' = 0
    /\ MapProgram(cur')
    /\ pc' = "changed"
    /\ UNCHANGED <<table, pg, tlb>>

\* Mutant: the write to cr3 is left out.
FlushedTLB_Not == tlb

\* Writing cr3 empties the cache: global pages are not enabled in cr4.
FlushedTLB == {}

flushTLB ==
    /\ pc \in {"changed", "halt"}
    /\ tlb' = FlushedTLB
    /\ pc' = IF pc = "changed" THEN "load" ELSE "user"
    /\ UNCHANGED <<pageDir, table, pg, cur>>

\* read_data into the program's page, and the jump to the program.
Load ==
    /\ pc = "load" /\ pc' = "user"
    /\ UNCHANGED <<pageDir, table, pg, tlb, cur>>

\* sys_halt: the page of the parent, the slot below, is mapped again.
HaltMap ==
    /\ pc = "user" /\ HasParent(cur)
    /\ cur' = cur - 1
    /\ MapProgram(cur')
    /\ pc' = "halt"
    /\ UNCHANGED <<table, pg, tlb>>

\* What the image of the kernel holds when it is loaded.
PageInit ==
    /\ pageDir = [d \in Dirs |-> NoEntry]
    /\ table = [t \in Tbl |-> [p |-> 0, us |-> 0, add |-> 0]]
    /\ pg = FALSE /\ tlb = {} /\ cur = 0 /\ pc = "boot"

PageNext == page_init \/ Fill \/ ExecuteMap \/ flushTLB \/ Load \/ HaltMap

PageSpec == PageInit /\ [][PageNext]_pageVars

-------------------------------------------------------------------------------
\* When a program runs or is being loaded, the address of its page leads to the frame of
\* its slot and nowhere else, whatever the processor cached before the directory was
\* changed, and that frame is neither the kernel's nor another program's.
OwnFrameOnly ==
    pc \in {"user", "load"} =>
        /\ \A w \in tlb \cup Walk : w.dir = ProgDir => w.to = [frame |-> FrameOf(cur), page |-> Whole]
        /\ \A w \in tlb \cup Walk : w.dir # ProgDir => w.to.frame # FrameOf(cur)
        /\ \A i \in Slots : FrameOf(i) = FrameOf(cur) => i = cur

\* A program can reach its own page and, at 132 MB only, the pages of video memory; all
\* else, the kernel and the low addresses of video memory included, is a fault.
ProgramReach ==
    pc = "user" =>
        \A w \in tlb \cup Walk : w.us = 1 =>
            \/ w.dir = ProgDir
            \/ w.dir = VidDir /\ w.tbl \in VideoPages /\ w.to = Video(w.tbl)

\* From page_init on, the kernel and video memory are mapped where they were before, at
\* every step of every call: an interrupt handler can run at any of them.
KernelStaysMapped ==
    pg => /\ \E w \in Walk : w.dir = 1 /\ w.to = Kernel
          /\ \A t \in VideoPages : \E w \in Walk : w.dir = 0 /\ w.tbl = t /\ w.to = Video(t)
          /\ \A w \in tlb : w.dir \in {0, 1} => w \in Walk

===============================================================================
