---------------------------- MODULE ProcessProofs ----------------------------
(***************************************************************************)
(* For every number of PCB slots and descriptors, every image and every    *)
(* input: the process calls keep the active slots a stack, run the process *)
(* on top in its own context and keep every suspended one resumable.  From *)
(* that invariant: the calls implement the stack of programs of            *)
(* ProcessStack, and a call that answers -1 has changed no PCB.            *)
(***************************************************************************)
EXTENDS Process, TLAPS, WellFoundedInduction

\* Before the first execute nothing is active and the boot stack is that of slot 0.
BootState ==
    mode = "boot" => /\ \A i \in Slots : ~active[i]
                     /\ tss_esp0 = 0 /\ cur = 0

\* Slot 0 is the base shell: sys_halt must find -1 there, and only there.
BaseHasNoParent == mode # "boot" => parent_pid[0] = -1

\* Every active process, not only the running one, keeps its terminal descriptors: a
\* parent must find them again when its child halts.
ActiveHasTerminal ==
    \A i \in Slots : active[i] =>
        \A f \in {0, 1} : file_desc_tb[i][f].flag = 1 /\ file_desc_tb[i][f].f_op = "term"

DescOK(d) == d.flag = 1 => d.f_op # "none" /\ (d.f_op = "file" => d.inode < nnod)

OpenDescsOK == \A i \in Slots, f \in Fds : DescOK(file_desc_tb[i][f])

\* The slots as a stack, in the strength that is inductive.
StackInv ==
    /\ ActiveIsStack
    /\ RunsInOwnContext
    /\ ParentResumable
    /\ BootState
    /\ BaseHasNoParent

DescInv == ActiveHasTerminal /\ OpenDescsOK

IndInv == TypeOK /\ StackInv /\ DescInv

-------------------------------------------------------------------------------
\* A nonempty set of naturals has a least element.
LEMMA LeastElement ==
    ASSUME NEW T, T \subseteq Nat, T # {}
    PROVE  \E x \in T : \A y \in T : x <= y
<1>1. PICK x \in T : \A y \in T : ~(<<y, x>> \in OpToRel(<, Nat))
  BY NatLessThanWellFounded, WFMin, Zenon
<1>2. \A y \in T : x <= y
  <2> TAKE y \in T
  <2>1. <<y, x>> \in Nat \X Nat /\ <<y, x>>[1] = y /\ <<y, x>>[2] = x
    OBVIOUS
  <2>2. y < x => <<y, x>> \in OpToRel(<, Nat)
    BY <2>1 DEF OpToRel
  <2>3. ~(y < x)
    BY <1>1, <2>2, Zenon
  <2>4. x \in Nat /\ y \in Nat
    OBVIOUS
  <2> QED
    BY <2>3, <2>4
<1> QED
  BY <1>2

\* What the assumptions on the image say of the entries and of the sizes, fact by fact.
LEMMA ImageFacts ==
    /\ nent \in Nat /\ nnod \in Nat /\ Modulus \in Nat /\ Modulus # 0
    /\ dirs \in [0..nent -> Dentries]
    /\ \A i \in 0..(nent - 1) : dirs[i].ft = FtFile => dirs[i].ind < nnod
<1>1. Modulus \in Nat \ {0}
  BY ImageAssumption, Zenon
<1> QED
  BY <1>1, ImageAssumption, Zenon

\* The length of an inode is a 32-bit word.
LEMMA InodeFacts == \A nd \in 0..(nnod - 1) : inodes[nd].len \in 0..(Modulus - 1)
  BY ImageAssumption, Zenon

\* The numbers of PCBs and descriptors; there is a slot 0.
LEMMA SizeFacts ==
    /\ MAX_PROCESSES \in Nat /\ MAX_FILES \in Nat
    /\ 2 <= MAX_PROCESSES /\ MAX_PROCESSES <= MAX_FILES
    /\ 0 \in Slots
<1>1. /\ MAX_PROCESSES \in Nat /\ MAX_FILES \in Nat
      /\ 2 <= MAX_PROCESSES /\ MAX_PROCESSES <= MAX_FILES
  BY ProcessAssumption, Zenon
<1>2. 0 \in Slots
  BY <1>1 DEF Slots
<1> QED
  BY <1>1, <1>2, Zenon

\* What a lookup that succeeds returns is an entry of the directory.
LEMMA LookupType ==
    ASSUME NEW name, Matches(name) # {}
    PROVE  /\ read_dentry_by_name(name) \in Dentries
           /\ read_dentry_by_name(name).ft = FtFile => read_dentry_by_name(name).ind < nnod
<1> DEFINE M == Matches(name)
<1>1. M \subseteq Nat /\ M \subseteq 0..(nent - 1)
  BY ImageFacts DEF Matches
<1>2. \E x \in M : \A y \in M : x <= y
  BY <1>1, LeastElement
<1>3. (CHOOSE i \in M : \A j \in M : i <= j) \in M
  BY <1>2
<1> DEFINE i == CHOOSE i \in M : \A j \in M : i <= j
<1>4. read_dentry_by_name(name) = dirs[i]
  BY Zenon DEF read_dentry_by_name
<1> HIDE DEF M
<1>5. i \in 0..(nent - 1)
  BY <1>1, <1>3, Zenon
<1> HIDE DEF i
<1>6. i \in 0..nent
  BY <1>5, ImageFacts
<1>7. dirs[i] \in Dentries
  BY <1>6, ImageFacts, Zenon
<1>8. dirs[i].ft = FtFile => dirs[i].ind < nnod
  BY <1>5, ImageFacts, Zenon
<1> QED
  BY <1>4, <1>7, <1>8, Zenon
-------------------------------------------------------------------------------
\* A call that changes no PCB and returns, or faults, leaves the invariant alone: of the
\* kernel stacks it overwrites only its own, where nobody is suspended.
LEMMA QuietStep ==
    ASSUME IndInv, mode = "user", UNCHANGED <<active, pid, parent_pid, args, saved_esp>>,
           UNCHANGED <<page, tss_esp0, mem, cur>>, UNCHANGED file_desc_tb,
           kstack' = [kstack EXCEPT ![get_pcb] = NoChild],
           mode' \in {"user", "spin"}, ret' \in Rets
    PROVE  IndInv'
<1> USE DEF IndInv, get_pcb
<1>1. TypeOK'
  BY DEF TypeOK, Rets
<1>2. StackInv'
  <2>1. ActiveIsStack' /\ RunsInOwnContext' /\ BootState' /\ BaseHasNoParent'
    BY DEF StackInv, ActiveIsStack, RunsInOwnContext, BootState, BaseHasNoParent
  <2>2. ParentResumable'
    BY ProcessAssumption DEF StackInv, TypeOK, ActiveIsStack, RunsInOwnContext,
       ParentResumable, Slots, NoChild
  <2> QED
    BY <2>1, <2>2 DEF StackInv
<1>3. DescInv'
  BY DEF DescInv, ActiveHasTerminal, OpenDescsOK, DescOK
<1> QED
  BY <1>1, <1>2, <1>3

\* A call that writes one descriptor of the running process: the new one must be one that
\* sys_read and sys_write can use, and 0 and 1 must stay the terminal.
LEMMA FdStep ==
    ASSUME IndInv, mode = "user", NEW f \in Fds, NEW d \in Desc, DescOK(d),
           f \in {0, 1} => d.flag = 1 /\ d.f_op = "term",
           SetFd(f, d), UNCHANGED <<page, tss_esp0, mem, cur, mode>>,
           kstack' = [kstack EXCEPT ![get_pcb] = NoChild], ret' \in Rets
    PROVE  IndInv'
<1> USE DEF IndInv, get_pcb
<1>0. tss_esp0 \in Slots /\ UNCHANGED <<active, pid, parent_pid, args, saved_esp>>
      /\ file_desc_tb' = [file_desc_tb EXCEPT ![tss_esp0][f] = d]
  BY DEF SetFd, TypeOK
<1>1. TypeOK'
  BY <1>0 DEF TypeOK, Rets
<1>2. StackInv'
  BY <1>0, SizeFacts DEF StackInv, TypeOK, ActiveIsStack, RunsInOwnContext,
     ParentResumable, BootState, BaseHasNoParent, Slots, NoChild
<1>3. ActiveHasTerminal'
  BY <1>0, SizeFacts DEF DescInv, ActiveHasTerminal, TypeOK, Fds
<1>4. OpenDescsOK'
  BY <1>0 DEF DescInv, OpenDescsOK, DescOK, TypeOK
<1> QED
  BY <1>1, <1>2, <1>3, <1>4 DEF DescInv

\* The table a new process gets is one of usable descriptors, if the slot's last one was.
LEMMA NewTableOK ==
    ASSUME NEW t \in [Fds -> Desc], \A f \in Fds : DescOK(t[f])
    PROVE  /\ NewTable(t) \in [Fds -> Desc]
           /\ \A f \in Fds : DescOK(NewTable(t)[f])
           /\ \A f \in {0, 1} : NewTable(t)[f].flag = 1 /\ NewTable(t)[f].f_op = "term"
<1>1. {0, 1} \subseteq Fds
  BY SizeFacts DEF Fds
<1>2. ASSUME NEW f \in Fds
      PROVE  /\ NewTable(t)[f] \in Desc
             /\ DescOK(NewTable(t)[f])
             /\ f < 2 => NewTable(t)[f].flag = 1 /\ NewTable(t)[f].f_op = "term"
  <2> DEFINE d == t[f]
  <2>1. d \in Desc /\ DescOK(d)
    OBVIOUS
  <2>2. [d EXCEPT !.f_op = "term", !.flag = 1] \in Desc /\ [d EXCEPT !.flag = 0] \in Desc
    BY <2>1, Zenon DEF Desc
  <2>3. NewTable(t)[f] = IF f < 2 THEN [d EXCEPT !.f_op = "term", !.flag = 1]
                         ELSE IF f < MAX_PROCESSES THEN [d EXCEPT !.flag = 0] ELSE d
    BY DEF NewTable
  <2> QED
    BY <2>1, <2>2, <2>3 DEF Desc, DescOK
<1>3. NewTable(t) = [f \in Fds |-> NewTable(t)[f]]
  BY DEF NewTable
<1> QED
  BY <1>1, <1>2, <1>3

\* sys_execute past its checks, from a state in which the slots below i are a stack whose
\* top runs: the new process goes on top of it.
StartPre(act, tb, pids, i, ind, a) ==
    /\ act \in [Slots -> BOOLEAN] /\ tb \in [Slots -> [Fds -> Desc]]
    /\ DOMAIN pids = Slots /\ pids = [j \in Slots |-> pids[j]]
    /\ \A j \in Slots : j # i => pids[j] \in Slots
    /\ i \in Slots /\ ind \in Nat /\ a \in Args
    /\ \A j \in Slots : act[j] <=> j < i
    /\ i > 0 => tss_esp0 = i - 1 /\ parent_pid[0] = -1
    /\ \A j \in Slots : 0 < j /\ j < i =>
            parent_pid[j] = j - 1 /\ saved_esp[j] = j - 1 /\ kstack[j - 1] = j
    /\ \A j \in Slots, f \in Fds : DescOK(tb[j][f])
    /\ \A j \in Slots, f \in {0, 1} : j < i => tb[j][f].flag = 1 /\ tb[j][f].f_op = "term"

LEMMA StartStep ==
    ASSUME TypeOK, NEW act, NEW tb, NEW pids, NEW i, NEW ind, NEW a,
           StartPre(act, tb, pids, i, ind, a),
           Start(act, tb, pids, i, ind, a)
    PROVE  IndInv'
<1> USE DEF StartPre
<1> USE DEF get_pcb, Start, LoadProgram, SaveStack
<1>1. /\ NewTable(tb[i]) \in [Fds -> Desc]
      /\ \A f \in Fds : DescOK(NewTable(tb[i])[f])
      /\ \A f \in {0, 1} : NewTable(tb[i])[f].flag = 1 /\ NewTable(tb[i])[f].f_op = "term"
  BY NewTableOK
<1>2. TypeOK'
  <2>0. i - 1 \in Slots \cup {-1}
    BY SizeFacts DEF Slots
  <2>1. pid' \in [Slots -> Slots] /\ parent_pid' \in [Slots -> Slots \cup {-1}]
    BY <2>0 DEF TypeOK
  <2>2. file_desc_tb' \in [Slots -> [Fds -> Desc]] /\ active' \in [Slots -> BOOLEAN]
    BY <1>1
  <2>3. args' \in [Slots -> Args] /\ saved_esp' \in [Slots -> Slots]
    BY DEF TypeOK
  <2>4. kstack' \in [Slots -> Slots \cup {NoChild}] /\ mem' \in [Slots -> Nat]
    BY DEF TypeOK
  <2>5. ret' \in Rets /\ mode' \in {"boot", "user", "spin"}
    BY DEF Rets
  <2>6. page' \in Slots \cup {NoPage} /\ tss_esp0' \in Slots /\ cur' \in Slots
    OBVIOUS
  <2> QED
    BY <2>1, <2>2, <2>3, <2>4, <2>5, <2>6, Zenon DEF TypeOK
<1>3. ActiveIsStack' /\ RunsInOwnContext' /\ BootState'
  BY DEF ActiveIsStack, RunsInOwnContext, BootState, TypeOK, Slots
<1>4. ParentResumable' /\ BaseHasNoParent'
  <2>1. BaseHasNoParent'
    BY DEF BaseHasNoParent, TypeOK, Slots
  <2>2. ParentResumable'
    BY DEF ParentResumable, TypeOK, Slots
  <2> QED
    BY <2>1, <2>2
<1>5. ActiveHasTerminal'
  <2> SUFFICES ASSUME NEW j \in Slots, active'[j], NEW f \in {0, 1}
               PROVE  file_desc_tb'[j][f].flag = 1 /\ file_desc_tb'[j][f].f_op = "term"
    BY DEF ActiveHasTerminal
  <2>1. CASE j = i
    BY <2>1, <1>1
  <2>2. CASE j # i
    BY <2>2 DEF Slots
  <2> QED
    BY <2>1, <2>2
<1>6. OpenDescsOK'
  <2> SUFFICES ASSUME NEW j \in Slots, NEW f \in Fds
               PROVE  DescOK(file_desc_tb'[j][f])
    BY DEF OpenDescsOK, DescOK
  <2>1. CASE j = i
    BY <2>1, <1>1
  <2>2. CASE j # i
    BY <2>2
  <2> QED
    BY <2>1, <2>2
<1> QED
  BY <1>2, <1>3, <1>4, <1>5, <1>6 DEF IndInv, StackInv, DescInv

\* sys_halt of a process above the base shell: the one below it becomes the top.
LEMMA HaltStep ==
    ASSUME IndInv, mode = "user", NEW status \in 0..255, parent_pid[get_pcb] # -1,
           HaltToParent(get_pcb, status)
    PROVE  IndInv'
<1> USE DEF get_pcb, HaltToParent, RestoreParent
<1>1. /\ TypeOK /\ ActiveIsStack /\ RunsInOwnContext /\ ParentResumable /\ BaseHasNoParent
      /\ tss_esp0 = cur /\ cur \in Slots
  BY DEF IndInv, StackInv, RunsInOwnContext, TypeOK
<1>2. /\ cur > 0 /\ cur - 1 \in Slots
      /\ parent_pid[cur] = cur - 1 /\ saved_esp[cur] = cur - 1
  <2>0. cur # 0
    BY <1>1 DEF BaseHasNoParent
  <2>1. cur > 0 /\ cur - 1 \in Slots
    BY <1>1, <2>0, SizeFacts DEF Slots
  <2>2. active[cur]
    BY <1>1 DEF ActiveIsStack, Slots
  <2> QED
    BY <1>1, <2>1, <2>2 DEF ParentResumable
<1>3. TypeOK'
  <2>1. file_desc_tb' \in [Slots -> [Fds -> Desc]]
    <3>1. 0 \in Fds /\ file_desc_tb[cur] \in [Fds -> Desc]
      BY <1>1, SizeFacts DEF Fds, TypeOK
    <3>2. [file_desc_tb[cur][0] EXCEPT !.flag = 0] \in Desc
      BY <3>1 DEF Desc
    <3> QED
      BY <1>1, <3>1, <3>2 DEF TypeOK
  <2>2. active' \in [Slots -> BOOLEAN] /\ kstack' \in [Slots -> Slots \cup {NoChild}]
    BY <1>1, Zenon DEF TypeOK
  <2>3. ret' \in Rets
    BY DEF Rets, SignExtend8
  <2>4. page' \in Slots \cup {NoPage} /\ tss_esp0' \in Slots /\ cur' \in Slots
    BY <1>1, <1>2
  <2> QED
    BY <1>1, <2>1, <2>2, <2>3, <2>4, Zenon DEF TypeOK
<1>4. ActiveIsStack' /\ RunsInOwnContext' /\ BootState' /\ BaseHasNoParent'
  BY <1>1, <1>2 DEF ActiveIsStack, RunsInOwnContext, BootState, BaseHasNoParent, TypeOK, Slots
<1>5. ParentResumable'
  BY <1>1, <1>2 DEF ParentResumable, ActiveIsStack, TypeOK, Slots
<1>6. ActiveHasTerminal'
  BY <1>1, <1>2 DEF IndInv, DescInv, ActiveHasTerminal, TypeOK
<1>7. OpenDescsOK'
  <2> SUFFICES ASSUME NEW j \in Slots, NEW f \in Fds
               PROVE  DescOK(file_desc_tb'[j][f])
    BY DEF OpenDescsOK, DescOK
  <2>1. DescOK(file_desc_tb[j][f]) /\ file_desc_tb[j][f] \in Desc
    BY <1>1 DEF IndInv, DescInv, OpenDescsOK, TypeOK
  <2>2. \/ file_desc_tb'[j][f] = file_desc_tb[j][f]
        \/ file_desc_tb'[j][f] = [file_desc_tb[j][f] EXCEPT !.flag = 0]
    BY <1>1, Zenon DEF TypeOK
  <2> QED
    BY <2>1, <2>2 DEF DescOK, Desc
<1> QED
  BY <1>3, <1>4, <1>5, <1>6, <1>7 DEF IndInv, StackInv, DescInv

-------------------------------------------------------------------------------
\* Facts about the inputs of the descriptor calls.
LEMMA U32Type == \A x \in Int : U32(x) \in 0..(Modulus - 1)
  BY ImageFacts DEF U32

\* dir_read and file_read return an integer and a position.
LEMMA ReadTypes ==
    ASSUME NEW d \in Desc, NEW n \in Int
    PROVE  /\ dir_read(d, n).ret \in Int /\ dir_read(d, n).pos \in 0..(Modulus - 1)
           /\ file_read(d, n).ret \in Int /\ file_read(d, n).pos \in 0..(Modulus - 1)
<1>1. d.file_position \in 0..(Modulus - 1) /\ d.inode \in Nat /\ Modulus \in Nat
  BY ImageFacts DEF Desc
<1>2. dir_read(d, n).ret \in Int /\ dir_read(d, n).pos \in 0..(Modulus - 1)
  <2>1. CASE IndexReadable(d.file_position)
    <3>1. dirs[d.file_position] \in Dentries
      BY <2>1, <1>1, ImageFacts DEF IndexReadable
    <3>2. Len(dirs[d.file_position].name) \in Nat
      BY <3>1 DEF Dentries
    <3>3. NameCount(dirs[d.file_position], n) \in Int
      BY <3>2, ImageFacts DEF NameCount
    <3>4. U32(d.file_position + 1) \in 0..(Modulus - 1)
      BY <1>1, U32Type
    <3> QED
      BY <2>1, <3>3, <3>4 DEF dir_read
  <2>2. CASE ~IndexReadable(d.file_position)
    BY <1>1, <2>2 DEF dir_read
  <2> QED
    BY <2>1, <2>2
<1>3. file_read(d, n).ret \in Int /\ file_read(d, n).pos \in 0..(Modulus - 1)
  <2> DEFINE r == IF d.inode >= nnod THEN -1
                  ELSE ClippedLen(d.inode, d.file_position, U32(n))
  <2>1. U32(n) \in Int
    BY U32Type, <1>1
  <2>2. r \in Int
    <3>1. CASE d.inode >= nnod
      BY <3>1
    <3>2. CASE ~(d.inode >= nnod)
      <4>1. inodes[d.inode].len \in Int
        BY <1>1, <3>2, ImageFacts, InodeFacts
      <4>2. U32(inodes[d.inode].len - d.file_position) \in Int
        BY <4>1, <1>1, U32Type
      <4> QED
        BY <3>2, <4>2, <2>1 DEF ClippedLen
    <3> QED
      BY <3>1, <3>2
  <2>3. U32(d.file_position + r) \in 0..(Modulus - 1)
    BY <1>1, <2>2, U32Type
  <2>4. file_read(d, n) = [ret |-> r, pos |-> U32(d.file_position + r)]
    BY DEF file_read
  <2> QED
    BY <2>2, <2>3, <2>4
<1> QED
  BY <1>2, <1>3

-------------------------------------------------------------------------------
\* The PCB memory the kernel boots with satisfies the invariant.
LEMMA InitInv == Init => IndInv
<1> SUFFICES ASSUME Init PROVE IndInv
  OBVIOUS
<1> USE DEF Init
<1>1. 0 \in Slots /\ 0 \in Fds /\ 1 \in Fds
  BY SizeFacts DEF Slots, Fds
<1>2. TypeOK
  <2>1. [f_op |-> "none", inode |-> 0, file_position |-> 0, flag |-> 0] \in Desc
    BY ImageFacts DEF Desc
  <2>2. file_desc_tb \in [Slots -> [Fds -> Desc]]
    BY <2>1
  <2>3. ret \in Rets
    BY DEF Rets
  <2>4. <<>> \in Args
    BY ProcessAssumption, Zenon
  <2> QED
    BY <1>1, <2>2, <2>3, <2>4 DEF TypeOK
<1>3. StackInv
  BY DEF StackInv, ActiveIsStack, RunsInOwnContext, ParentResumable, BootState, BaseHasNoParent
<1>4. DescInv
  BY DEF DescInv, ActiveHasTerminal, OpenDescsOK, DescOK
<1> QED
  BY <1>2, <1>3, <1>4 DEF IndInv

\* With no slot active the first free one is 0: the boot, and the restart of the base
\* shell in its own slot.
LEMMA FirstPre ==
    ASSUME NEW act \in [Slots -> BOOLEAN], NEW tb \in [Slots -> [Fds -> Desc]], NEW pids,
           NEW i \in Slots, NEW ind \in Nat, NEW a \in Args,
           DOMAIN pids = Slots, pids = [j \in Slots |-> pids[j]],
           \A j \in Slots : j # 0 => pids[j] \in Slots,
           \A j \in Slots : ~act[j], FirstFree(act, i),
           \A j \in Slots, f \in Fds : DescOK(tb[j][f])
    PROVE  StartPre(act, tb, pids, i, ind, a)
<1>1. i = 0
  <2>1. 0 \in Slots /\ ~act[0]
    BY SizeFacts, Zenon
  <2>2. ~(0 < i)
    BY <2>1 DEF FirstFree
  <2> QED
    BY <2>2 DEF Slots
<1>2. \A j \in Slots : ~(j < i)
  BY <1>1 DEF Slots
<1> QED
  BY <1>1, <1>2 DEF StartPre

\* The first execute, from entry, starts the base shell in slot 0.
LEMMA BootInv ==
    ASSUME IndInv, Boot
    PROVE  IndInv'
<1>1. PICK i \in Slots, a \in Args :
          /\ FirstFree(active, i)
          /\ Start(active, file_desc_tb, pid, i, read_dentry_by_name(Shell).ind, a)
  BY DEF Boot
<1>2. TypeOK /\ BootState /\ mode = "boot" /\ OpenDescsOK
  BY DEF IndInv, StackInv, DescInv, Boot
<1>3. PICK act, tb, pids, ind :
          act = active /\ tb = file_desc_tb /\ pids = pid /\ ind = read_dentry_by_name(Shell).ind
  OBVIOUS
<1>4. ind \in Nat
  BY <1>3, LookupType, ShellAssumption DEF Dentries
<1>5. /\ act \in [Slots -> BOOLEAN] /\ tb \in [Slots -> [Fds -> Desc]]
      /\ DOMAIN pids = Slots /\ pids = [j \in Slots |-> pids[j]]
      /\ \A j \in Slots : pids[j] \in Slots
  BY <1>2, <1>3 DEF TypeOK
<1>6. \A j \in Slots : ~act[j]
  BY <1>2, <1>3 DEF BootState
<1>7. \A j \in Slots, f \in Fds : DescOK(tb[j][f])
  BY <1>2, <1>3 DEF OpenDescsOK
<1>8. FirstFree(act, i) /\ Start(act, tb, pids, i, ind, a)
  BY <1>1, <1>3, Zenon
<1>9. StartPre(act, tb, pids, i, ind, a)
  BY <1>4, <1>5, <1>6, <1>7, <1>8, FirstPre, Zenon
<1> QED
  BY <1>2, <1>8, <1>9, StartStep, Zenon

\* halt, whoever calls it, and with it quit.
LEMMA HaltInv ==
    ASSUME IndInv, NEW status \in 0..255, sys_halt(status)
    PROVE  IndInv'
<1>1. /\ TypeOK /\ ActiveIsStack /\ RunsInOwnContext /\ ParentResumable /\ OpenDescsOK
      /\ mode = "user" /\ get_pcb = cur /\ cur \in Slots
  BY DEF IndInv, StackInv, DescInv, RunsInOwnContext, TypeOK, sys_halt, get_pcb
<1>2. CASE parent_pid[get_pcb] # -1
  BY <1>1, <1>2, HaltStep DEF sys_halt
<1>3. CASE parent_pid[get_pcb] = -1
  <2>1. PICK i \in Slots, a \in Args :
            /\ FirstFree([active EXCEPT ![cur] = FALSE], i)
            /\ Start([active EXCEPT ![cur] = FALSE], [file_desc_tb EXCEPT ![cur][0].flag = 0],
                     [pid EXCEPT ![cur] = @ - 1], i, read_dentry_by_name(Shell).ind, a)
    BY <1>1, <1>3, Zenon DEF sys_halt, HaltBaseShell
  <2>2. PICK act, tb, pids, ind :
            /\ act = [active EXCEPT ![cur] = FALSE]
            /\ tb = [file_desc_tb EXCEPT ![cur][0].flag = 0]
            /\ pids = [pid EXCEPT ![cur] = @ - 1]
            /\ ind = read_dentry_by_name(Shell).ind
    BY Zenon
  <2>3. cur = 0
    BY <1>1, <1>3 DEF ActiveIsStack, ParentResumable, Slots
  <2>4. act \in [Slots -> BOOLEAN] /\ \A j \in Slots : ~act[j]
    BY <1>1, <2>2, <2>3 DEF ActiveIsStack, Slots, TypeOK
  <2>5. 0 \in Fds /\ file_desc_tb[cur] \in [Fds -> Desc] /\ file_desc_tb[cur][0] \in Desc
    BY <1>1, SizeFacts DEF TypeOK, Fds
  <2>6. /\ [file_desc_tb[cur][0] EXCEPT !.flag = 0] \in Desc
        /\ DescOK([file_desc_tb[cur][0] EXCEPT !.flag = 0])
    BY <2>5 DEF Desc, DescOK
  <2>7. tb \in [Slots -> [Fds -> Desc]]
    BY <1>1, <2>2, <2>5, <2>6 DEF TypeOK
  <2>8. \A j \in Slots, f \in Fds : DescOK(tb[j][f])
    <3> TAKE j \in Slots, f \in Fds
    <3>1. \/ tb[j][f] = file_desc_tb[j][f]
          \/ tb[j][f] = [file_desc_tb[cur][0] EXCEPT !.flag = 0]
      BY <1>1, <2>2, <2>5 DEF TypeOK
    <3> QED
      BY <1>1, <2>6, <3>1 DEF OpenDescsOK
  <2>9. /\ DOMAIN pids = Slots /\ pids = [j \in Slots |-> pids[j]]
        /\ \A j \in Slots : j # 0 => pids[j] \in Slots
    BY <1>1, <2>2, <2>3, Zenon DEF TypeOK
  <2>10. ind \in Nat
    BY <2>2, LookupType, ShellAssumption DEF Dentries
  <2>11. FirstFree(act, i) /\ Start(act, tb, pids, i, ind, a)
    BY <2>1, <2>2, Zenon
  <2>12. StartPre(act, tb, pids, i, ind, a)
    BY <2>4, <2>7, <2>8, <2>9, <2>10, <2>11, FirstPre, Zenon
  <2> QED
    BY <1>1, <2>11, <2>12, StartStep, Zenon
<1> QED
  BY <1>2, <1>3

\* The two ways a call without effect on the PCBs ends.
LEMMA ReturnInv ==
    ASSUME IndInv, mode = "user", NEW call, NEW v, [call |-> call, val |-> v] \in Rets,
           UNCHANGED pcbs, Return(call, v)
    PROVE  IndInv'
  BY QuietStep DEF Return, pcbs

\* A fault stops the machine without touching a PCB.
LEMMA FaultInv ==
    ASSUME IndInv, mode = "user", UNCHANGED pcbs, Fault
    PROVE  IndInv'
  BY QuietStep DEF Fault, pcbs, IndInv, TypeOK

\* With the slots 0..cur active the first free one is the slot above the running process.
LEMMA NextFree ==
    ASSUME ActiveIsStack, mode # "boot", cur \in Slots, NEW i \in Slots, FirstFree(active, i)
    PROVE  i = cur + 1
<1>1. i > cur
  BY DEF FirstFree, ActiveIsStack, Slots
<1>2. cur + 1 < i => cur + 1 \in Slots
  BY SizeFacts DEF Slots
<1>3. ~(cur + 1 < i)
  BY <1>2 DEF FirstFree, ActiveIsStack, Slots
<1> QED
  BY <1>1, <1>3 DEF Slots

\* execute: a failure leaves everything, quit is a halt, a success starts the process in
\* the slot above the caller.
LEMMA ExecuteInv ==
    ASSUME IndInv, NEW c, NEW a \in Args, sys_execute(c, a)
    PROVE  IndInv'
<1>1. /\ TypeOK /\ ActiveIsStack /\ RunsInOwnContext /\ ParentResumable /\ BaseHasNoParent
      /\ ActiveHasTerminal /\ OpenDescsOK /\ mode = "user" /\ tss_esp0 = cur /\ cur \in Slots
  BY DEF IndInv, StackInv, DescInv, RunsInOwnContext, TypeOK, sys_execute
<1>2. CASE \E v \in {0, -1} : Return("execute", v) /\ UNCHANGED pcbs
  BY <1>1, <1>2, ReturnInv DEF Rets
<1>3. CASE sys_halt(0)
  BY <1>3, HaltInv
<1>4. CASE /\ Matches(c) # {}
           /\ \E i \in Slots :
                 /\ FirstFree(active, i)
                 /\ Start(active, file_desc_tb, pid, i, read_dentry_by_name(c).ind, a)
  <2>1. PICK i \in Slots :
                 /\ FirstFree(active, i)
                 /\ Start(active, file_desc_tb, pid, i, read_dentry_by_name(c).ind, a)
    BY <1>4
  <2>2. PICK act, tb, pids, ind :
          act = active /\ tb = file_desc_tb /\ pids = pid /\ ind = read_dentry_by_name(c).ind
    OBVIOUS
  <2>3. i = cur + 1
    BY <1>1, <2>1, NextFree
  <2>4. ind \in Nat
    BY <1>4, <2>2, LookupType DEF Dentries
  <2>5. /\ act \in [Slots -> BOOLEAN] /\ tb \in [Slots -> [Fds -> Desc]]
        /\ DOMAIN pids = Slots /\ pids = [j \in Slots |-> pids[j]]
        /\ \A j \in Slots : j # i => pids[j] \in Slots
    BY <1>1, <2>2 DEF TypeOK
  <2>6. \A j \in Slots : act[j] <=> j < i
    BY <1>1, <2>2, <2>3 DEF ActiveIsStack, Slots
  <2>7. i > 0 => tss_esp0 = i - 1 /\ parent_pid[0] = -1
    BY <1>1, <2>3 DEF BaseHasNoParent, Slots
  <2>8. \A j \in Slots : 0 < j /\ j < i =>
            parent_pid[j] = j - 1 /\ saved_esp[j] = j - 1 /\ kstack[j - 1] = j
    BY <1>1, <2>2, <2>6 DEF ParentResumable, Slots
  <2>9. \A j \in Slots, f \in Fds : DescOK(tb[j][f])
    BY <1>1, <2>2 DEF OpenDescsOK
  <2>10. \A j \in Slots, f \in {0, 1} : j < i => tb[j][f].flag = 1 /\ tb[j][f].f_op = "term"
    BY <1>1, <2>2, <2>6 DEF ActiveHasTerminal
  <2>11. Start(act, tb, pids, i, ind, a)
    BY <2>1, <2>2, Zenon
  <2>12. StartPre(act, tb, pids, i, ind, a)
    BY <2>4, <2>5, <2>6, <2>7, <2>8, <2>9, <2>10, ZenonT(40) DEF StartPre
  <2> QED
    BY <1>1, <2>11, <2>12, StartStep, Zenon
<1> QED
  BY <1>2, <1>3, <1>4 DEF sys_execute

\* open fills a descriptor above 1 with operations and, for a file, its inode.
LEMMA OpenInv ==
    ASSUME IndInv, NEW name, sys_open(name)
    PROVE  IndInv'
<1>1. mode = "user" /\ TypeOK /\ tss_esp0 \in Slots
  BY DEF sys_open, IndInv, TypeOK
<1>2. CASE Return("open", -1) /\ UNCHANGED pcbs
  BY <1>1, <1>2, ReturnInv DEF Rets
<1>3. CASE /\ Matches(name) # {}
           /\ \E f \in Fds :
                LET d == read_dentry_by_name(name) IN
                /\ FreeFd(f)
                /\ SetFd(f, [f_op |-> OpsOf(d.ft), flag |-> 1, file_position |-> 0,
                             inode |-> IF d.ft = FtFile THEN d.ind ELSE MyFd(f).inode])
                /\ Return("open", f)
  <2> DEFINE d == read_dentry_by_name(name)
             New(f) == [f_op |-> OpsOf(d.ft), flag |-> 1, file_position |-> 0,
                        inode |-> IF d.ft = FtFile THEN d.ind ELSE MyFd(f).inode]
  <2>1. PICK f \in Fds : FreeFd(f) /\ SetFd(f, New(f)) /\ Return("open", f)
    BY <1>3, Zenon
  <2>2. /\ d.ft \in {FtRtc, FtDir, FtFile} /\ d.ind \in Nat
        /\ d.ft = FtFile => d.ind < nnod
    <3>1. d \in Dentries /\ (d.ft = FtFile => d.ind < nnod)
      BY <1>3, LookupType, Zenon
    <3> HIDE DEF d
    <3> QED
      BY <3>1 DEF Dentries
  <2>3. MyFd(f).inode \in Nat
    BY <1>1 DEF MyFd, get_pcb, TypeOK, Desc
  <2>4. /\ OpsOf(d.ft) \in {"rtc", "dir", "file"}
        /\ OpsOf(d.ft) = "file" => d.ft = FtFile
    BY <2>2 DEF OpsOf, FtRtc, FtDir, FtFile
  <2>5. f \notin {0, 1}
    <3>1. FreeFd(f)
      BY <2>1, Zenon
    <3> QED
      BY <3>1 DEF FreeFd
  <2>6. New(f) \in Desc
    BY <2>2, <2>3, <2>4, ImageFacts DEF Desc
  <2>7. DescOK(New(f))
    BY <2>2, <2>4 DEF DescOK
  <2>8. /\ UNCHANGED <<page, tss_esp0, mem, cur, mode>>
        /\ kstack' = [kstack EXCEPT ![get_pcb] = NoChild] /\ ret' \in Rets
    <3>1. Return("open", f) /\ f \in Int
      BY <2>1 DEF Fds
    <3> QED
      BY <3>1 DEF Return, Rets
  <2> HIDE DEF New
  <2>9. PICK x : x = New(f)
    OBVIOUS
  <2> QED
    BY <1>1, <2>1, <2>5, <2>6, <2>7, <2>8, <2>9, FdStep
<1> QED
  BY <1>2, <1>3 DEF sys_open

\* close clears one flag, never that of 0 or 1.
LEMMA CloseInv ==
    ASSUME IndInv, NEW f, sys_close(f)
    PROVE  IndInv'
<1>1. mode = "user" /\ TypeOK /\ tss_esp0 \in Slots
  BY DEF sys_close, IndInv, TypeOK
<1>2. CASE UNCHANGED pcbs /\ Return("close", -1)
  BY <1>1, <1>2, ReturnInv DEF Rets
<1>3. CASE /\ f \in Fds \ {0, 1}
           /\ SetFd(f, [MyFd(f) EXCEPT !.flag = 0]) /\ Return("close", 0)
  <2>1. PICK x : x = [MyFd(f) EXCEPT !.flag = 0]
    BY Zenon
  <2>2. MyFd(f) \in Desc
    BY <1>1, <1>3 DEF MyFd, get_pcb, TypeOK
  <2>3. x \in Desc /\ DescOK(x)
    BY <2>1, <2>2 DEF Desc, DescOK
  <2>4. /\ UNCHANGED <<page, tss_esp0, mem, cur, mode>>
        /\ kstack' = [kstack EXCEPT ![get_pcb] = NoChild] /\ ret' \in Rets
    BY <1>3 DEF Return, Rets
  <2> QED
    BY <1>1, <1>3, <2>1, <2>3, <2>4, FdStep
<1> QED
  BY <1>2, <1>3 DEF sys_close

\* read moves the position of one open descriptor, or faults in the user's buffer.
LEMMA ReadInv ==
    ASSUME IndInv, NEW f, NEW n \in Int, sys_read(f, n)
    PROVE  IndInv'
<1>1. mode = "user" /\ TypeOK /\ tss_esp0 \in Slots /\ OpenDescsOK
  BY DEF sys_read, IndInv, DescInv, TypeOK
<1>2. CASE UNCHANGED pcbs /\ Return("read", -1)
  BY <1>1, <1>2, ReturnInv DEF Rets
<1>3. CASE f \in Fds /\ MyFd(f).flag = 1 /\ ReadThrough(f, n)
  <2>1. PICK d : d = MyFd(f)
    OBVIOUS
  <2>2. d \in Desc /\ DescOK(d)
    BY <1>1, <1>3, <2>1 DEF MyFd, get_pcb, TypeOK, OpenDescsOK
  <2>3. CASE UNCHANGED pcbs /\ \E c \in TermCounts : Return("read", c)
    BY <1>1, <2>3, ReturnInv, ProcessAssumption DEF Rets
  <2>4. CASE UNCHANGED pcbs /\ Return("read", 0)
    BY <1>1, <2>4, ReturnInv DEF Rets
  <2>5. CASE Fault /\ UNCHANGED pcbs
    BY <1>1, <2>5, FaultInv
  <2>6. CASE /\ d.f_op \in {"dir", "file"}
             /\ \E r \in {dir_read(d, n), file_read(d, n)} :
                  SetFd(f, [d EXCEPT !.file_position = r.pos]) /\ Return("read", r.ret)
    <3>1. PICK r \in {dir_read(d, n), file_read(d, n)} :
              SetFd(f, [d EXCEPT !.file_position = r.pos]) /\ Return("read", r.ret)
      BY <2>6
    <3>2. r.ret \in Int /\ r.pos \in 0..(Modulus - 1)
      BY <2>2, <3>1, ReadTypes
    <3>3. PICK x : x = [d EXCEPT !.file_position = r.pos]
      BY Zenon
    <3>4. x \in Desc /\ DescOK(x)
      BY <2>2, <3>2, <3>3 DEF Desc, DescOK
    <3>5. /\ UNCHANGED <<page, tss_esp0, mem, cur, mode>>
          /\ kstack' = [kstack EXCEPT ![get_pcb] = NoChild] /\ ret' \in Rets
      BY <3>1, <3>2 DEF Return, Rets
    <3>6. f \notin {0, 1}
      <4>1. active[cur] /\ tss_esp0 = cur /\ ActiveHasTerminal
        BY <1>1 DEF IndInv, StackInv, DescInv, ActiveIsStack, RunsInOwnContext, TypeOK, Slots
      <4> QED
        BY <1>1, <2>1, <2>6, <4>1 DEF MyFd, get_pcb, ActiveHasTerminal
    <3> QED
      BY <1>1, <1>3, <3>1, <3>3, <3>4, <3>5, <3>6, FdStep
  <2> QED
    BY <1>3, <2>1, <2>3, <2>4, <2>5, <2>6 DEF ReadThrough
<1> QED
  BY <1>2, <1>3 DEF sys_read

\* The calls that change no PCB.
LEMMA QuietInv ==
    ASSUME IndInv, mode = "user", UNCHANGED pcbs,
           Fault \/ \E call, v : Return(call, v) /\ [call |-> call, val |-> v] \in Rets
    PROVE  IndInv'
  BY ReturnInv, FaultInv, Zenon

\* The inductive step: every call, fault and restart preserves the invariant.
LEMMA NextInv == IndInv /\ [Next]_vars => IndInv'
<1> SUFFICES ASSUME IndInv, [Next]_vars PROVE IndInv'
  OBVIOUS
<1>1. CASE Boot
  BY <1>1, BootInv
<1>2. CASE \E s \in Statuses : sys_halt(s)
  BY <1>2, HaltInv, ProcessAssumption, Zenon
<1>3. CASE \E c \in Commands, a \in Args : sys_execute(c, a)
  BY <1>3, ExecuteInv
<1>4. CASE \E name \in OpenNames : sys_open(name)
  BY <1>4, OpenInv
<1>5. CASE \E f \in FdInputs : sys_close(f)
  BY <1>5, CloseInv
<1>6. CASE \E f \in FdInputs, n \in Sizes : sys_read(f, n)
  BY <1>6, ReadInv, ProcessAssumption
<1>7. CASE \E f \in FdInputs, n \in Sizes : sys_write(f, n)
  <2>1. PICK f \in FdInputs, n \in Sizes : sys_write(f, n)
    BY <1>7
  <2>2. \A v \in Int : [call |-> "write", val |-> v] \in Rets
    BY DEF Rets
  <2>3. n \in Int /\ -1 \in Int
    BY ProcessAssumption
  <2>4. (IF n <= 0 THEN -1 ELSE n) \in Int /\ \A ok \in BOOLEAN : (IF ok /\ n = 4 THEN n ELSE -1) \in Int
    BY <2>3
  <2> QED
    BY <2>1, <2>2, <2>3, <2>4, QuietInv, Zenon DEF sys_write
<1>8. CASE \E n \in ArgSizes : sys_getargs(n)
  <2>1. PICK n \in ArgSizes : sys_getargs(n)
    BY <1>8
  <2>2. \A v \in {-1, 0} : [call |-> "getargs", val |-> v] \in Rets
    BY DEF Rets
  <2> QED
    BY <2>1, <2>2, QuietInv, Zenon DEF sys_getargs
<1>9. CASE \E addr \in Addrs : sys_vidmap(addr)
  <2>1. \A v \in {-1, 0} : [call |-> "vidmap", val |-> v] \in Rets
    BY DEF Rets
  <2> QED
    BY <1>9, <2>1, QuietInv, Zenon DEF sys_vidmap
<1>10. CASE sys_sethandler \/ Exception
  BY <1>10, QuietInv DEF sys_sethandler, Exception
<1>11. CASE InvalidCall
  <2>1. [call |-> "invalid", val |-> -1] \in Rets
    BY DEF Rets
  <2> QED
    BY <1>11, <2>1, QuietInv DEF InvalidCall
<1>12. CASE UNCHANGED vars
  BY <1>12 DEF vars, pcbs, machine, IndInv, TypeOK, StackInv, DescInv, ActiveIsStack,
     RunsInOwnContext, ParentResumable, BootState, BaseHasNoParent, ActiveHasTerminal, OpenDescsOK
<1> QED
  BY <1>1, <1>2, <1>3, <1>4, <1>5, <1>6, <1>7, <1>8, <1>9, <1>10, <1>11, <1>12 DEF Next, Spin

-------------------------------------------------------------------------------
\* The inductive invariant holds of every reachable state.
LEMMA Invariance == Spec => []IndInv
<1>1. Init => IndInv
  BY InitInv
<1>2. IndInv /\ [Next]_vars => IndInv'
  BY NextInv
<1> QED
  BY <1>1, <1>2, PTL DEF Spec

\* Type correctness of the process calls of syscall.c: every pid, descriptor, kernel
\* stack and page is one of the machine's, whatever programs call.
THEOREM TypeCorrect == Spec => []TypeOK
<1>1. IndInv => TypeOK
  BY DEF IndInv
<1> QED
  BY <1>1, Invariance, PTL

\* sys_execute and sys_halt fill and empty the PCB slots as a stack.
THEOREM StackDiscipline == Spec => []ActiveIsStack
<1>1. IndInv => ActiveIsStack
  BY DEF IndInv, StackInv
<1> QED
  BY <1>1, Invariance, PTL

\* The running process has its own user page mapped and its own kernel stack in the tss,
\* after every execute, halt, quit and restart of the base shell.
THEOREM OwnContext == Spec => []RunsInOwnContext
<1>1. IndInv => RunsInOwnContext
  BY DEF IndInv, StackInv
<1> QED
  BY <1>1, Invariance, PTL

\* sys_halt always finds the parent's suspended execute call where saved_esp points.
THEOREM HaltCanReturn == Spec => []ParentResumable
<1>1. IndInv => ParentResumable
  BY DEF IndInv, StackInv
<1> QED
  BY <1>1, Invariance, PTL

\* sys_read and sys_write never jump through operations nobody set.
THEOREM OperationsSet == Spec => []OpenHasOps
<1>1. IndInv => OpenHasOps
  <2> SUFFICES ASSUME IndInv PROVE OpenHasOps
    OBVIOUS
  <2>1. \A i \in Slots, f \in Fds :
            file_desc_tb[i][f].flag = 1 =>
               /\ file_desc_tb[i][f].f_op # "none"
               /\ file_desc_tb[i][f].f_op = "file" => file_desc_tb[i][f].inode < nnod
    BY DEF IndInv, DescInv, OpenDescsOK, DescOK
  <2>2. mode = "user" => active[cur] /\ tss_esp0 = cur /\ cur \in Slots
    BY DEF IndInv, TypeOK, StackInv, ActiveIsStack, RunsInOwnContext, Slots
  <2>3. mode = "user" => \A f \in {0, 1} : MyFd(f).flag = 1 /\ MyFd(f).f_op = "term"
    BY <2>2 DEF IndInv, DescInv, ActiveHasTerminal, MyFd, get_pcb
  <2> QED
    BY <2>1, <2>3 DEF OpenHasOps
<1> QED
  BY <1>1, Invariance, PTL

-------------------------------------------------------------------------------
\* What a step leaves alone of slot j.
Kept(j) ==
    /\ active'[j] /\ args'[j] = args[j] /\ file_desc_tb'[j] = file_desc_tb[j]
    /\ pid'[j] = pid[j] /\ parent_pid'[j] = parent_pid[j] /\ mem'[j] = mem[j]

\* Starting a process in slot i writes the PCB and the page of slot i alone.
LEMMA StartKeeps ==
    ASSUME TypeOK, NEW i \in Slots, NEW ind, NEW a, NEW j \in Slots, j # i, active[j],
           Start(active, file_desc_tb, pid, i, ind, a)
    PROVE  Kept(j)
<1>1. active'[j]
  BY DEF Start, TypeOK
<1>2. /\ args'[j] = args[j] /\ file_desc_tb'[j] = file_desc_tb[j] /\ pid'[j] = pid[j]
      /\ parent_pid'[j] = parent_pid[j] /\ mem'[j] = mem[j]
  BY DEF Start, LoadProgram, TypeOK
<1> QED
  BY <1>1, <1>2 DEF Kept

\* A halt touches only the slot of the process that halts.
LEMMA HaltKeeps ==
    ASSUME IndInv, NEW status, sys_halt(status), NEW j \in Slots, active[j], j # cur
    PROVE  Kept(j)
<1>1. TypeOK /\ ActiveIsStack /\ mode = "user" /\ get_pcb = cur /\ cur \in Slots
  BY DEF IndInv, StackInv, RunsInOwnContext, TypeOK, sys_halt, get_pcb
<1>2. j < cur
  BY <1>1 DEF ActiveIsStack, Slots
<1>3. cur > 0
  BY <1>1, <1>2 DEF Slots
<1>4. parent_pid[cur] = cur - 1
  BY <1>1, <1>3 DEF IndInv, StackInv, ParentResumable, ActiveIsStack, Slots
<1>5. HaltToParent(cur, status)
  BY <1>1, <1>3, <1>4 DEF sys_halt, Slots
<1>6. active'[j]
  BY <1>1, <1>5 DEF HaltToParent, TypeOK
<1>7. file_desc_tb'[j] = file_desc_tb[j]
  BY <1>1, <1>5 DEF HaltToParent, TypeOK
<1> QED
  BY <1>5, <1>6, <1>7 DEF Kept, HaltToParent

\* Nothing a running process does changes a suspended one: not a call of its own, nor
\* the start or the end of a child.
THEOREM SuspendedKept == Spec => SuspendedUntouched
<1> DEFINE A == \A i \in Slots : mode = "user" /\ active[i] /\ i # cur => Kept(i)
<1>1. IndInv /\ [Next]_vars => [A]_vars
  <2> SUFFICES ASSUME IndInv, Next, NEW i \in Slots, mode = "user", active[i], i # cur
               PROVE  Kept(i)
    OBVIOUS
  <2>1. TypeOK /\ get_pcb = cur /\ cur \in Slots
    BY DEF IndInv, StackInv, RunsInOwnContext, TypeOK, get_pcb
  <2>2. CASE UNCHANGED pcbs /\ UNCHANGED mem
    BY <2>2 DEF pcbs, Kept
  <2>3. CASE \E f, d : SetFd(f, d) /\ UNCHANGED mem
    <3>1. PICK f, d : SetFd(f, d) /\ UNCHANGED mem
      BY <2>3
    <3>2. file_desc_tb'[i] = file_desc_tb[i]
      BY <2>1, <3>1 DEF SetFd, TypeOK
    <3> QED
      BY <3>1, <3>2 DEF SetFd, Kept
  <2>4. CASE \E s \in Statuses : sys_halt(s)
    BY <2>4, HaltKeeps
  <2>5. CASE \E c \in Commands, a \in Args : sys_execute(c, a)
    <3>1. PICK c \in Commands, a \in Args : sys_execute(c, a)
      BY <2>5
    <3>2. CASE sys_halt(0)
      BY <3>2, HaltKeeps
    <3>3. CASE \E v : Return("execute", v) /\ UNCHANGED pcbs
      BY <2>2, <3>3 DEF Return
    <3>4. CASE \E k \in Slots :
                 /\ FirstFree(active, k)
                 /\ Start(active, file_desc_tb, pid, k, read_dentry_by_name(c).ind, a)
      <4>1. PICK ind : ind = read_dentry_by_name(c).ind
        OBVIOUS
      <4>2. PICK k \in Slots :
                 FirstFree(active, k) /\ Start(active, file_desc_tb, pid, k, ind, a)
        BY <3>4, <4>1
      <4> QED
        BY <2>1, <4>2, StartKeeps DEF FirstFree
    <3> QED
      BY <3>1, <3>2, <3>3, <3>4 DEF sys_execute
  <2>6. CASE \E name \in OpenNames : sys_open(name)
    BY <2>2, <2>3, <2>6, Zenon DEF sys_open, Return
  <2>7. CASE \E f \in FdInputs : sys_close(f)
    BY <2>2, <2>3, <2>7, Zenon DEF sys_close, Return
  <2>8. CASE \E f \in FdInputs, n \in Sizes : sys_read(f, n)
    <3>1. PICK f, n : sys_read(f, n)
      BY <2>8, Zenon
    <3>2. (\A c, v : Return(c, v) => UNCHANGED mem) /\ (Fault => UNCHANGED mem)
      BY Zenon DEF Return, Fault
    <3>3. \/ UNCHANGED pcbs /\ (Fault \/ \E v : Return("read", v))
          \/ \E d, v : SetFd(f, d) /\ Return("read", v)
      BY <3>1, Zenon DEF sys_read, ReadThrough
    <3> QED
      BY <2>2, <2>3, <3>2, <3>3, Zenon
  <2>9. CASE \E f \in FdInputs, n \in Sizes : sys_write(f, n)
    BY <2>2, <2>9, Zenon DEF sys_write, Return, Fault
  <2>10. CASE \/ \E n \in ArgSizes : sys_getargs(n)
              \/ \E addr \in Addrs : sys_vidmap(addr)
              \/ sys_sethandler \/ InvalidCall \/ Exception
    BY <2>2, <2>10, Zenon DEF sys_getargs, sys_vidmap, sys_sethandler, InvalidCall, Exception,
       Return, Fault
  <2> QED
    BY <2>4, <2>5, <2>6, <2>7, <2>8, <2>9, <2>10 DEF Next, Boot, Spin
<1>2. [A]_vars => [\A i \in Slots : mode = "user" /\ active[i] /\ i # cur =>
            /\ active'[i] /\ args'[i] = args[i] /\ file_desc_tb'[i] = file_desc_tb[i]
            /\ pid'[i] = pid[i] /\ parent_pid'[i] = parent_pid[i] /\ mem'[i] = mem[i]]_vars
  BY Zenon DEF Kept
<1> HIDE DEF A
<1> QED
  BY <1>1, <1>2, Invariance, PTL DEF Spec, SuspendedUntouched

-------------------------------------------------------------------------------
\* The calls that neither start nor end a process, as the stack sees them: the call
\* returns, or it ends in an exception handler.
QuietCall == mode = "user" /\ (Fault \/ \E call, v : Return(call, v))

\* Every step is the boot, a halt, a successful execute, a quiet call or no step at all.
StartCall(c, a) ==
    /\ mode = "user" /\ Matches(c) # {} /\ IsExecutable(read_dentry_by_name(c))
    /\ \E i \in Slots :
          /\ FirstFree(active, i)
          /\ Start(active, file_desc_tb, pid, i, read_dentry_by_name(c).ind, a)

LEMMA StepKinds ==
    ASSUME [Next]_vars
    PROVE  \/ Boot
           \/ \E s \in 0..255 : sys_halt(s)
           \/ \E c \in Commands, a \in Args : StartCall(c, a)
           \/ QuietCall
           \/ UNCHANGED vars
<1>1. CASE Boot
  BY <1>1
<1>2. CASE \E s \in Statuses : sys_halt(s)
  BY <1>2, ProcessAssumption, Zenon
<1>3. CASE \E c \in Commands, a \in Args : sys_execute(c, a)
  <2>1. PICK c \in Commands, a \in Args : sys_execute(c, a)
    BY <1>3
  <2>2. 0 \in 0..255
    OBVIOUS
  <2> QED
    BY <2>1, <2>2, Zenon DEF sys_execute, StartCall, QuietCall
<1>4. CASE \E name \in OpenNames : sys_open(name)
  BY <1>4, Zenon DEF sys_open, QuietCall
<1>5. CASE \E f \in FdInputs : sys_close(f)
  BY <1>5, Zenon DEF sys_close, QuietCall
<1>6. CASE \E f \in FdInputs, n \in Sizes : sys_read(f, n)
  BY <1>6, Zenon DEF sys_read, ReadThrough, QuietCall
<1>7. CASE \E f \in FdInputs, n \in Sizes : sys_write(f, n)
  BY <1>7, Zenon DEF sys_write, QuietCall
<1>8. CASE \E n \in ArgSizes : sys_getargs(n)
  BY <1>8, Zenon DEF sys_getargs, QuietCall
<1>9. CASE \E addr \in Addrs : sys_vidmap(addr)
  BY <1>9, Zenon DEF sys_vidmap, QuietCall
<1>10. CASE sys_sethandler \/ Exception \/ InvalidCall
  BY <1>10, Zenon DEF sys_sethandler, Exception, InvalidCall, QuietCall
<1>11. CASE UNCHANGED vars
  BY <1>11
<1> QED
  BY <1>1, <1>2, <1>3, <1>4, <1>5, <1>6, <1>7, <1>8, <1>9, <1>10, <1>11 DEF Next, Spin

-------------------------------------------------------------------------------
\* The abstract stack is empty before the boot.
LEMMA StackInit == Init => Stack!Init
  BY DEF Init, Stack!Init

\* A quiet call is a stutter, or stops the machine.
LEMMA QuietStutters ==
    ASSUME IndInv, QuietCall
    PROVE  [Stack!Next]_(Stack!svars)
<1>1. CASE \E call, v : Return(call, v)
  BY <1>1 DEF Return, Stack!svars
<1>2. CASE Fault
  <2>1. cur \in Nat /\ mode = "user" /\ mode' = "spin"
    BY <1>2 DEF QuietCall, Fault, IndInv, TypeOK, Slots
  <2>2. [k \in 1..(cur + 1) |-> mem[k - 1]] # <<>>
    BY <2>1
  <2> QED
    BY <1>2, <2>1, <2>2 DEF Fault, Stack!Next, Stack!Stop
<1> QED
  BY <1>1, <1>2 DEF QuietCall

\* The boot, and the restart of the base shell in its own slot, put a shell on the empty
\* stack and in the place of the only program.
LEMMA FirstShell ==
    ASSUME IndInv, mode \in {"boot", "user"}, mode = "user" => cur = 0,
           NEW act, NEW tb, NEW pids, NEW a,
           Start(act, tb, pids, 0, read_dentry_by_name(Shell).ind, a)
    PROVE  Stack!Next
<1> DEFINE sh == read_dentry_by_name(Shell).ind
<1>0. mem \in [Slots -> Nat] /\ 0 \in Slots
  <2>1. mem \in [Slots -> Nat]
    BY Zenon DEF IndInv, TypeOK
  <2>2. 0 \in Slots
    BY SizeFacts DEF Slots
  <2> QED
    BY <2>1, <2>2
<1>1. mem' = [mem EXCEPT ![0] = sh] /\ page' = 0 /\ cur' = 0 /\ mode' = "user"
  BY Zenon DEF Start, LoadProgram
<1>2. mem'[0] = sh
  BY <1>0, <1>1
<1>3. [k \in 1..(cur' + 1) |-> mem'[k - 1]] = <<sh>>
  <2>1. \A k \in 1..(cur' + 1) : k - 1 = 0
    BY <1>1
  <2> QED
    BY <1>1, <1>2, <2>1
<1>4. mem'[page'] = sh /\ Len(<<sh>>) = 1 /\ <<sh>>[1] = sh
  BY <1>1, <1>2
<1> HIDE DEF sh
<1>5. CASE mode = "boot"
  BY <1>1, <1>3, <1>4, <1>5 DEF Stack!Next, Stack!Step, Stack!Boot, Stack!Top, sh
<1>6. CASE mode = "user"
  <2>1. Len([k \in 1..(cur + 1) |-> mem[k - 1]]) = 1
    BY <1>6
  <2> QED
    BY <1>1, <1>3, <1>4, <1>6, <2>1 DEF Stack!Next, Stack!Step, Stack!HaltLast, Stack!Top, sh
<1> QED
  BY <1>5, <1>6

\* A sequence read off slots 0..n is the one read off 0..n-1 and the value of slot n.
LEMMA AppendAbove ==
    ASSUME NEW n \in Nat, NEW f, NEW g, NEW x,
           \A k \in 1..(n + 1) : g[k - 1] = f[k - 1], g[n + 1] = x
    PROVE  [k \in 1..(n + 2) |-> g[k - 1]] = Append([k \in 1..(n + 1) |-> f[k - 1]], x)
<1> DEFINE b == [k \in 1..(n + 1) |-> f[k - 1]]
<1>1. Len(b) = n + 1
  OBVIOUS
<1> QED
  BY <1>1

\* A successful execute puts its program on top of the caller.
LEMMA ExecutePushes ==
    ASSUME IndInv, NEW c, NEW a, StartCall(c, a)
    PROVE  Stack!Next
<1> DEFINE ind == read_dentry_by_name(c).ind
           below == [k \in 1..(cur + 1) |-> mem[k - 1]]
           above == [k \in 1..(cur + 2) |-> mem'[k - 1]]
<1>1. /\ TypeOK /\ ActiveIsStack /\ mode = "user" /\ cur \in Slots /\ cur \in Nat
  BY DEF IndInv, StackInv, TypeOK, StartCall, Slots
<1>2. PICK i \in Slots : FirstFree(active, i) /\ Start(active, file_desc_tb, pid, i, ind, a)
  BY DEF StartCall
<1>3. i = cur + 1
  BY <1>1, <1>2, NextFree
<1>4. ind \in 0..(nnod - 1)
  <2> DEFINE d == read_dentry_by_name(c)
  <2>1. Matches(c) # {} /\ d.ft = FtFile
    BY Zenon DEF StartCall, IsExecutable
  <2>2. d \in Dentries /\ d.ind < nnod
    BY <2>1, LookupType, Zenon
  <2> HIDE DEF d
  <2>3. d.ind \in Nat
    BY <2>2 DEF Dentries
  <2>4. nnod \in Nat
    BY ImageFacts, Zenon
  <2>5. d.ind \in 0..(nnod - 1)
    BY <2>2, <2>3, <2>4
  <2> QED
    BY <2>5 DEF d
<1>5. /\ mem' = [mem EXCEPT ![cur + 1] = ind] /\ page' = cur + 1 /\ cur' = cur + 1
      /\ mode' = "user" /\ mem \in [Slots -> Nat] /\ cur + 1 \in Slots
  BY <1>1, <1>2, <1>3 DEF Start, LoadProgram, TypeOK
<1> HIDE DEF ind
<1>6. Len(below) = cur + 1 /\ cur + 1 < MAX_PROCESSES /\ below # <<>>
  <2>1. cur + 1 < MAX_PROCESSES
    BY <1>1, <1>5, SizeFacts DEF Slots
  <2> QED
    BY <1>1, <2>1
<1>7. above = Append(below, ind)
  <2>1. \A k \in 1..(cur + 1) : k - 1 \in Slots /\ k - 1 # cur + 1
    BY <1>1, <1>5, SizeFacts DEF Slots
  <2>2. \A k \in 1..(cur + 1) : mem'[k - 1] = mem[k - 1]
    BY <1>5, <2>1
  <2>3. mem'[cur + 1] = ind
    BY <1>5
  <2> QED
    BY <1>1, <2>2, <2>3, AppendAbove
<1>8. [k \in 1..(cur' + 1) |-> mem'[k - 1]] = above
  BY <1>1, <1>5
<1>9. Len(above) = cur + 2 /\ above[cur + 2] = ind /\ mem'[page'] = ind
  BY <1>1, <1>5
<1> HIDE DEF above
<1> QED
  BY <1>1, <1>4, <1>5, <1>6, <1>7, <1>8, <1>9, Zenon
     DEF Stack!Next, Stack!Step, Stack!Execute, Stack!Top

\* A halt restarts the base shell in slot 0, or goes back to the slot below.
LEMMA HaltCases ==
    ASSUME IndInv, NEW status, sys_halt(status)
    PROVE  \/ /\ cur = 0
              /\ \E a \in Args :
                    Start([active EXCEPT ![cur] = FALSE], [file_desc_tb EXCEPT ![cur][0].flag = 0],
                          [pid EXCEPT ![cur] = @ - 1], 0, read_dentry_by_name(Shell).ind, a)
           \/ cur > 0 /\ page' = cur - 1 /\ cur' = cur - 1 /\ mem' = mem /\ mode' = "user"
<1>1. /\ TypeOK /\ ActiveIsStack /\ RunsInOwnContext /\ ParentResumable /\ BaseHasNoParent
      /\ mode = "user" /\ get_pcb = cur /\ cur \in Slots /\ active[cur]
  BY DEF IndInv, StackInv, RunsInOwnContext, ActiveIsStack, TypeOK, sys_halt, get_pcb, Slots
<1>2. CASE cur = 0
  <2>1. parent_pid[cur] = -1
    BY <1>1, <1>2 DEF BaseHasNoParent
  <2>2. PICK i \in Slots, a \in Args :
            /\ FirstFree([active EXCEPT ![cur] = FALSE], i)
            /\ Start([active EXCEPT ![cur] = FALSE], [file_desc_tb EXCEPT ![cur][0].flag = 0],
                     [pid EXCEPT ![cur] = @ - 1], i, read_dentry_by_name(Shell).ind, a)
    BY <1>1, <2>1, Zenon DEF sys_halt, HaltBaseShell
  <2>3. i = 0
    BY <1>1, <1>2, <2>2, SizeFacts DEF FirstFree, TypeOK, Slots
  <2> QED
    BY <1>2, <2>2, <2>3, Zenon
<1>3. CASE cur # 0
  <2>1. cur > 0 /\ cur - 1 \in Slots
    BY <1>1, <1>3, SizeFacts DEF Slots
  <2>2. parent_pid[cur] = cur - 1 /\ saved_esp[cur] = cur - 1
    BY <1>1, <2>1 DEF ParentResumable
  <2> QED
    BY <1>1, <2>1, <2>2 DEF sys_halt, HaltToParent, RestoreParent, Slots
<1> QED
  BY <1>2, <1>3, Zenon

\* halt takes the caller off the stack, and the program below it runs again; the base
\* shell is replaced by a fresh one.
LEMMA HaltPops ==
    ASSUME IndInv, NEW status, sys_halt(status)
    PROVE  Stack!Next
<1>1. mode = "user" /\ cur \in Nat
  BY DEF IndInv, TypeOK, sys_halt, Slots
<1>2. CASE /\ cur = 0
           /\ \E a \in Args :
                 Start([active EXCEPT ![cur] = FALSE], [file_desc_tb EXCEPT ![cur][0].flag = 0],
                       [pid EXCEPT ![cur] = @ - 1], 0, read_dentry_by_name(Shell).ind, a)
  BY <1>1, <1>2, FirstShell
<1>3. CASE cur > 0 /\ page' = cur - 1 /\ cur' = cur - 1 /\ mem' = mem /\ mode' = "user"
  <2> DEFINE before == [k \in 1..(cur + 1) |-> mem[k - 1]]
  <2>1. Len(before) = cur + 1
    BY <1>1
  <2>2. [k \in 1..(cur' + 1) |-> mem'[k - 1]] = SubSeq(before, 1, cur)
    BY <1>1, <1>3, <2>1
  <2>3. Len(SubSeq(before, 1, cur)) = cur /\ SubSeq(before, 1, cur)[cur] = mem[cur - 1]
    BY <1>1, <1>3, <2>1
  <2>4. Len(before) - 1 = cur /\ Len(before) > 1
    BY <1>1, <1>3, <2>1
  <2>5. mem'[page'] = mem[cur - 1]
    BY <1>3
  <2> HIDE DEF before
  <2> QED
    BY <1>1, <1>3, <2>2, <2>3, <2>4, <2>5
       DEF Stack!Next, Stack!Step, Stack!Halt, Stack!Top, before
<1> QED
  BY <1>2, <1>3, HaltCases, ZenonT(40)

\* Every step of the calls is a step of the stack of programs, or leaves it alone.
LEMMA StackStep == IndInv /\ [Next]_vars => [Stack!Next]_(Stack!svars)
<1> SUFFICES ASSUME IndInv, [Next]_vars PROVE [Stack!Next]_(Stack!svars)
  OBVIOUS
<1>1. CASE Boot
  <2>1. PICK i \in Slots, a \in Args :
            /\ FirstFree(active, i)
            /\ Start(active, file_desc_tb, pid, i, read_dentry_by_name(Shell).ind, a)
    BY <1>1 DEF Boot
  <2>2. mode = "boot" /\ 0 \in Slots /\ ~active[0]
    BY <1>1, SizeFacts DEF Boot, IndInv, StackInv, BootState, Slots
  <2>3. i = 0
    BY <2>1, <2>2 DEF FirstFree, Slots
  <2> QED
    BY <2>1, <2>2, <2>3, FirstShell
<1>2. CASE \E s \in 0..255 : sys_halt(s)
  BY <1>2, HaltPops
<1>3. CASE \E c \in Commands, a \in Args : StartCall(c, a)
  BY <1>3, ExecutePushes
<1>4. CASE QuietCall
  BY <1>4, QuietStutters
<1>5. CASE UNCHANGED vars
  BY <1>5 DEF vars, machine, Stack!svars
<1> QED
  BY <1>1, <1>2, <1>3, <1>4, <1>5, StepKinds

\* The process calls of syscall.c implement the stack of programs: what execute and halt
\* do to PCBs, pages and kernel stacks is, seen from outside, a push, a pop or the restart
\* of the base shell, and every other call leaves the stack as it is.
THEOREM CallsImplementStack == Spec => ImplementsStack
  BY StackInit, StackStep, Invariance, PTL DEF Spec, ImplementsStack, Stack!Spec

-------------------------------------------------------------------------------
\* A read that moved the position of an open file or directory has not answered -1, and
\* one that answers -1 leaves the position: for a file because an open descriptor's inode
\* is one of the image.
LEMMA FailedReadMovesNothing ==
    ASSUME NEW d \in Desc, NEW n \in Int, d.flag = 1, DescOK(d)
    PROVE  /\ dir_read(d, n).ret = -1 => dir_read(d, n).pos = d.file_position
           /\ d.f_op = "file" => file_read(d, n).ret # -1
<1>1. d.file_position \in 0..(Modulus - 1) /\ d.inode \in Nat /\ Modulus \in Nat
  BY ImageFacts DEF Desc
<1>2. dir_read(d, n).ret = -1 => dir_read(d, n).pos = d.file_position
  <2>1. CASE IndexReadable(d.file_position)
    <3>0. dirs[d.file_position] \in Dentries
      BY <2>1, <1>1, ImageFacts DEF IndexReadable
    <3>1. Len(dirs[d.file_position].name) \in Nat
      BY <3>0 DEF Dentries
    <3>2. NameCount(dirs[d.file_position], n) # -1
      BY <3>1, ImageFacts DEF NameCount
    <3> QED
      BY <2>1, <3>2 DEF dir_read
  <2>2. CASE ~IndexReadable(d.file_position)
    BY <2>2 DEF dir_read
  <2> QED
    BY <2>1, <2>2
<1>3. ASSUME d.f_op = "file" PROVE file_read(d, n).ret # -1
  <2>1. d.inode \in 0..(nnod - 1) /\ inodes[d.inode].len \in Int /\ ~(d.inode >= nnod)
    BY <1>1, <1>3, ImageFacts, InodeFacts DEF DescOK
  <2>2. U32(n) # -1 /\ U32(inodes[d.inode].len - d.file_position) # -1
    BY <1>1, <2>1, U32Type
  <2> QED
    BY <2>1, <2>2 DEF file_read, ClippedLen
<1> QED
  BY <1>2, <1>3

\* read, the one call that writes a descriptor before its answer is known.
LEMMA FailedRead ==
    ASSUME IndInv, NEW f, NEW n \in Int, sys_read(f, n), ret'.val = -1, ret' # ret
    PROVE  UNCHANGED pcbs
<1>1. CASE UNCHANGED pcbs
  BY <1>1
<1>2. CASE f \in Fds /\ MyFd(f).flag = 1 /\ ReadThrough(f, n) /\ ~UNCHANGED pcbs
  <2>1. PICK d : d = MyFd(f)
    OBVIOUS
  <2>2. TypeOK /\ tss_esp0 \in Slots /\ d \in Desc /\ DescOK(d) /\ d.flag = 1
    BY <1>2, <2>1 DEF IndInv, DescInv, MyFd, get_pcb, TypeOK, OpenDescsOK
  <2>3. PICK r : /\ r = IF d.f_op = "dir" THEN dir_read(d, n) ELSE file_read(d, n)
                 /\ d.f_op \in {"dir", "file"}
                 /\ SetFd(f, [d EXCEPT !.file_position = r.pos]) /\ Return("read", r.ret)
    BY <1>2, <2>1, ZenonT(40) DEF ReadThrough
  <2>4. r.ret = -1
    BY <2>3 DEF Return
  <2>5. r.pos = d.file_position
    BY <2>2, <2>3, <2>4, FailedReadMovesNothing
  <2>6. [d EXCEPT !.file_position = r.pos] = d
    BY <2>2, <2>5 DEF Desc
  <2>7. SetFd(f, d)
    BY <2>3, <2>6
  <2>8. file_desc_tb' = file_desc_tb
    BY <1>2, <2>1, <2>2, <2>7 DEF SetFd, MyFd, get_pcb, TypeOK
  <2> QED
    BY <2>7, <2>8 DEF SetFd, pcbs
<1> QED
  BY <1>1, <1>2 DEF sys_read

\* A system call that answers -1 has left every PCB as it was: a failed execute started
\* nothing, a failed open took no descriptor, a failed read moved no position.
THEOREM FailuresAreClean == Spec => FailureHasNoEffect
<1> DEFINE A == ret' # ret /\ ret'.val = -1 /\ cur' >= cur => UNCHANGED pcbs
<1>1. IndInv /\ [Next]_vars => [A]_vars
  <2> SUFFICES ASSUME IndInv, Next, ret' # ret, ret'.val = -1, cur' >= cur
               PROVE  UNCHANGED pcbs
    BY Zenon
  <2>1. ASSUME NEW act, NEW tb, NEW pids, NEW i, NEW ind, NEW a,
               Start(act, tb, pids, i, ind, a)
        PROVE  FALSE
    BY <2>1 DEF Start
  <2>2. ASSUME NEW s, sys_halt(s) PROVE FALSE
    <3>1. cur \in Nat
      BY DEF IndInv, TypeOK, Slots
    <3> QED
      BY <2>1, <2>2, <3>1, HaltCases
  <2>3. CASE Boot
    BY <2>1, <2>3, Zenon DEF Boot
  <2>4. CASE \E s \in Statuses : sys_halt(s)
    BY <2>2, <2>4
  <2>5. CASE \E c \in Commands, a \in Args : sys_execute(c, a)
    BY <2>1, <2>2, <2>5, Zenon DEF sys_execute
  <2>6. CASE \E name \in OpenNames : sys_open(name)
    <3>1. \A f \in Fds : ~Return("open", f)
      BY DEF Fds, Return
    <3> QED
      BY <2>6, <3>1, Zenon DEF sys_open
  <2>7. CASE \E f \in FdInputs : sys_close(f)
    BY <2>7 DEF sys_close, Return
  <2>8. CASE \E f \in FdInputs, n \in Sizes : sys_read(f, n)
    BY <2>8, FailedRead, ProcessAssumption
  <2>9. CASE \/ \E f \in FdInputs, n \in Sizes : sys_write(f, n)
             \/ \E n \in ArgSizes : sys_getargs(n)
             \/ \E addr \in Addrs : sys_vidmap(addr)
             \/ sys_sethandler \/ InvalidCall \/ Exception
    BY <2>9, Zenon DEF sys_write, sys_getargs, sys_vidmap, sys_sethandler, InvalidCall, Exception
  <2>10. CASE Spin
    BY <2>10 DEF Spin, vars
  <2> QED
    BY <2>3, <2>4, <2>5, <2>6, <2>7, <2>8, <2>9, <2>10 DEF Next
<1> HIDE DEF A
<1> QED
  BY <1>1, Invariance, PTL DEF Spec, FailureHasNoEffect, A

===============================================================================
