-------------------------------- MODULE Machine --------------------------------
(***************************************************************************)
(* Interrupts and paging together: entry (kernel.c) turns paging on while  *)
(* interrupts are already taken, and executes the first program with them  *)
(* on; every later change of the page directory is part of a system call,  *)
(* which the gate of 0x80 began with interrupts off.                       *)
(***************************************************************************)
EXTENDS Interrupts, Paging

machineVars == <<vars, pageVars>>

\* A step of entry; page_init is one of them.
EntryStep ==
    /\ BootStep
    /\ IF BootOrder[boot + 1] = "page_init" THEN page_init ELSE UNCHANGED pageVars

HandlerStep == (HandlerEnd \/ PopFlags \/ Iret) /\ UNCHANGED pageVars

\* Only a program makes system calls.
ProgramCalls == pc = "user" /\ SystemCall /\ UNCHANGED pageVars

\* A call that changes no page, or waits, ends where it began.
CallReturns == pc = "user" /\ CallEnd /\ UNCHANGED pageVars

\* The code that is interrupted by handlers goes on when they have returned: the first
\* execute after the last step of entry, the others in a call.
Mapping ==
    /\ Booted /\ stack = <<>> /\ (pc = "user" => call)
    /\ ExecuteMap \/ HaltMap \/ (pc = "changed" /\ flushTLB)
    /\ UNCHANGED vars

\* The last step of execute and of halt goes to the program: iret turns interrupts on.
ToProgram ==
    /\ Booted /\ stack = <<>>
    /\ Load \/ (pc = "halt" /\ flushTLB)
    /\ IF call THEN CallEnd ELSE UNCHANGED vars

MachineInit == Init /\ PageInit

MachineCpu == EntryStep \/ HandlerStep \/ CallReturns \/ Mapping \/ ToProgram

MachineNext ==
    \/ MachineCpu
    \/ ProgramCalls
    \/ \E irq \in Devices : (Raise(irq) \/ Deliver(irq)) /\ UNCHANGED pageVars
    \/ Fill /\ UNCHANGED vars

\* The fairness of Interrupts: the CPU goes on, takes an interrupt it is offered again and
\* again, and has time left by the clock's ticks for entry and for each handler of a nest.
MachineSpec ==
    /\ MachineInit /\ [][MachineNext]_machineVars
    /\ WF_machineVars(MachineCpu) /\ SF_machineVars(EntryStep)
    /\ \A d \in 1..MaxDepth : SF_machineVars(Len(stack) = d /\ PopFlags /\ UNCHANGED pageVars)
    /\ \A irq \in Devices : SF_machineVars(Deliver(irq) /\ UNCHANGED pageVars)

===============================================================================
