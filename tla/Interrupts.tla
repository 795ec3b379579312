------------------------------ MODULE Interrupts ------------------------------
(***************************************************************************)
(* The way of a device interrupt to its handler: the two interrupt         *)
(* controllers (i8259.c), the gates of the IDT (idt.c), the order in which *)
(* entry (kernel.c) sets them up, and the entry and exit of the two        *)
(* handlers (handler_wrapper.S, rtc.c, keyboard.c), which may nest.        *)
(***************************************************************************)
EXTENDS Integers, SequencesExt

CONSTANT MaxDepth       \* bound on the handlers nested in each other

KEYBOARD_IRQ == 1
RTC_IRQ == 8
Cascade == 2            \* the master's line the slave is on
Devices == {KEYBOARD_IRQ, RTC_IRQ}
Lines == 0..15

ASSUME InterruptAssumption == MaxDepth \in Nat \ {0}

VARIABLES
    mask,       \* lines masked on their controller
    irr, isr,   \* lines requested by devices, and lines in service
    idt,        \* vectors with a present gate
    intr,       \* the interrupt flag
    boot,       \* steps of entry that are done
    call,       \* a system call that keeps interrupts off is running
    stack,      \* the handlers running, innermost last: [irq, step]
    lost        \* an interrupt found no gate

vars == <<mask, irr, isr, idt, intr, boot, call, stack, lost>>

-------------------------------------------------------------------------------
\* Mutant: the IDT is filled after the devices are set up.
BootOrder_IdtLast ==
    <<"i8259_init", "rtc_set_rate", "rtc_enable", "keyboard_init", "idt_init", "page_init", "sti">>

\* rtc_init enables interrupts twice: at the end of rtc_set_rate and at its own.
BootOrder ==
    <<"i8259_init", "idt_init", "rtc_set_rate", "rtc_enable", "keyboard_init", "page_init", "sti">>

\* The vectors whose gate idt_init marks present: exceptions, keyboard, clock, system calls.
Present == ((0..19) \ {1, 15}) \cup {33, 40, 128}

Booted == boot = Len(BootOrder)

enable_irq(m, irq) == m \ {irq}

\* Mutant: i8259_init masks the cascade too.
InitMask_NoCascade == Lines

\* i8259_init masks every line and then opens the cascade.
InitMask == enable_irq(Lines, Cascade)

\* Vectors 0x20.. for the master and 0x28.. for the slave.
Vector(irq) == IF irq < 8 THEN 32 + irq ELSE 40 + (irq - 8)

\* One step of entry, when no handler is running.
BootStep ==
    /\ ~Booted /\ stack = <<>>
    /\ boot' = boot + 1
    /\ LET s == BootOrder[boot + 1] IN
       /\ mask' = CASE s = "i8259_init"    -> InitMask
                    [] s = "rtc_enable"    -> enable_irq(mask, RTC_IRQ)
                    [] s = "keyboard_init" -> enable_irq(mask, KEYBOARD_IRQ)
                    [] OTHER               -> mask
       /\ idt' = IF s = "idt_init" THEN Present ELSE idt
       /\ intr' = (intr \/ s \in {"rtc_set_rate", "rtc_enable", "sti"})
       /\ IF s = "i8259_init" THEN irr' = {} /\ isr' = {} ELSE UNCHANGED <<irr, isr>>
    /\ UNCHANGED <<call, stack, lost>>

\* A device raises its line; one request is remembered.
Raise(irq) ==
    /\ irr' = irr \cup {irq}
    /\ UNCHANGED <<mask, isr, idt, intr, boot, call, stack, lost>>

\* What keeps a line of the controllers back: itself or a line of higher priority of the
\* same controller in service, and for the slave's the same of its cascade line.
Above(irq) == IF irq < 8 THEN 0..irq ELSE 8..irq \cup 0..Cascade
Unmasked(irq) == irq \notin mask /\ (irq >= 8 => Cascade \notin mask)
Ready(irq) == irq \in irr /\ Unmasked(irq) /\ isr \cap Above(irq) = {}

\* The CPU takes the interrupt through its gate, which turns interrupts off.
Deliver(irq) ==
    /\ intr /\ Ready(irq) /\ Len(stack) < MaxDepth
    /\ \A d \in Devices : Ready(d) => irq <= d
    /\ irr' = irr \ {irq}
    /\ isr' = isr \cup {irq} \cup (IF irq < 8 THEN {} ELSE {Cascade})
    /\ intr' = FALSE
    /\ stack' = Append(stack, [irq |-> irq, step |-> "body"])
    /\ lost' = (lost \/ Vector(irq) \notin idt)
    /\ UNCHANGED <<mask, idt, boot, call>>

\* Mutant: the master is not told of the end of a slave's interrupt.
send_eoi_SlaveOnly(s, irq) == s \ {irq}

send_eoi(s, irq) == s \ (IF irq <= 7 THEN {irq} ELSE {Cascade, irq})

Step(from, to) ==
    /\ stack # <<>> /\ Last(stack).step = from
    /\ stack' = Append(Front(stack), [Last(stack) EXCEPT !.step = to])

\* Mutant: both handlers enable interrupts before they return.
HandlerEnd_BothEnable ==
    /\ Step("body", "return")
    /\ isr' = send_eoi(isr, Last(stack).irq)
    /\ intr' = TRUE
    /\ UNCHANGED <<mask, irr, idt, boot, call, lost>>

\* The handler does its work and sends the end of interrupt; rtc_handler then enables
\* interrupts, keyboard_handler does not.
HandlerEnd ==
    /\ Step("body", "return")
    /\ isr' = send_eoi(isr, Last(stack).irq)
    /\ intr' = (Last(stack).irq = RTC_IRQ)
    /\ UNCHANGED <<mask, irr, idt, boot, call, lost>>

\* popfl of the wrapper: interrupts are off again.
PopFlags ==
    /\ Step("return", "iret")
    /\ intr' = FALSE
    /\ UNCHANGED <<mask, irr, isr, idt, boot, call, lost>>

\* iret takes up what was interrupted, with interrupts on.
Iret ==
    /\ stack # <<>> /\ Last(stack).step = "iret"
    /\ stack' = Front(stack)
    /\ intr' = TRUE
    /\ UNCHANGED <<mask, irr, isr, idt, boot, call, lost>>

\* A program calls the kernel: the gate of 0x80 turns interrupts off until the call
\* returns, or waits in terminal_read or rtc_read, which turn them on.
SystemCall ==
    /\ Booted /\ stack = <<>> /\ ~call
    /\ call' = TRUE /\ intr' = FALSE
    /\ UNCHANGED <<mask, irr, isr, idt, boot, stack, lost>>

CallEnd ==
    /\ call /\ stack = <<>>
    /\ call' = FALSE /\ intr' = TRUE
    /\ UNCHANGED <<mask, irr, isr, idt, boot, stack, lost>>

\* The boot loader hands over with interrupts off; masks and requests are anything.
Init ==
    /\ mask \in {{}, Lines} /\ irr \in SUBSET Devices /\ isr = {}
    /\ idt = {} /\ intr = FALSE /\ boot = 0 /\ call = FALSE
    /\ stack = <<>> /\ lost = FALSE

Cpu == BootStep \/ HandlerEnd \/ PopFlags \/ Iret \/ CallEnd

Next ==
    \/ Cpu
    \/ SystemCall
    \/ \E irq \in Devices : Raise(irq) \/ Deliver(irq)

\* The CPU goes on, takes an interrupt it is offered again and again, and has time left
\* by the clock's ticks (1024 a second) for entry, and each handler of a
\* nest, to come to its end.
Spec ==
    /\ Init /\ [][Next]_vars
    /\ WF_vars(Cpu) /\ SF_vars(BootStep)
    /\ \A d \in 1..MaxDepth : SF_vars(Len(stack) = d /\ PopFlags)
    /\ \A irq \in Devices : SF_vars(Deliver(irq))

-------------------------------------------------------------------------------
\* Whenever interrupts are first turned on, and by whichever step of the start-up, every
\* interrupt that is let through has a gate that is present.
GatesFirst == ~lost

\* At most one handler has not yet sent its end of interrupt, it is the innermost one,
\* and the controllers have exactly its lines in service: no end of interrupt is missing
\* or sent for another line, however the handlers nest.
ServiceMatchesHandlers ==
    /\ \A j \in 1..Len(stack) : stack[j].step = "body" => j = Len(stack)
    /\ isr = IF stack # <<>> /\ Last(stack).step = "body"
             THEN {Last(stack).irq} \cup (IF Last(stack).irq < 8 THEN {} ELSE {Cascade})
             ELSE {}

\* A handler that was interrupted was past its end of interrupt, and only the clock's can
\* be: it enables interrupts before it returns.
OnlyRtcIsNested == \A j \in 1..(Len(stack) - 1) : stack[j] = [irq |-> RTC_IRQ, step |-> "return"]

\* Every key is answered, and every tick of the clock unless keys keep coming before it.
RequestsServed ==
    /\ []<>(KEYBOARD_IRQ \notin irr)
    /\ []<>(RTC_IRQ \notin irr \/ KEYBOARD_IRQ \in irr)

===============================================================================
